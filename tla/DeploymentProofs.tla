-------------------------- MODULE DeploymentProofs --------------------------
(***************************************************************************)
(* Proofs about Deployment for any number of calls, files, instances and   *)
(* overlapping health checks, and for every combination of faults.         *)
(***************************************************************************)
EXTENDS Deployment, FiniteSetTheorems, TLAPS

USE DEF Instance, NoInstance, CallFields

-----------------------------------------------------------------------------
(* What starting an invocation does to its record. *)

\* The record of an unused call is well formed.
LEMMA UnusedType == Unused \in CallRecord
  BY DEF Unused, CallRecord, Frames, Execs

\* Starting executeDeployment keeps a call's record well formed, leaves its
\* frame alone and puts its execution in one of the first two steps.
LEMMA ExecuteDeploymentType ==
  ASSUME TypeOK, NEW r \in CallRecord, NEW i \in Instance \cup {NoInstance}
  PROVE  /\ ExecuteDeployment(r, i) \in CallRecord
         /\ ExecuteDeployment(r, i).frame = r.frame
         /\ ExecuteDeployment(r, i).exec \in {"create", "status"}
<1> DEFINE w == FilesToWrite(r.files)
<1>1. w \in SUBSET File
  BY DEF TypeOK, FilesToWrite, CallRecord
<1>2. PICK e \in {"create", "status"} :
         /\ e = "status" => i \in Instance
         /\ ExecuteDeployment(r, i) = [r EXCEPT !.exec = e, !.target = i,
                                                !.files = w, !.waitsOn = None]
  BY DEF ExecuteDeployment
<1> DEFINE x == [r EXCEPT !.exec = e, !.target = i, !.files = w, !.waitsOn = None]
<1> HIDE DEF w
<1>3. x \in CallFields /\ x.frame = r.frame /\ x.exec = e /\ x.target = i
  BY <1>1, <1>2 DEF CallRecord, Frames, Execs
<1> HIDE DEF x
<1>4. x \in CallRecord
  BY <1>2, <1>3 DEF CallRecord
<1> QED
  BY <1>2, <1>3, <1>4 DEF x

\* A new deployToSandbox either waits for the tracked promise or races its
\* own execution.
LEMMA InvokedType ==
  ASSUME TypeOK, NEW arg \in SUBSET File, NEW rd \in BOOLEAN,
         NEW i \in Instance \cup {NoInstance}
  PROVE  /\ Invoked(arg, rd, i) \in CallRecord
         /\ \/ /\ currentDeploymentPromise # None
               /\ Invoked(arg, rd, i).frame = "waiting"
               /\ Invoked(arg, rd, i).waitsOn = currentDeploymentPromise
            \/ /\ currentDeploymentPromise = None
               /\ Invoked(arg, rd, i).frame = "racing"
               /\ Invoked(arg, rd, i).exec \in {"create", "status"}
<1> DEFINE r == [Unused EXCEPT !.files = arg, !.redeploy = rd]
<1>1. r \in CallRecord
  BY UnusedType DEF CallRecord, Unused
<1>2. CASE currentDeploymentPromise # None
  <2>1. Invoked(arg, rd, i) = [r EXCEPT !.frame = "waiting",
                                        !.waitsOn = currentDeploymentPromise]
    BY <1>2 DEF Invoked
  <2>2. currentDeploymentPromise \in Call \cup {None}
    BY DEF TypeOK
  <2> QED
    BY <1>1, <1>2, <2>1, <2>2 DEF CallRecord, Frames
<1>3. CASE currentDeploymentPromise = None
  <2> DEFINE s == [r EXCEPT !.frame = "racing"]
  <2>1. s \in CallRecord /\ s.frame = "racing"
    BY <1>1 DEF CallRecord, Frames
  <2>2. Invoked(arg, rd, i) = ExecuteDeployment(s, i)
    BY <1>3 DEF Invoked
  <2> HIDE DEF s
  <2> QED
    BY <1>3, <2>1, <2>2, ExecuteDeploymentType
<1> QED
  BY <1>2, <1>3

-----------------------------------------------------------------------------
\* Type correctness is inductive: every step of every handler keeps the state
\* well formed.
LEMMA TypeOKStep == TypeOK /\ [Next]_vars => TypeOK'
<1> SUFFICES ASSUME TypeOK, [Next]_vars PROVE TypeOK'
  OBVIOUS
<1>1. ASSUME NEW f \in File, SaveGeneratedFile(f) PROVE TypeOK'
  BY <1>1 DEF TypeOK, SaveGeneratedFile
<1>2. ASSUME NEW c \in Call, NEW arg \in SUBSET File, NEW rd \in BOOLEAN,
             DeployToSandbox(c, arg, rd)
      PROVE  TypeOK'
  <2>1. Invoked(arg, rd, sandboxInstanceId) \in CallRecord
    BY InvokedType DEF TypeOK
  <2> QED
    BY <1>2, <2>1 DEF TypeOK, DeployToSandbox, TrackIfStarted
<1>3. ASSUME NEW c \in Call, CallStep(c) PROVE TypeOK'
  <2>0. call[c] \in CallRecord
    BY DEF TypeOK
  <2>1. CASE ProceedAfterWait(c)
    <3>1. [call[c] EXCEPT !.frame = "racing"] \in CallRecord
      BY <2>0 DEF CallRecord, Frames
    <3>2. ExecuteDeployment([call[c] EXCEPT !.frame = "racing"],
                            sandboxInstanceId) \in CallRecord
      BY <3>1, ExecuteDeploymentType DEF TypeOK
    <3> QED
      BY <2>1, <3>2 DEF TypeOK, ProceedAfterWait
  <2>2. CASE StatusPassed(c)
    BY <2>0, <2>2 DEF TypeOK, StatusPassed, AfterInstance, CallRecord, Execs
  <2>3. CASE StatusFailed(c)
    BY <2>0, <2>3 DEF TypeOK, StatusFailed, CallRecord, Execs
  <2>4. CASE InstanceCreated(c)
    <3>1. instances' \in Instance /\ instances' \in 0 .. MaxInstances
      BY <2>4, BoundsAssumption DEF TypeOK, InstanceCreated
    <3> QED
      BY <2>0, <2>4, <3>1
      DEF TypeOK, InstanceCreated, AfterInstance, CallRecord, Execs
  <2>5. ASSUME NEW n \in Call, CreateFailed(c, n) PROVE TypeOK'
    <3>1. Invoked({}, FALSE, NoInstance) \in CallRecord
      BY InvokedType
    <3>2. call' \in [Call -> CallRecord]
      BY <2>0, <2>5, <3>1 DEF TypeOK, CreateFailed, CallRecord, Execs
    <3> QED
      BY <2>5, <3>2 DEF TypeOK, CreateFailed, TrackIfStarted
  <2>6. CASE FilesWritten(c)
    <3>1. call' \in [Call -> CallRecord]
      BY <2>0, <2>6 DEF TypeOK, FilesWritten, CallRecord, Execs
    <3>2. content' \in [Instance -> SUBSET File]
      BY <2>0, <2>6 DEF TypeOK, FilesWritten, CallRecord
    <3> QED
      BY <2>6, <3>1, <3>2 DEF TypeOK, FilesWritten
  <2>7. CASE RetrySettled(c)
    BY <2>0, <2>7 DEF TypeOK, RetrySettled, CallRecord, Execs
  <2>8. CASE DeploymentSettled(c)
    BY <2>0, <2>8 DEF TypeOK, DeploymentSettled, CallRecord, Frames
  <2>9. CASE DeploymentTimedOut(c)
    BY <2>0, <2>9 DEF TypeOK, DeploymentTimedOut, CallRecord, Frames
  <2> QED
    BY <1>3, <2>1, <2>2, <2>3, <2>4, <2>5, <2>6, <2>7, <2>8, <2>9 DEF CallStep
<1>4. ASSUME NEW i \in Instance, HealthStep(i) PROVE TypeOK'
  <2>1. CASE HealthTick(i)
    BY <2>1, BoundsAssumption DEF TypeOK, HealthTick
  <2>2. CASE HealthPassed(i)
    BY <2>2, BoundsAssumption DEF TypeOK, HealthPassed
  <2>3. ASSUME NEW c \in Call, HealthFailed(i, c) PROVE TypeOK'
    <3> DEFINE r == [Unused EXCEPT !.frame = "direct", !.redeploy = TRUE,
                                   !.origin = i]
    <3>1. r \in CallRecord
      BY UnusedType DEF CallRecord, Frames, Unused
    <3>2. ExecuteDeployment(r, sandboxInstanceId) \in CallRecord
      BY <3>1, ExecuteDeploymentType DEF TypeOK
    <3>3. call' \in [Call -> CallRecord]
      BY <2>3, <3>2 DEF TypeOK, HealthFailed
    <3> QED
      BY <2>3, <3>3, BoundsAssumption DEF TypeOK, HealthFailed
  <2> QED
    BY <1>4, <2>1, <2>2, <2>3 DEF HealthStep
<1>5. CASE Evict
  <2>1. Lost \in CallRecord
    BY DEF Lost, Unused, CallRecord, Frames, Execs
  <2>2. call' \in [Call -> CallRecord]
    BY <1>5, <2>1, Zenon DEF TypeOK, Evict
  <2>3. ticks' \in [Instance -> 0 .. MaxTicks]
    <3>1. 0 \in 0 .. MaxTicks
      BY BoundsAssumption
    <3>2. ticks' = [i \in Instance |-> 0]
      BY <1>5, Zenon DEF Evict
    <3> QED
      BY <3>1, <3>2
  <2>4. /\ currentDeploymentPromise' = None /\ monitored' = {}
        /\ UNCHANGED <<sandboxInstanceId, generatedFilesMap, instances, content>>
    BY <1>5, Zenon DEF Evict
  <2> QED
    BY <2>2, <2>3, <2>4 DEF TypeOK
<1>6. CASE UNCHANGED vars
  BY <1>6 DEF TypeOK, vars
<1> QED
  BY <1>1, <1>2, <1>3, <1>4, <1>5, <1>6 DEF Next

\* The deployment state is always well formed, whatever the sandbox service
\* answers and however the calls interleave.
THEOREM TypeCorrect == Spec => []TypeOK
<1>1. Init => TypeOK
  BY UnusedType, BoundsAssumption DEF Init, TypeOK
<1> QED
  BY <1>1, TypeOKStep, PTL DEF Spec

-----------------------------------------------------------------------------
(***************************************************************************)
(* A step that only moves started calls forward, and neither adds a racer, *)
(* a waiter nor a tracked promise, keeps the queue invariant.              *)
(***************************************************************************)
LEMMA QueueInvFrame ==
  ASSUME TypeOK, QueueInv, NEW c \in Call, Started(c),
         call' \in [Call -> CallRecord],
         \A d \in Call : d # c => call'[d] = call[d],
         call'[c].frame = call[c].frame,
         call'[c].waitsOn = call[c].waitsOn,
         Started(c)',
         UNCHANGED currentDeploymentPromise
  PROVE  QueueInv'
<1>1. \A d \in Call : Racing(d)' <=> Racing(d)
  BY DEF Racing
<1>2. \A d \in Call : Waiting(d)' <=> Waiting(d)
  BY DEF Waiting
<1>3. \A d \in Call : Started(d) => Started(d)'
  BY DEF Started, Active, Settled
<1>4. \A d \in Call : call'[d].waitsOn = call[d].waitsOn
  OBVIOUS
<1>5. TrackedIsRacing'
  BY <1>1 DEF TrackedIsRacing, QueueInv, TypeOK
<1>6. WaitersBehindExecution'
  BY <1>2, <1>3, <1>4 DEF WaitersBehindExecution, QueueInv
<1>7. RacersStarted'
  BY <1>1, <1>3 DEF QueueInv, RacersStarted, Fresh, Racing, Started, Active, Settled
<1> QED
  BY <1>5, <1>6, <1>7 DEF QueueInv

(***************************************************************************)
(* A race that ends, by its promise or by the timer, clears the slot; the  *)
(* waiters stay behind the execution they chose.                           *)
(***************************************************************************)
LEMMA QueueInvRaceEnds ==
  ASSUME TypeOK, QueueInv, NEW c \in Call, Racing(c),
         NEW f \in {"returned", "threw"},
         call' = [call EXCEPT ![c].frame = f],
         currentDeploymentPromise' = None
  PROVE  QueueInv'
<1>1. \A d \in Call : call'[d].exec = call[d].exec
                     /\ call'[d].waitsOn = call[d].waitsOn
  BY DEF TypeOK, CallRecord
<1>2. \A d \in Call : /\ Racing(d)' => Racing(d)
                      /\ Waiting(d)' => Waiting(d)
                      /\ Fresh(d)' => Fresh(d)
  BY DEF TypeOK, CallRecord, Racing, Waiting, Fresh
<1>3. \A d \in Call : Started(d)' <=> Started(d)
  BY <1>1 DEF Started, Active, Settled
<1> QED
  BY <1>1, <1>2, <1>3 DEF QueueInv, TrackedIsRacing, WaitersBehindExecution, RacersStarted

\* Every step keeps the queue invariant.
LEMMA QueueInvStep == TypeOK /\ TypeOK' /\ QueueInv /\ [Next]_vars => QueueInv'
<1> SUFFICES ASSUME TypeOK, TypeOK', QueueInv, [Next]_vars PROVE QueueInv'
  OBVIOUS
<1>0. /\ call \in [Call -> CallRecord]
      /\ call' \in [Call -> CallRecord]
      /\ currentDeploymentPromise \in Call \cup {None}
      /\ sandboxInstanceId \in Instance \cup {NoInstance}
  BY DEF TypeOK
<1>1. ASSUME NEW f \in File, SaveGeneratedFile(f) PROVE QueueInv'
  BY <1>1 DEF SaveGeneratedFile, QueueInv, TrackedIsRacing, RacersStarted,
     WaitersBehindExecution, Fresh, Racing, Waiting, Started, Active, Settled
<1>2. ASSUME NEW c \in Call, NEW arg \in SUBSET File, NEW rd \in BOOLEAN,
             DeployToSandbox(c, arg, rd)
      PROVE  QueueInv'
  <2> DEFINE r == Invoked(arg, rd, sandboxInstanceId)
  <2>1. /\ call' = [call EXCEPT ![c] = r]
        /\ call[c].frame = "unused"
        /\ currentDeploymentPromise' =
              IF currentDeploymentPromise = None THEN c
              ELSE currentDeploymentPromise
    BY <1>2 DEF DeployToSandbox, TrackIfStarted, Fresh
  <2>2. \/ /\ currentDeploymentPromise # None
           /\ r.frame = "waiting" /\ r.waitsOn = currentDeploymentPromise
        \/ /\ currentDeploymentPromise = None
           /\ r.frame = "racing" /\ r.exec \in {"create", "status"}
    BY <1>0, InvokedType
  <2> HIDE DEF r
  <2>3. /\ call'[c] = r
        /\ \A d \in Call \ {c} : call'[d] = call[d]
    BY <1>0, <2>1
  <2>4. ASSUME NEW d \in Call \ {c}
        PROVE  /\ Started(d)' <=> Started(d)
               /\ Racing(d)' <=> Racing(d)
               /\ Waiting(d)' <=> Waiting(d)
               /\ Fresh(d)' <=> Fresh(d)
    <3>1. call'[d] = call[d]
      BY <2>3
    <3> QED
      BY <3>1, Zenon DEF Started, Active, Settled, Racing, Waiting, Fresh
  <2>5. Fresh(c) /\ ~Started(c)
    BY <2>1 DEF Fresh, QueueInv, RacersStarted
  <2>6. currentDeploymentPromise # None =>
           /\ currentDeploymentPromise \in Call \ {c}
           /\ Started(currentDeploymentPromise)
    BY <1>0, <2>1 DEF QueueInv, TrackedIsRacing, RacersStarted, Racing
  <2>7. TrackedIsRacing'
    BY <1>0, <2>1, <2>2, <2>3, <2>4, <2>6, CallAssumption
    DEF QueueInv, TrackedIsRacing, Racing
  <2>8. RacersStarted'
    BY <2>2, <2>3, <2>4
    DEF QueueInv, RacersStarted, Racing, Fresh, Started, Active, Settled
  <2>9. WaitersBehindExecution'
    BY <1>0, <2>2, <2>3, <2>4, <2>5, <2>6
    DEF QueueInv, WaitersBehindExecution, Waiting
  <2> QED
    BY <2>7, <2>8, <2>9 DEF QueueInv
<1>3. ASSUME NEW c \in Call, CallStep(c) PROVE QueueInv'
  <2>1. CASE ProceedAfterWait(c)
    <3> DEFINE s == [call[c] EXCEPT !.frame = "racing"]
               r == ExecuteDeployment(s, sandboxInstanceId)
    <3>1. s \in CallRecord /\ s.frame = "racing"
      BY <1>0 DEF CallRecord, Frames
    <3> HIDE DEF s
    <3>2. r.frame = "racing" /\ r.exec \in {"create", "status"}
      BY <1>0, <3>1, ExecuteDeploymentType
    <3>3. call' = [call EXCEPT ![c] = r] /\ currentDeploymentPromise' = c
      BY <2>1 DEF ProceedAfterWait, r, s
    <3> HIDE DEF r
    <3>4. \A d \in Call : Started(d) => Started(d)'
      BY <1>0, <3>2, <3>3 DEF Started, Active, Settled
    <3> QED
      BY <1>0, <3>2, <3>3, <3>4 DEF QueueInv, TrackedIsRacing, RacersStarted,
         WaitersBehindExecution, Fresh, Racing, Waiting, Started, Active, Settled
  <2>2. CASE StatusPassed(c)
    BY <1>0, <2>2, QueueInvFrame
    DEF StatusPassed, AfterInstance, CallRecord, Started, Active, Settled
  <2>3. CASE StatusFailed(c)
    BY <1>0, <2>3, QueueInvFrame
    DEF StatusFailed, CallRecord, Started, Active, Settled
  <2>4. CASE InstanceCreated(c)
    BY <1>0, <2>4, QueueInvFrame
    DEF InstanceCreated, AfterInstance, CallRecord, Started, Active, Settled
  <2>5. ASSUME NEW n \in Call, CreateFailed(c, n) PROVE QueueInv'
    <3> DEFINE r == Invoked({}, FALSE, NoInstance)
    <3>1. /\ call' = [call EXCEPT ![c].exec = "retrying", ![c].retry = n, ![n] = r]
          /\ call[n].frame = "unused" /\ call[c].exec = "create"
          /\ currentDeploymentPromise' =
                IF currentDeploymentPromise = None THEN n
                ELSE currentDeploymentPromise
      BY <2>5 DEF CreateFailed, TrackIfStarted, Fresh
    <3>2. \/ /\ currentDeploymentPromise # None
             /\ r.frame = "waiting" /\ r.waitsOn = currentDeploymentPromise
          \/ /\ currentDeploymentPromise = None
             /\ r.frame = "racing" /\ r.exec \in {"create", "status"}
      BY <1>0, InvokedType
    <3> HIDE DEF r
    <3>3. /\ call'[n] = r
          /\ \A d \in Call \ {n} :
                /\ call'[d].frame = call[d].frame
                /\ call'[d].waitsOn = call[d].waitsOn
                /\ call'[d].exec = IF d = c THEN "retrying" ELSE call[d].exec
      BY <1>0, <3>1 DEF CallRecord
    <3>4. \A d \in Call \ {n} : Started(d) => Started(d)'
      BY <3>3 DEF Started, Active, Settled
    <3>5. ASSUME NEW d \in Call \ {n}
          PROVE  /\ Racing(d)' <=> Racing(d)
                 /\ Waiting(d)' <=> Waiting(d)
                 /\ Fresh(d)' <=> Fresh(d)
      <4>1. call'[d].frame = call[d].frame
        BY <3>3
      <4> QED
        BY <4>1, Zenon DEF Racing, Waiting, Fresh
    <3>6. Fresh(n) /\ ~Started(n)
      BY <3>1 DEF Fresh, QueueInv, RacersStarted
    <3>7. Started(c) /\ ~Fresh(c) /\ c # n
      BY <3>1, <3>6 DEF QueueInv, RacersStarted, Started, Active
    <3>8. currentDeploymentPromise # None =>
             /\ currentDeploymentPromise \in Call \ {n}
             /\ Started(currentDeploymentPromise)
      BY <1>0, <3>1 DEF QueueInv, TrackedIsRacing, RacersStarted, Racing
    <3>9. TrackedIsRacing'
      BY <1>0, <3>1, <3>2, <3>3, <3>5, <3>8, CallAssumption
      DEF QueueInv, TrackedIsRacing, Racing
    <3>10. RacersStarted'
      BY <3>2, <3>3, <3>4, <3>5, <3>7
      DEF QueueInv, RacersStarted, Racing, Fresh, Started, Active, Settled
    <3>11. WaitersBehindExecution'
      BY <1>0, <3>2, <3>3, <3>4, <3>5, <3>6, <3>8
      DEF QueueInv, WaitersBehindExecution, Waiting
    <3> QED
      BY <3>9, <3>10, <3>11 DEF QueueInv
  <2>6. CASE FilesWritten(c)
    BY <1>0, <2>6, QueueInvFrame
    DEF FilesWritten, CallRecord, Started, Active, Settled
  <2>7. CASE RetrySettled(c)
    BY <1>0, <2>7, QueueInvFrame
    DEF RetrySettled, CallRecord, Started, Active, Settled
  <2>8. CASE DeploymentSettled(c)
    BY <2>8, QueueInvRaceEnds DEF DeploymentSettled
  <2>9. CASE DeploymentTimedOut(c)
    BY <2>9, QueueInvRaceEnds DEF DeploymentTimedOut
  <2> QED
    BY <1>3, <2>1, <2>2, <2>3, <2>4, <2>5, <2>6, <2>7, <2>8, <2>9 DEF CallStep
<1>4. ASSUME NEW i \in Instance, HealthStep(i) PROVE QueueInv'
  <2>1. CASE HealthTick(i) \/ HealthPassed(i)
    BY <2>1 DEF HealthTick, HealthPassed, QueueInv, TrackedIsRacing,
       RacersStarted, WaitersBehindExecution, Fresh, Racing, Waiting, Started,
       Active, Settled
  <2>2. ASSUME NEW c \in Call, HealthFailed(i, c) PROVE QueueInv'
    <3> DEFINE s == [Unused EXCEPT !.frame = "direct", !.redeploy = TRUE,
                                   !.origin = i]
               r == ExecuteDeployment(s, sandboxInstanceId)
    <3>1. s \in CallRecord /\ s.frame = "direct"
      BY UnusedType DEF CallRecord, Frames, Unused
    <3> HIDE DEF s
    <3>2. r.frame = "direct" /\ r.exec \in {"create", "status"}
      BY <1>0, <3>1, ExecuteDeploymentType
    <3>3. call' = [call EXCEPT ![c] = r] /\ UNCHANGED currentDeploymentPromise
      BY <2>2 DEF HealthFailed, r, s
    <3>4. call[c].frame = "unused"
      BY <2>2 DEF HealthFailed, Fresh
    <3> HIDE DEF r
    <3>5. \A d \in Call : Started(d) => Started(d)'
      BY <1>0, <3>2, <3>3 DEF Started, Active, Settled
    <3> QED
      BY <1>0, <3>2, <3>3, <3>4, <3>5 DEF QueueInv, TrackedIsRacing,
         RacersStarted, WaitersBehindExecution, Fresh, Racing, Waiting, Started,
         Active, Settled
  <2> QED
    BY <1>4, <2>1, <2>2 DEF HealthStep
<1>5. CASE Evict
  <2>1. currentDeploymentPromise' = None
    BY <1>5, Zenon DEF Evict
  <2>2. \A d \in Call : call[d].frame \in {"waiting", "racing"} =>
            call'[d] = Lost
    BY <1>5 DEF Evict, Active
  <2>3. \A d \in Call : call[d].frame \notin {"waiting", "racing"} =>
            call'[d] \in {call[d], Lost}
    BY <1>5 DEF Evict, Active
  <2>4. \A d \in Call : ~Waiting(d)' /\ ~Racing(d)' /\ (Fresh(d)' => ~Started(d)')
    <3> SUFFICES ASSUME NEW d \in Call
                 PROVE  ~Waiting(d)' /\ ~Racing(d)' /\ (Fresh(d)' => ~Started(d)')
      OBVIOUS
    <3>1. CASE call'[d] = call[d] /\ call[d].frame \notin {"waiting", "racing"}
      BY <3>1 DEF Waiting, Racing, Fresh, Started, Active, Settled, QueueInv,
         RacersStarted
    <3>2. CASE call'[d] = Lost
      <4>1. call'[d].frame = "lost"
        BY <3>2 DEF Lost, Unused
      <4> QED
        BY <4>1 DEF Waiting, Racing, Fresh
    <3> QED
      BY <2>2, <2>3, <3>1, <3>2
  <2> QED
    BY <2>1, <2>4 DEF QueueInv, TrackedIsRacing, RacersStarted,
       WaitersBehindExecution
<1>6. CASE UNCHANGED vars
  BY <1>6 DEF vars, QueueInv, TrackedIsRacing, RacersStarted,
     WaitersBehindExecution, Fresh, Racing, Waiting, Started, Active, Settled
<1> QED
  BY <1>1, <1>2, <1>3, <1>4, <1>5, <1>6 DEF Next

(***************************************************************************)
(* Whatever is tracked as the deployment in progress is a pending race of  *)
(* deployToSandbox, for every interleaving and every fault.                *)
(***************************************************************************)
THEOREM TrackedAlwaysRacing == Spec => []TrackedIsRacing
<1>1. Init => QueueInv
  BY DEF Init, QueueInv, TrackedIsRacing, WaitersBehindExecution, RacersStarted,
     Unused, Racing, Waiting, Fresh, Started, Active, Settled
<1>2. QueueInv => TrackedIsRacing
  BY DEF QueueInv
<1> QED
  BY <1>1, <1>2, QueueInvStep, TypeCorrect, PTL DEF Spec

(***************************************************************************)
(* A caller queued in deployToSandbox is always behind a started execution,*)
(* never behind another waiter.                                            *)
(***************************************************************************)
THEOREM WaitersAlwaysBehindExecution == Spec => []WaitersBehindExecution
<1>1. Init => QueueInv
  BY DEF Init, QueueInv, TrackedIsRacing, WaitersBehindExecution, RacersStarted,
     Unused, Racing, Waiting, Fresh, Started, Active, Settled
<1>2. QueueInv => WaitersBehindExecution
  BY DEF QueueInv
<1> QED
  BY <1>1, <1>2, QueueInvStep, TypeCorrect, PTL DEF Spec

-----------------------------------------------------------------------------
(***************************************************************************)
(* The health checks.  A check that fails turns into a redeployment, and   *)
(* the interval that would start further ones is cleared with the first;   *)
(* an instance that is not there yet has neither checks nor redeployments. *)
(***************************************************************************)
Origins(i) == {c \in Call : call[c].origin = i}
ChecksInv ==
    \A i \in Instance :
        /\ IsFiniteSet(Origins(i)) /\ ticks[i] + Cardinality(Origins(i)) <= MaxTicks
        /\ i \in monitored \/ i > instances => Origins(i) = {}
        /\ i > instances => ticks[i] = 0

\* A step that starts no redeployment and no check of a dead instance.
LEMMA ChecksFrame ==
  ASSUME TypeOK, TypeOK', ChecksInv,
         \A c \in Call : call'[c].origin \in {call[c].origin, NoInstance},
         \A i \in Instance : \/ ticks'[i] <= ticks[i]
                             \/ i \in monitored /\ i \in monitored' /\ i <= instances,
         monitored' \subseteq monitored, instances' = instances
  PROVE  ChecksInv'
<1> SUFFICES ASSUME NEW i \in Instance
             PROVE  /\ IsFiniteSet(Origins(i)') /\ ticks'[i] + Cardinality(Origins(i)') <= MaxTicks
                    /\ i \in monitored' \/ i > instances' => Origins(i)' = {}
                    /\ i > instances' => ticks'[i] = 0
  BY DEF ChecksInv
<1>1. i # NoInstance /\ ticks[i] \in Nat /\ ticks'[i] \in Nat /\ ticks'[i] <= MaxTicks /\ MaxTicks \in Nat
      /\ instances \in Nat
  BY BoundsAssumption DEF TypeOK
<1>2. Origins(i)' \subseteq Origins(i)
  BY <1>1 DEF Origins
<1>3. IsFiniteSet(Origins(i)) /\ ticks[i] + Cardinality(Origins(i)) <= MaxTicks
  BY DEF ChecksInv
<1>4. IsFiniteSet(Origins(i)') /\ Cardinality(Origins(i)') <= Cardinality(Origins(i))
  BY <1>2, <1>3, FS_Subset
<1>5. Cardinality(Origins(i)) \in Nat /\ Cardinality(Origins(i)') \in Nat
  BY <1>3, <1>4, FS_CardinalityType
<1>6. i \in monitored \/ i > instances => Origins(i)' = {}
  BY <1>2 DEF ChecksInv
<1>7. Cardinality({}) = 0
  BY FS_EmptySet
<1>8. ticks'[i] + Cardinality(Origins(i)') <= MaxTicks
  <2>1. CASE ticks'[i] <= ticks[i]
    BY <1>1, <1>3, <1>4, <1>5, <2>1
  <2>2. CASE i \in monitored
    BY <1>1, <1>6, <1>7, <2>2
  <2> QED
    BY <2>1, <2>2
<1>9. i > instances => ticks'[i] = 0
  <2> SUFFICES ASSUME i > instances PROVE ticks'[i] = 0
    OBVIOUS
  <2>1. ticks[i] = 0 /\ ticks'[i] <= ticks[i]
    BY <1>1 DEF ChecksInv
  <2> QED
    BY <1>1, <2>1
<1> QED
  BY <1>4, <1>6, <1>8, <1>9

\* Monitored instances exist: the other half of what a new interval needs.
MonitoredExist == monitored \subseteq 1 .. instances

\* A deployment keeps the origin of its call; a new one has none.
LEMMA OriginKept ==
  ASSUME NEW r \in CallRecord, NEW i
  PROVE  ExecuteDeployment(r, i).origin = r.origin
  BY DEF ExecuteDeployment, CallRecord

\* A call of deployToSandbox is no redeployment by a health check.
LEMMA InvokedNoOrigin ==
  ASSUME NEW arg \in SUBSET File, NEW rd \in BOOLEAN, NEW i
  PROVE  Invoked(arg, rd, i).origin = NoInstance
<1> DEFINE r == [Unused EXCEPT !.files = arg, !.redeploy = rd]
<1>1. r \in CallRecord /\ r.origin = NoInstance
  BY UnusedType DEF CallRecord, Unused
<1>2. CASE currentDeploymentPromise # None
  BY <1>1, <1>2 DEF Invoked, CallRecord
<1>3. CASE currentDeploymentPromise = None
  <2> DEFINE s == [r EXCEPT !.frame = "racing"]
  <2>1. s \in CallRecord /\ s.origin = NoInstance
    BY <1>1 DEF CallRecord, Frames
  <2>2. Invoked(arg, rd, i) = ExecuteDeployment(s, i)
    BY <1>3 DEF Invoked
  <2> HIDE DEF s
  <2> QED
    BY <2>1, <2>2, OriginKept
<1> QED
  BY <1>2, <1>3

\* Every step keeps the count of checks and redeployments.
LEMMA ChecksStep ==
  ASSUME TypeOK, TypeOK', ChecksInv, MonitoredExist, [Next]_vars
  PROVE  ChecksInv' /\ MonitoredExist'
<1>0. /\ call \in [Call -> CallRecord] /\ call' \in [Call -> CallRecord]
      /\ ticks \in [Instance -> 0 .. MaxTicks] /\ monitored \subseteq Instance
      /\ instances \in 0 .. MaxInstances /\ MaxTicks \in Nat /\ MaxInstances \in Nat
      /\ sandboxInstanceId \in Instance \cup {NoInstance}
  BY BoundsAssumption DEF TypeOK
<1>1. ASSUME \A c \in Call : call'[c].origin \in {call[c].origin, NoInstance},
             UNCHANGED <<ticks, monitored, instances>>
      PROVE  ChecksInv' /\ MonitoredExist'
  <2>1. \A i \in Instance : ticks'[i] <= ticks[i]
    BY <1>0, <1>1
  <2>2. ChecksInv'
    BY <1>1, <2>1, ChecksFrame
  <2> QED
    BY <1>1, <2>2 DEF MonitoredExist
<1>2. ASSUME NEW f \in File, SaveGeneratedFile(f) PROVE ChecksInv' /\ MonitoredExist'
  BY <1>1, <1>2 DEF SaveGeneratedFile
<1>3. ASSUME NEW c \in Call, NEW arg \in SUBSET File, NEW rd \in BOOLEAN,
             DeployToSandbox(c, arg, rd)
      PROVE  ChecksInv' /\ MonitoredExist'
  <2> DEFINE r == Invoked(arg, rd, sandboxInstanceId)
  <2>1. call' = [call EXCEPT ![c] = r] /\ UNCHANGED <<ticks, monitored, instances>>
    BY <1>3 DEF DeployToSandbox
  <2>2. r.origin = NoInstance
    BY InvokedNoOrigin
  <2> HIDE DEF r
  <2>3. \A d \in Call : call'[d].origin \in {call[d].origin, NoInstance}
    BY <1>0, <2>1, <2>2
  <2> QED
    BY <1>1, <2>1, <2>3
<1>4. ASSUME NEW c \in Call, CallStep(c) PROVE ChecksInv' /\ MonitoredExist'
  <2>0. call[c] \in CallRecord
    BY <1>0
  <2>1. CASE ProceedAfterWait(c)
    <3> DEFINE s == [call[c] EXCEPT !.frame = "racing"]
               r == ExecuteDeployment(s, sandboxInstanceId)
    <3>1. s \in CallRecord /\ s.origin = call[c].origin
      BY <2>0 DEF CallRecord, Frames
    <3> HIDE DEF s
    <3>2. r.origin = call[c].origin
      BY <3>1, OriginKept
    <3>3. call' = [call EXCEPT ![c] = r] /\ UNCHANGED <<ticks, monitored, instances>>
      BY <2>1 DEF ProceedAfterWait, r, s
    <3> HIDE DEF r
    <3> QED
      BY <1>0, <1>1, <3>2, <3>3
  <2>2. CASE StatusPassed(c) \/ StatusFailed(c)
    BY <1>0, <1>1, <2>0, <2>2 DEF StatusPassed, StatusFailed, CallRecord
  <2>3. CASE InstanceCreated(c)
    <3> DEFINE n == instances + 1
    <3>1. /\ instances < MaxInstances /\ instances' = n /\ monitored' = monitored \cup {n}
          /\ UNCHANGED ticks
          /\ \A d \in Call : call'[d].origin = call[d].origin
      BY <1>0, <2>0, <2>3 DEF InstanceCreated, CallRecord
    <3>2. n \in Instance /\ n > instances
      BY <1>0, <3>1
    <3>3. \A i \in Instance : Origins(i)' = Origins(i)
      BY <3>1 DEF Origins
    <3>4. \A i \in Instance : i > n => i > instances
      BY <1>0
    <3>5. ChecksInv'
      BY <3>1, <3>2, <3>3, <3>4 DEF ChecksInv
    <3>6. MonitoredExist'
      BY <1>0, <3>1 DEF MonitoredExist
    <3> QED
      BY <3>5, <3>6
  <2>4. ASSUME NEW n \in Call, CreateFailed(c, n) PROVE ChecksInv' /\ MonitoredExist'
    <3> DEFINE r == Invoked({}, FALSE, NoInstance)
    <3>1. /\ call' = [call EXCEPT ![c].exec = "retrying", ![c].retry = n, ![n] = r]
          /\ UNCHANGED <<ticks, monitored, instances>>
      BY <2>4 DEF CreateFailed
    <3>2. r.origin = NoInstance
      BY InvokedNoOrigin
    <3> HIDE DEF r
    <3>3. \A d \in Call : call'[d].origin \in {call[d].origin, NoInstance}
      BY <1>0, <2>0, <3>1, <3>2 DEF CallRecord
    <3> QED
      BY <1>1, <3>1, <3>3
  <2>5. CASE FilesWritten(c) \/ RetrySettled(c)
    <3>1. /\ \E e \in Execs : call' = [call EXCEPT ![c].exec = e]
          /\ UNCHANGED <<ticks, monitored, instances>>
      BY <2>5 DEF FilesWritten, RetrySettled, Execs
    <3> QED
      BY <1>0, <1>1, <2>0, <3>1 DEF CallRecord
  <2>6. CASE DeploymentSettled(c) \/ DeploymentTimedOut(c)
    <3>1. /\ \E f \in Frames : call' = [call EXCEPT ![c].frame = f]
          /\ UNCHANGED <<ticks, monitored, instances>>
      BY <2>6 DEF DeploymentSettled, DeploymentTimedOut, Frames
    <3> QED
      BY <1>0, <1>1, <2>0, <3>1 DEF CallRecord
  <2> QED
    BY <1>4, <2>1, <2>2, <2>3, <2>4, <2>5, <2>6 DEF CallStep
<1>5. ASSUME NEW i \in Instance, HealthStep(i) PROVE ChecksInv' /\ MonitoredExist'
  <2>1. CASE HealthTick(i)
    <3>1. /\ i \in monitored /\ ticks' = [ticks EXCEPT ![i] = ticks[i] + 1]
          /\ UNCHANGED <<call, monitored, instances>>
      BY <2>1 DEF HealthTick
    <3>2. i <= instances
      BY <1>0, <3>1 DEF MonitoredExist
    <3>3. \A j \in Instance : \/ ticks'[j] <= ticks[j]
                              \/ j \in monitored /\ j \in monitored' /\ j <= instances
      BY <1>0, <3>1, <3>2
    <3>4. ChecksInv'
      BY <3>1, <3>3, ChecksFrame
    <3> QED
      BY <3>1, <3>4 DEF MonitoredExist
  <2>2. CASE HealthPassed(i)
    <3>1. /\ ticks[i] > 0 /\ ticks' = [ticks EXCEPT ![i] = ticks[i] - 1]
          /\ UNCHANGED <<call, monitored, instances>>
      BY <2>2 DEF HealthPassed
    <3>2. \A j \in Instance : ticks'[j] <= ticks[j]
      BY <1>0, <3>1
    <3>3. ChecksInv'
      BY <3>1, <3>2, ChecksFrame
    <3> QED
      BY <3>1, <3>3 DEF MonitoredExist
  <2>3. ASSUME NEW c \in Call, HealthFailed(i, c) PROVE ChecksInv' /\ MonitoredExist'
    <3> DEFINE s == [Unused EXCEPT !.frame = "direct", !.redeploy = TRUE, !.origin = i]
               r == ExecuteDeployment(s, sandboxInstanceId)
    <3>1. s \in CallRecord /\ s.origin = i
      BY UnusedType DEF CallRecord, Frames, Unused
    <3> HIDE DEF s
    <3>2. r.origin = i
      BY <3>1, OriginKept
    <3>3. /\ ticks[i] > 0 /\ ticks' = [ticks EXCEPT ![i] = ticks[i] - 1]
          /\ monitored' = monitored \ {i} /\ UNCHANGED instances
          /\ call' = [call EXCEPT ![c] = r]
      BY <2>3 DEF HealthFailed, r, s
    <3> HIDE DEF r
    <3>4. /\ Origins(i)' \subseteq Origins(i) \cup {c}
          /\ \A j \in Instance : j # i => Origins(j)' \subseteq Origins(j)
      BY <1>0, <3>2, <3>3 DEF Origins
    <3>5. i <= instances
      BY <1>0, <3>3 DEF ChecksInv
    <3>6. ASSUME NEW j \in Instance
          PROVE  /\ IsFiniteSet(Origins(j)') /\ ticks'[j] + Cardinality(Origins(j)') <= MaxTicks
                 /\ j \in monitored' \/ j > instances' => Origins(j)' = {}
                 /\ j > instances' => ticks'[j] = 0
      <4>1. /\ IsFiniteSet(Origins(j)) /\ ticks[j] + Cardinality(Origins(j)) <= MaxTicks
            /\ j \in monitored \/ j > instances => Origins(j) = {}
            /\ j > instances => ticks[j] = 0
        BY DEF ChecksInv
      <4>2. Cardinality(Origins(j)) \in Nat
        BY <4>1, FS_CardinalityType
      <4>3. CASE j = i
        <5>1. /\ IsFiniteSet(Origins(j) \cup {c})
              /\ \/ Cardinality(Origins(j) \cup {c}) = Cardinality(Origins(j))
                 \/ Cardinality(Origins(j) \cup {c}) = Cardinality(Origins(j)) + 1
          BY <4>1, FS_AddElement
        <5>2. IsFiniteSet(Origins(j)') /\ Cardinality(Origins(j)') <= Cardinality(Origins(j) \cup {c})
          BY <3>4, <4>3, <5>1, FS_Subset
        <5>3. Cardinality(Origins(j)') \in Nat
          BY <5>2, FS_CardinalityType
        <5>4. ticks'[j] = ticks[j] - 1 /\ ticks[j] \in Nat
          BY <1>0, <3>3, <4>3
        <5>5. Cardinality(Origins(j)') <= Cardinality(Origins(j)) + 1
          BY <4>2, <5>1, <5>2, <5>3
        <5>6. ticks'[j] + Cardinality(Origins(j)') <= MaxTicks
          BY <1>0, <4>1, <4>2, <5>3, <5>4, <5>5
        <5>7. j \notin monitored' /\ ~(j > instances')
          BY <1>0, <3>3, <3>5, <4>3
        <5> QED
          BY <5>2, <5>6, <5>7
      <4>4. CASE j # i
        <5>1. Origins(j)' \subseteq Origins(j) /\ ticks'[j] = ticks[j] /\ ticks[j] \in Nat
          BY <1>0, <3>3, <3>4, <4>4
        <5>2. IsFiniteSet(Origins(j)') /\ Cardinality(Origins(j)') <= Cardinality(Origins(j))
          BY <4>1, <5>1, FS_Subset
        <5>3. Cardinality(Origins(j)') \in Nat
          BY <5>2, FS_CardinalityType
        <5>4. ticks'[j] + Cardinality(Origins(j)') <= MaxTicks
          BY <1>0, <4>1, <4>2, <5>1, <5>2, <5>3
        <5>5. j \in monitored' => j \in monitored
          BY <3>3
        <5> QED
          BY <3>3, <4>1, <5>1, <5>2, <5>4, <5>5
      <4> QED
        BY <4>3, <4>4
    <3>7. MonitoredExist'
      BY <3>3 DEF MonitoredExist
    <3> QED
      BY <3>6, <3>7 DEF ChecksInv
  <2> QED
    BY <1>5, <2>1, <2>2, <2>3 DEF HealthStep
<1>6. CASE Evict
  <2>1. /\ call' = [c \in Call |-> IF call[c].frame \in {"waiting", "racing"} \/ Active(c)
                                       \/ call[c].exec = "retrying"
                                   THEN Lost ELSE call[c]]
        /\ ticks' = [i \in Instance |-> 0] /\ monitored' = {} /\ instances' = instances
    BY <1>6, Zenon DEF Evict
  <2>2. Lost.origin = NoInstance
    BY DEF Lost, Unused
  <2>3. \A c \in Call : call'[c] = Lost \/ call'[c] = call[c]
    BY <2>1
  <2>4. \A c \in Call : call'[c].origin \in {call[c].origin, NoInstance}
    BY <2>2, <2>3
  <2>5. \A i \in Instance : ticks'[i] <= ticks[i]
    BY <1>0, <2>1
  <2>6. ChecksInv'
    BY <2>1, <2>4, <2>5, ChecksFrame
  <2> QED
    BY <2>1, <2>6 DEF MonitoredExist
<1>7. CASE UNCHANGED vars
  BY <1>1, <1>7 DEF vars
<1> QED
  BY <1>2, <1>3, <1>4, <1>5, <1>6, <1>7 DEF Next

(***************************************************************************)
(* A dead instance is redeployed at most once for every check of it in     *)
(* flight when the first one failed, the checks still in flight counted    *)
(* in: clearInterval stops the storm, for any number of calls and of       *)
(* overlapping checks, also when the agent is evicted in between.          *)
(***************************************************************************)
THEOREM RedeploysBounded == Spec => []HealthRedeploysBounded
<1>1. Init => ChecksInv /\ MonitoredExist
  <2> SUFFICES ASSUME Init PROVE ChecksInv /\ MonitoredExist
    OBVIOUS
  <2>1. \A i \in Instance : Origins(i) = {} /\ ticks[i] = 0
    BY DEF Init, Unused, Origins
  <2>2. IsFiniteSet({}) /\ Cardinality({}) = 0
    BY FS_EmptySet
  <2>3. ChecksInv
    BY <2>1, <2>2, BoundsAssumption DEF ChecksInv
  <2> QED
    BY <2>3 DEF Init, MonitoredExist
<1>2. TypeOK /\ ChecksInv => HealthRedeploysBounded
  <2> SUFFICES ASSUME TypeOK, ChecksInv, NEW i \in Instance
               PROVE  RedeploysOf(i) + ticks[i] <= MaxTicks
    BY DEF HealthRedeploysBounded
  <2>1. IsFiniteSet(Origins(i)) /\ ticks[i] + Cardinality(Origins(i)) <= MaxTicks /\ ticks[i] \in Nat
    BY BoundsAssumption DEF ChecksInv, TypeOK
  <2>2. Cardinality(Origins(i)) \in Nat /\ RedeploysOf(i) = Cardinality(Origins(i))
    BY <2>1, FS_CardinalityType DEF Origins, RedeploysOf
  <2> QED
    BY <2>1, <2>2, BoundsAssumption
<1> QED
  BY <1>1, <1>2, ChecksStep, TypeCorrect, PTL DEF Spec

-----------------------------------------------------------------------------
(***************************************************************************)
(* When nothing fails.  Until there is an instance, only the tracked call  *)
(* executes, and what it does is create one: whoever else calls meanwhile  *)
(* waits for it.  From then on no call creates another, and all of them    *)
(* write to that one.                                                      *)
(***************************************************************************)
CalmCall(c) ==
    /\ call[c].redeploy = FALSE
    /\ call[c].exec \in {"none", "status", "create", "write", "fulfilled"}
    /\ call[c].frame \in {"unused", "waiting"} => call[c].exec = "none"
    /\ call[c].frame = "returned" => call[c].exec = "fulfilled"
    /\ call[c].exec = "create" => c = currentDeploymentPromise /\ sandboxInstanceId = NoInstance
    /\ call[c].exec \in {"status", "write"} =>
          sandboxInstanceId # NoInstance /\ call[c].target = sandboxInstanceId
    /\ call[c].exec = "fulfilled" =>
          sandboxInstanceId # NoInstance /\ call[c].files \subseteq content[sandboxInstanceId]
CalmInv ==
    /\ \A c \in Call : CalmCall(c)
    /\ sandboxInstanceId = instances /\ instances \in {0, 1}

\* A step of call c that leaves the slot and the instance alone.
LEMMA CalmFrame ==
  ASSUME CalmInv, NEW c \in Call,
         \A d \in Call : d # c => call'[d] = call[d],
         CalmCall(c)',
         \A d \in Call : d # c /\ call[d].exec = "create" => d = currentDeploymentPromise',
         UNCHANGED <<sandboxInstanceId, instances>>,
         \A f \in content[sandboxInstanceId] : f \in content'[sandboxInstanceId]
  PROVE  CalmInv'
<1>1. \A d \in Call : d # c => CalmCall(d)'
  BY DEF CalmInv, CalmCall
<1> QED
  BY <1>1 DEF CalmInv

\* What a call that begins to execute looks like.
LEMMA ExecutionBegins ==
  ASSUME NEW r \in CallRecord, NEW i \in Instance \cup {NoInstance}
  PROVE  LET e == ExecuteDeployment(r, i) IN
         /\ e.exec = (IF i = NoInstance THEN "create" ELSE "status")
         /\ e.target = i /\ e.redeploy = r.redeploy /\ e.frame = r.frame
  BY DEF ExecuteDeployment, CallRecord

\* A call of deployToSandbox either waits or begins to execute.
LEMMA InvocationBegins ==
  ASSUME NEW arg \in SUBSET File, NEW rd \in BOOLEAN, NEW i \in Instance \cup {NoInstance}
  PROVE  LET r == Invoked(arg, rd, i) IN
         /\ r.redeploy = rd
         /\ IF currentDeploymentPromise # None THEN r.frame = "waiting" /\ r.exec = "none"
            ELSE /\ r.exec = (IF i = NoInstance THEN "create" ELSE "status")
                 /\ r.target = i /\ r.frame = "racing"
<1> DEFINE r == [Unused EXCEPT !.files = arg, !.redeploy = rd]
<1>1. r \in CallRecord /\ r.redeploy = rd /\ r.exec = "none"
  BY UnusedType DEF CallRecord, Unused
<1>2. CASE currentDeploymentPromise # None
  BY <1>1, <1>2 DEF Invoked, CallRecord
<1>3. CASE currentDeploymentPromise = None
  <2> DEFINE s == [r EXCEPT !.frame = "racing"]
  <2>1. s \in CallRecord /\ s.redeploy = rd /\ s.frame = "racing"
    BY <1>1 DEF CallRecord, Frames
  <2>2. Invoked(arg, rd, i) = ExecuteDeployment(s, i)
    BY <1>3 DEF Invoked
  <2> HIDE DEF s
  <2> QED
    BY <1>3, <2>1, <2>2, ExecutionBegins
<1> QED
  BY <1>2, <1>3

\* Every step that the environment allows keeps the invariant.
LEMMA CalmStep ==
  ASSUME Faults = {}, TypeOK, QueueInv, CalmInv, [Next]_vars
  PROVE  CalmInv'
<1>0. /\ call \in [Call -> CallRecord] /\ content \in [Instance -> SUBSET File]
      /\ sandboxInstanceId \in Instance \cup {NoInstance} /\ instances \in Nat
      /\ \A d \in Call : CalmCall(d)
      /\ sandboxInstanceId = instances /\ instances \in {0, 1}
  BY DEF TypeOK, CalmInv
<1>1. ASSUME NEW f \in File, SaveGeneratedFile(f) PROVE CalmInv'
  BY <1>1 DEF SaveGeneratedFile, CalmInv, CalmCall
<1>2. ASSUME NEW c \in Call, NEW arg \in SUBSET File, NEW rd \in BOOLEAN,
             DeployToSandbox(c, arg, rd)
      PROVE  CalmInv'
  <2> DEFINE r == Invoked(arg, rd, sandboxInstanceId)
  <2>1. /\ call' = [call EXCEPT ![c] = r]
        /\ currentDeploymentPromise' =
              (IF currentDeploymentPromise = None THEN c ELSE currentDeploymentPromise)
        /\ UNCHANGED <<sandboxInstanceId, instances, content>>
    BY <1>2 DEF DeployToSandbox, TrackIfStarted
  <2>2. rd = FALSE
    BY <1>2 DEF DeployToSandbox
  <2>3. /\ r.redeploy = FALSE
        /\ IF currentDeploymentPromise # None THEN r.frame = "waiting" /\ r.exec = "none"
           ELSE /\ r.exec = (IF sandboxInstanceId = NoInstance THEN "create" ELSE "status")
                /\ r.target = sandboxInstanceId /\ r.frame = "racing"
    BY <1>0, <2>2, InvocationBegins
  <2> HIDE DEF r
  <2>4. call'[c] = r /\ \A d \in Call : d # c => call'[d] = call[d]
    BY <1>0, <2>1
  <2>5. CalmCall(c)'
    BY <2>1, <2>3, <2>4 DEF CalmCall
  <2>6. \A d \in Call : d # c /\ call[d].exec = "create" => d = currentDeploymentPromise'
    BY <1>0, <2>1, CallAssumption DEF CalmCall
  <2> QED
    BY <2>1, <2>4, <2>5, <2>6, CalmFrame
<1>3. ASSUME NEW c \in Call, CallStep(c) PROVE CalmInv'
  <2>0. call[c] \in CallRecord /\ CalmCall(c)
    BY <1>0
  <2>1. CASE ProceedAfterWait(c)
    <3> DEFINE s == [call[c] EXCEPT !.frame = "racing"]
               r == ExecuteDeployment(s, sandboxInstanceId)
    <3>1. s \in CallRecord /\ s.redeploy = call[c].redeploy /\ s.frame = "racing"
      BY <2>0 DEF CallRecord, Frames
    <3> HIDE DEF s
    <3>2. /\ r.exec = (IF sandboxInstanceId = NoInstance THEN "create" ELSE "status")
          /\ r.target = sandboxInstanceId /\ r.redeploy = call[c].redeploy /\ r.frame = "racing"
      BY <1>0, <3>1, ExecutionBegins
    <3>3. /\ Waiting(c) /\ Settled(call[c].waitsOn)
          /\ call' = [call EXCEPT ![c] = r] /\ currentDeploymentPromise' = c
          /\ UNCHANGED <<sandboxInstanceId, instances, content>>
      BY <2>1 DEF ProceedAfterWait, r, s
    <3> HIDE DEF r
    <3>4. call[c].waitsOn \in Call
      BY <3>3 DEF QueueInv, WaitersBehindExecution
    <3>5. sandboxInstanceId # NoInstance
      BY <1>0, <3>3, <3>4 DEF Settled, CalmCall
    <3>6. call'[c] = r /\ \A d \in Call : d # c => call'[d] = call[d]
      BY <1>0, <3>3
    <3>7. CalmCall(c)'
      BY <2>0, <3>2, <3>3, <3>5, <3>6 DEF CalmCall
    <3>8. \A d \in Call : call[d].exec # "create"
      BY <1>0, <3>5 DEF CalmCall
    <3> QED
      BY <3>3, <3>6, <3>7, <3>8, CalmFrame
  <2>2. CASE StatusPassed(c)
    <3>1. /\ call[c].exec = "status"
          /\ call' = [call EXCEPT ![c].exec = AfterInstance(c)]
          /\ UNCHANGED <<currentDeploymentPromise, sandboxInstanceId, instances, content>>
      BY <2>0, <2>2 DEF StatusPassed, CalmCall
    <3>2. AfterInstance(c) \in {"fulfilled", "write"} /\ (AfterInstance(c) = "fulfilled" => call[c].files = {})
      BY DEF AfterInstance
    <3>3. /\ \A d \in Call : d # c => call'[d] = call[d]
          /\ call'[c].exec = AfterInstance(c) /\ call'[c].frame = call[c].frame
          /\ call'[c].files = call[c].files /\ call'[c].target = call[c].target
          /\ call'[c].redeploy = call[c].redeploy
      BY <1>0, <2>0, <3>1 DEF CallRecord
    <3>4. CalmCall(c)'
      BY <2>0, <3>1, <3>2, <3>3 DEF CalmCall
    <3>5. \A d \in Call : call[d].exec = "create" => d = currentDeploymentPromise'
      BY <1>0, <3>1 DEF CalmCall
    <3> QED
      BY <3>1, <3>3, <3>4, <3>5, CalmFrame
  <2>3. CASE StatusFailed(c)
    BY <2>3 DEF StatusFailed
  <2>4. CASE InstanceCreated(c)
    <3>1. /\ call[c].exec = "create" /\ instances < MaxInstances /\ instances' = instances + 1
          /\ sandboxInstanceId' = instances'
          /\ call' = [call EXCEPT ![c].exec = AfterInstance(c), ![c].target = instances']
      BY <2>4 DEF InstanceCreated
    <3>2. AfterInstance(c) \in {"fulfilled", "write"} /\ (AfterInstance(c) = "fulfilled" => call[c].files = {})
      BY DEF AfterInstance
    <3>3. /\ \A d \in Call : d # c => call'[d] = call[d]
          /\ call'[c].exec = AfterInstance(c) /\ call'[c].frame = call[c].frame
          /\ call'[c].files = call[c].files /\ call'[c].target = instances'
          /\ call'[c].redeploy = call[c].redeploy
      BY <1>0, <2>0, <3>1 DEF CallRecord
    <3>4. sandboxInstanceId = NoInstance /\ instances' = 1
      BY <1>0, <2>0, <3>1 DEF CalmCall
    <3>5. CalmCall(c)'
      <4>1. call[c].redeploy = FALSE /\ call[c].frame \notin {"unused", "waiting", "returned"}
        BY <2>0, <3>1 DEF CalmCall
      <4>2. sandboxInstanceId' = 1 /\ sandboxInstanceId' # NoInstance /\ call'[c].target = 1
        BY <3>1, <3>3, <3>4
      <4>3. call'[c].exec = "fulfilled" => call'[c].files \subseteq content'[sandboxInstanceId']
        BY <3>2, <3>3
      <4>4. call'[c].exec \in {"fulfilled", "write"}
        BY <3>2, <3>3
      <4> QED
        BY <3>3, <4>1, <4>2, <4>3, <4>4 DEF CalmCall
    <3>6. \A d \in Call : d # c => call[d].exec = "none"
      BY <1>0, <2>0, <3>1, <3>4 DEF CalmCall
    <3>7. \A d \in Call : d # c => CalmCall(d)'
      BY <1>0, <3>3, <3>6 DEF CalmCall
    <3> QED
      BY <3>1, <3>4, <3>5, <3>7 DEF CalmInv
  <2>5. ASSUME NEW n \in Call, CreateFailed(c, n) PROVE CalmInv'
    BY <2>5 DEF CreateFailed
  <2>6. CASE FilesWritten(c)
    <3>1. /\ call[c].exec = "write" /\ call' = [call EXCEPT ![c].exec = "fulfilled"]
          /\ content' = [content EXCEPT ![call[c].target] = content[call[c].target] \cup call[c].files]
          /\ UNCHANGED <<currentDeploymentPromise, sandboxInstanceId, instances>>
      BY <2>6 DEF FilesWritten
    <3>2. call[c].target = sandboxInstanceId /\ sandboxInstanceId \in Instance
      BY <1>0, <2>0, <3>1 DEF CalmCall
    <3>3. content'[sandboxInstanceId] = content[sandboxInstanceId] \cup call[c].files
      BY <1>0, <3>1, <3>2
    <3>4. /\ \A d \in Call : d # c => call'[d] = call[d]
          /\ call'[c].exec = "fulfilled" /\ call'[c].frame = call[c].frame
          /\ call'[c].files = call[c].files /\ call'[c].redeploy = call[c].redeploy
      BY <1>0, <2>0, <3>1 DEF CallRecord
    <3>5. CalmCall(c)'
      BY <2>0, <3>1, <3>2, <3>3, <3>4 DEF CalmCall
    <3>6. \A d \in Call : call[d].exec = "create" => d = currentDeploymentPromise'
      BY <1>0, <3>1 DEF CalmCall
    <3> QED
      BY <3>1, <3>3, <3>4, <3>5, <3>6, CalmFrame
  <2>7. CASE RetrySettled(c)
    BY <2>0, <2>7 DEF RetrySettled, CalmCall
  <2>8. CASE DeploymentSettled(c)
    <3>1. /\ Settled(c) /\ Racing(c) /\ UNCHANGED <<sandboxInstanceId, instances, content>>
          /\ call' = [call EXCEPT ![c].frame = IF call[c].exec = "fulfilled" THEN "returned" ELSE "threw"]
      BY <2>8 DEF DeploymentSettled
    <3>2. call[c].exec = "fulfilled" /\ sandboxInstanceId # NoInstance
      BY <2>0, <3>1 DEF Settled, CalmCall
    <3>3. /\ \A d \in Call : d # c => call'[d] = call[d]
          /\ call'[c].exec = "fulfilled" /\ call'[c].frame = "returned"
          /\ call'[c].files = call[c].files /\ call'[c].redeploy = call[c].redeploy
      BY <1>0, <2>0, <3>1, <3>2 DEF CallRecord
    <3>4. CalmCall(c)'
      BY <2>0, <3>1, <3>2, <3>3 DEF CalmCall
    <3>5. \A d \in Call : call[d].exec # "create"
      BY <1>0, <3>2 DEF CalmCall
    <3> QED
      BY <3>1, <3>3, <3>4, <3>5, CalmFrame
  <2>9. CASE DeploymentTimedOut(c)
    BY <2>9 DEF DeploymentTimedOut
  <2> QED
    BY <1>3, <2>1, <2>2, <2>3, <2>4, <2>5, <2>6, <2>7, <2>8, <2>9 DEF CallStep
<1>4. ASSUME NEW i \in Instance, HealthStep(i) PROVE CalmInv'
  <2>1. CASE HealthTick(i) \/ HealthPassed(i)
    BY <2>1 DEF HealthTick, HealthPassed, CalmInv, CalmCall
  <2>2. ASSUME NEW c \in Call, HealthFailed(i, c) PROVE CalmInv'
    BY <2>2 DEF HealthFailed
  <2> QED
    BY <1>4, <2>1, <2>2 DEF HealthStep
<1>5. CASE Evict
  BY <1>5 DEF Evict
<1>6. CASE UNCHANGED vars
  BY <1>6 DEF vars, CalmInv, CalmCall
<1> QED
  BY <1>1, <1>2, <1>3, <1>4, <1>5, <1>6 DEF Next

\* The invariant of a deployment in which nothing fails.
LEMMA AlwaysCalm == Spec => [](Faults = {} => CalmInv)
<1>1. Init => (Faults = {} => CalmInv)
  BY DEF Init, Unused, CalmInv, CalmCall
<1>2. TypeOK /\ QueueInv /\ (Faults = {} => CalmInv) /\ [Next]_vars => (Faults = {} => CalmInv)'
  BY CalmStep
<1>3. Init => QueueInv
  BY DEF Init, QueueInv, TrackedIsRacing, WaitersBehindExecution, RacersStarted,
     Unused, Racing, Waiting, Fresh, Started, Active, Settled
<1> QED
  BY <1>1, <1>2, <1>3, QueueInvStep, TypeCorrect, PTL DEF Spec

(***************************************************************************)
(* The queue does its work when nothing fails: however many first          *)
(* deployments are asked for at once, one sandbox is created.              *)
(***************************************************************************)
THEOREM OneSandbox == Spec => []SingleInstance
<1>1. (Faults = {} => CalmInv) => SingleInstance
  BY DEF CalmInv, SingleInstance
<1> QED
  BY <1>1, AlwaysCalm, PTL

(***************************************************************************)
(* ... and what deployToSandbox was asked to write is, when it returns, in *)
(* the instance the agent will use from then on.                           *)
(***************************************************************************)
THEOREM FilesDelivered == Spec => []ReturnedFilesPresent
<1>1. (Faults = {} => CalmInv) => ReturnedFilesPresent
  BY DEF CalmInv, CalmCall, ReturnedFilesPresent
<1> QED
  BY <1>1, AlwaysCalm, PTL
=============================================================================
