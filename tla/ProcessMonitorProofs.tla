------------------------ MODULE ProcessMonitorProofs ------------------------
(***************************************************************************)
(* Proofs about ProcessMonitor for every set of fatal errors, every        *)
(* restart limit and every combination of faults, and that it implements   *)
(* the abstract Supervisor.                                                *)
(***************************************************************************)
EXTENDS ProcessMonitor, FiniteSetTheorems, TLAPS

-----------------------------------------------------------------------------
(* The operators the steps are built from. *)

\* Operation 0 exists, and the operations are natural numbers.
LEMMA OpFacts == 0 \in Op /\ Op \subseteq Nat /\ Restarts \subseteq Op /\ IsFiniteSet(Restarts)
<1>1. Cardinality(Fatal) \in Nat
  BY FatalAssumption, FS_CardinalityType
<1>2. IsFiniteSet(Op)
  BY <1>1, BoundsAssumption, FS_Interval DEF Op
<1>3. 0 \in Op /\ Op \subseteq Nat
  BY <1>1, BoundsAssumption DEF Op
<1> QED
  BY <1>2, <1>3, FS_Subset DEF Restarts

\* Replacing one element of a sequence keeps its type and length.
LEMMA SeqExcept ==
  ASSUME NEW S, NEW s \in Seq(S), NEW i \in 1 .. Len(s), NEW e \in S
  PROVE  [s EXCEPT ![i] = e] \in Seq(S) /\ Len([s EXCEPT ![i] = e]) = Len(s)
  OBVIOUS

\* The records operations are moved to are well formed.
LEMMA OpRecords ==
  /\ Idle \in OpRecord
  /\ \A pc \in {"idle", "stopping", "wait", "stopped", "delay"} :
        At(pc) \in OpRecord /\ At(pc).pc = pc
  BY DEF Idle, At, OpRecord

\* Scheduling restarts keeps the timers well formed and adds at most n of them,
\* none at all when the budget is used up.
LEMMA ScheduleRestartsAdds ==
  ASSUME TypeOK, NEW n \in Nat, ScheduleRestarts(n)
  PROVE  /\ restartTimer' \in BOOLEAN /\ orphans' \in Nat
         /\ \/ n > 0 /\ MayRestart /\ Pending' = Pending + n
            \/ (n = 0 \/ ~MayRestart) /\ Pending' = Pending
<1>1. restartTimer \in BOOLEAN /\ orphans \in Nat
  BY DEF TypeOK
<1>2. CASE n = 0 \/ ~MayRestart
  BY <1>1, <1>2 DEF ScheduleRestarts, Pending
<1>3. CASE ~(n = 0 \/ ~MayRestart)
  <2>1. restartTimer' = TRUE /\ orphans' = orphans + (n - 1) + (IF restartTimer THEN 1 ELSE 0)
    BY <1>3 DEF ScheduleRestarts
  <2> QED
    BY <1>1, <1>3, <2>1 DEF Pending
<1> QED
  BY <1>2, <1>3

\* What the return of a stop() changes is well formed.
LEMMA StopReturnedType ==
  ASSUME TypeOK, NEW o \in Op, StopReturned(o)
  PROVE  restartCount' \in Nat /\ op' \in [Op -> OpRecord] /\ ended' \in BOOLEAN
<1> USE OpRecords
<1>1. CASE o = 0
  BY <1>1 DEF StopReturned, TypeOK
<1>2. CASE o # 0
  BY <1>2 DEF StopReturned, TypeOK
<1> QED
  BY <1>1, <1>2

\* So is what a call of stop() changes.
LEMMA StopCalledType ==
  ASSUME TypeOK, NEW o \in Op, StopCalled(o)
  PROVE  /\ restartCount' \in Nat /\ op' \in [Op -> OpRecord] /\ ended' \in BOOLEAN
         /\ state' \in States
<1>1. CASE state = "stopped"
  BY <1>1, StopReturnedType DEF StopCalled, TypeOK
<1>2. CASE state # "stopped"
  BY <1>2, OpRecords DEF StopCalled, TypeOK, States
<1> QED
  BY <1>1, <1>2

\* Only fatal errors are found in stdout.
LEMMA StdoutFatal == ASSUME TypeOK PROVE FatalInStdout \in SUBSET Fatal
<1> SUFFICES ASSUME NEW t \in FatalInStdout PROVE t \in Fatal
  OBVIOUS
<1>1. PICK i \in Queued("stdout") : t = processingQueue[i].text
  BY DEF FatalInStdout
<1>2. processingQueue[i] \in Chunk
  BY <1>1 DEF Queued, TypeOK
<1>3. t # Other
  BY DEF FatalInStdout
<1> QED
  BY <1>1, <1>2, <1>3 DEF Chunk

-----------------------------------------------------------------------------
\* Type correctness is inductive.
LEMMA TypeOKStep == TypeOK /\ [Next]_vars => TypeOK'
<1> SUFFICES ASSUME TypeOK, [Next]_vars PROVE TypeOK'
  OBVIOUS
<1> USE OpFacts, OpRecords
<1>0. Current \in 1 .. Len(child) /\ child[Current] \in Child
  BY DEF TypeOK, Current
<1>1. ASSUME NEW o \in Op, RestartTimerFires(o) PROVE TypeOK'
  <2>1. restartTimer' \in BOOLEAN /\ orphans' \in Nat
    <3>1. restartTimer \in BOOLEAN /\ orphans \in Nat
      BY DEF TypeOK
    <3>2. \/ restartTimer' = FALSE /\ orphans' = orphans
          \/ orphans > 0 /\ orphans' = orphans - 1 /\ restartTimer' = restartTimer
      BY <1>1, Zenon DEF RestartTimerFires
    <3>3. restartTimer' \in BOOLEAN
      BY <3>1, <3>2, Zenon
    <3>4. orphans' \in Nat
      BY <3>1, <3>2
    <3> QED
      BY <3>3, <3>4
  <2>2. StopCalled(o) /\ UNCHANGED <<child, output, chunks>>
    BY <1>1 DEF RestartTimerFires
  <2> QED
    BY <2>1, <2>2, StopCalledType DEF TypeOK, output
<1>2. ASSUME NEW o \in Op, Terminate(o) PROVE TypeOK'
  <2>1. CASE child[Current].killed
    BY <1>2, <2>1 DEF TypeOK, Terminate, States, output
  <2>2. CASE ~child[Current].killed
    <3>1. [child[Current] EXCEPT !.killed = child[Current].life # "reaped"] \in Child
      BY <1>0 DEF Child
    <3>2. child' = [child EXCEPT ![Current] =
                      [child[Current] EXCEPT !.killed = child[Current].life # "reaped"]]
      BY <1>2, <2>2 DEF Terminate
    <3>3. child' \in Seq(Child) /\ Len(child') >= 1
      BY <1>0, <3>1, <3>2, SeqExcept DEF TypeOK
    <3>4. [pc |-> "wait", target |-> Current] \in OpRecord
      BY <1>0 DEF OpRecord, TypeOK
    <3> QED
      BY <1>2, <2>2, <3>3, <3>4 DEF TypeOK, Terminate, output
  <2> QED
    BY <2>1, <2>2
<1>3. ASSUME NEW o \in Op, KillTimeout(o) PROVE TypeOK'
  <2> DEFINE k == [life |-> "dead",
                   code |-> IF child[Current].life = "alive" THEN 1 ELSE child[Current].code,
                   killed |-> TRUE]
  <2>1. k \in Child
    BY <1>0 DEF Child
  <2>2. child' = child \/ child' = [child EXCEPT ![Current] = k]
    BY <1>3 DEF KillTimeout, ForceKill
  <2> HIDE DEF k
  <2>3. child' \in Seq(Child) /\ Len(child') >= 1
    BY <1>0, <2>1, <2>2, SeqExcept DEF TypeOK
  <2> QED
    BY <1>3, <2>3 DEF TypeOK, KillTimeout, ForceKill, States, output
<1>4. ASSUME NEW o \in Op, StopLogged(o) PROVE TypeOK'
  BY <1>4, StopReturnedType DEF TypeOK, StopLogged, output
<1>5. ASSUME NEW o \in Op, Start(o) PROVE TypeOK'
  <2>1. NewChild \in Child
    BY DEF NewChild, Child
  <2>2. child' \in Seq(Child) /\ Len(child') >= 1
    BY <1>5, <2>1 DEF Start, TypeOK
  <2> QED
    BY <1>5, <2>2 DEF TypeOK, Start, States, output
<1>6. ASSUME NEW o \in Op, SpawnFails(o) PROVE TypeOK'
  BY <1>6 DEF TypeOK, SpawnFails, States, output
<1>7. CASE GracefulShutdown
  BY <1>7, StopCalledType DEF TypeOK, GracefulShutdown, output
<1>8. ASSUME NEW c \in 1 .. Len(child), ChildExits(c) PROVE TypeOK'
  <2>1. PICK code \in {0, 1} :
           child' = [child EXCEPT ![c] = [child[c] EXCEPT !.life = "dead", !.code = code]]
    BY <1>8 DEF ChildExits
  <2>2. child[c] \in Child
    BY DEF TypeOK
  <2>3. [child[c] EXCEPT !.life = "dead", !.code = code] \in Child
    BY <2>2 DEF Child
  <2>5. child' \in Seq(Child) /\ Len(child') >= 1
    BY <2>1, <2>3, SeqExcept DEF TypeOK
  <2> QED
    BY <1>8, <2>5 DEF TypeOK, ChildExits, output
<1>9. ASSUME NEW c \in 1 .. Len(child), ExitEvent(c) PROVE TypeOK'
  <2>0. child[c] \in Child
    BY DEF TypeOK
  <2>1. [child[c] EXCEPT !.life = "reaped"] \in Child
    BY <2>0 DEF Child
  <2>2. child' = [child EXCEPT ![c] = [child[c] EXCEPT !.life = "reaped"]]
    BY <1>9 DEF ExitEvent
  <2>3. child' \in Seq(Child) /\ Len(child') >= 1
    BY <2>1, <2>2, SeqExcept DEF TypeOK
  <2>4. PICK n \in {0, 1} : ScheduleRestarts(n)
    BY <1>9 DEF ExitEvent
  <2>5. restartTimer' \in BOOLEAN /\ orphans' \in Nat
    BY <2>4, ScheduleRestartsAdds
  <2>6. state' \in States
    BY <1>9 DEF ExitEvent, States
  <2>7. op' \in [Op -> OpRecord]
    BY <1>9 DEF ExitEvent, TypeOK
  <2> QED
    BY <1>9, <2>3, <2>5, <2>6, <2>7 DEF TypeOK, ExitEvent, output
<1>10. CASE ChildError
  BY <1>10 DEF TypeOK, ChildError, States, output
<1>11. ASSUME NEW c \in Chunk, ProcessStreamData(c) PROVE TypeOK'
  <2> DEFINE q == IF Len(processingQueue) >= MAX_QUEUE_SIZE THEN Tail(processingQueue)
                  ELSE processingQueue
  <2>1. processingQueue \in Seq(Chunk) /\ Len(processingQueue) <= MAX_QUEUE_SIZE
    BY DEF TypeOK
  <2>2. q \in Seq(Chunk) /\ Len(q) < MAX_QUEUE_SIZE
    <3>1. CASE Len(processingQueue) >= MAX_QUEUE_SIZE
      BY <2>1, <3>1, BoundsAssumption
    <3>2. CASE ~(Len(processingQueue) >= MAX_QUEUE_SIZE)
      BY <2>1, <3>2, BoundsAssumption
    <3> QED
      BY <3>1, <3>2
  <2>3. processingQueue' = Append(q, c)
    BY <1>11 DEF ProcessStreamData
  <2> HIDE DEF q
  <2>4. processingQueue' \in Seq(Chunk) /\ Len(processingQueue') <= MAX_QUEUE_SIZE
    BY <2>2, <2>3, BoundsAssumption
  <2>5. chunks' \in 0 .. MaxChunks
    BY <1>11, BoundsAssumption DEF ProcessStreamData, TypeOK
  <2>6. isProcessing' \in BOOLEAN /\ immediate' \in BOOLEAN
    BY <1>11 DEF TypeOK, ProcessStreamData
  <2> QED
    BY <1>11, <2>4, <2>5, <2>6 DEF TypeOK, ProcessStreamData, control
<1>12. CASE ProcessQueuedData
  <2>1. FatalInStdout \subseteq Fatal
    BY StdoutFatal
  <2>2. IsFiniteSet(FatalInStdout \ stored) /\ Cardinality(FatalInStdout \ stored) \in Nat
    BY <2>1, FatalAssumption, FS_Subset, FS_CardinalityType
  <2>3. restartTimer' \in BOOLEAN /\ orphans' \in Nat
    BY <1>12, <2>2, ScheduleRestartsAdds DEF ProcessQueuedData, HandleFatalErrors
  <2>4. stored' \in SUBSET Fatal
    BY <1>12, <2>1 DEF ProcessQueuedData, HandleFatalErrors, TypeOK
  <2>5. errorBuffer' \in Fatal \cup {Other, None}
    <3>1. CASE errorBuffer # None \/ Queued("stderr") = {}
      BY <1>12, <3>1 DEF ProcessQueuedData, TypeOK
    <3>2. CASE ~(errorBuffer # None \/ Queued("stderr") = {})
      <4>1. PICK i \in Queued("stderr") : errorBuffer' = processingQueue[i].text
        BY <1>12, <3>2 DEF ProcessQueuedData
      <4>2. processingQueue[i] \in Chunk
        BY <4>1 DEF Queued, TypeOK
      <4> QED
        BY <4>1, <4>2 DEF Chunk
    <3> QED
      BY <3>1, <3>2
  <2>6. processingQueue' \in Seq(Chunk) /\ Len(processingQueue') <= MAX_QUEUE_SIZE
    BY <1>12, BoundsAssumption DEF ProcessQueuedData
  <2>7. /\ isProcessing' \in BOOLEAN /\ immediate' \in BOOLEAN
        /\ bufferTimeout' \in BOOLEAN
    BY <1>12 DEF ProcessQueuedData, TypeOK
  <2> QED
    BY <1>12, <2>3, <2>4, <2>5, <2>6, <2>7 DEF TypeOK, ProcessQueuedData
<1>13. CASE BufferTimeout
  <2> DEFINE F == {errorBuffer} \ {Other, None}
  <2>1. F \subseteq Fatal
    BY DEF TypeOK
  <2>2. Cardinality(F \ stored) \in Nat
    BY <2>1, FatalAssumption, FS_Subset, FS_CardinalityType
  <2>3. HandleFatalErrors(F)
    BY <1>13 DEF BufferTimeout
  <2> HIDE DEF F
  <2>4. restartTimer' \in BOOLEAN /\ orphans' \in Nat
    BY <2>2, <2>3, ScheduleRestartsAdds DEF HandleFatalErrors
  <2>5. stored' \in SUBSET Fatal
    BY <2>1, <2>3 DEF HandleFatalErrors, TypeOK
  <2> QED
    BY <1>13, <2>4, <2>5 DEF TypeOK, BufferTimeout
<1>14. CASE UNCHANGED vars
  BY <1>14 DEF TypeOK, vars, control, output
<1> QED
  BY <1>1, <1>2, <1>3, <1>4, <1>5, <1>6, <1>7, <1>8, <1>9, <1>10, <1>11, <1>12, <1>13, <1>14
     DEF Next, OpStep, ChildStep

\* The initial state is well formed.
LEMMA TypeOKInit == Init => TypeOK
<1> SUFFICES ASSUME Init PROVE TypeOK
  OBVIOUS
<1>1. NewChild \in Child
  BY DEF NewChild, Child
<1>2. child \in Seq(Child) /\ Len(child) >= 1
  BY <1>1 DEF Init
<1>3. op \in [Op -> OpRecord]
  BY OpRecords DEF Init
<1>4. processingQueue \in Seq(Chunk) /\ Len(processingQueue) <= MAX_QUEUE_SIZE
  BY BoundsAssumption DEF Init
<1>5. chunks \in 0 .. MaxChunks /\ restartCount \in Nat /\ orphans \in Nat
  BY BoundsAssumption DEF Init
<1> QED
  BY <1>2, <1>3, <1>4, <1>5 DEF Init, TypeOK, States

\* In every behaviour of the monitor its variables keep their types, the queue
\* of output its limit MAX_QUEUE_SIZE.
THEOREM TypeCorrect == Spec => []TypeOK
  BY TypeOKInit, TypeOKStep, PTL DEF Spec

-----------------------------------------------------------------------------
(* Counting operations, exits and errors. *)

\* The restarts of f that are at one of the awaits in P.
OpsAt(f, P) == {o \in Restarts : f[o].pc \in P}
StopAwaits == {"stopping", "wait", "stopped"}

\* The sets RestartAccounting counts are finite.
LEMMA Counts ==
  ASSUME TypeOK
  PROVE  /\ Stopping = OpsAt(op, StopAwaits) /\ Delaying = OpsAt(op, {"delay"})
         /\ Cardinality(Stopping) \in Nat /\ Cardinality(Delaying) \in Nat
         /\ IsFiniteSet(Reaped) /\ Cardinality(Reaped) \in Nat
         /\ IsFiniteSet(stored) /\ Cardinality(stored) \in Nat
         /\ Cardinality(stored) <= Cardinality(Fatal) /\ Cardinality(Fatal) \in Nat
         /\ Len(child) \in Nat
<1>1. Stopping = OpsAt(op, StopAwaits) /\ Delaying = OpsAt(op, {"delay"})
  BY DEF Stopping, Delaying, OpsAt, StopAwaits
<1>2. Stopping \subseteq Restarts /\ Delaying \subseteq Restarts
  BY DEF Stopping, Delaying
<1>3. Len(child) \in Nat
  BY DEF TypeOK
<1>4. IsFiniteSet(1 .. Len(child)) /\ Reaped \subseteq 1 .. Len(child)
  BY <1>3, FS_Interval DEF Reaped
<1>5. stored \subseteq Fatal
  BY DEF TypeOK
<1> HIDE DEF Stopping, Delaying, Reaped
<1>6. IsFiniteSet(Stopping) /\ IsFiniteSet(Delaying) /\ IsFiniteSet(Reaped)
  BY <1>2, <1>4, OpFacts, FS_Subset
<1> QED
  BY <1>1, <1>3, <1>5, <1>6, FatalAssumption, FS_Subset, FS_CardinalityType

\* Moving one restart changes the number of restarts at P by one or not at all.
LEMMA OpsAtMove ==
  ASSUME NEW f, NEW g, NEW o \in Restarts, NEW P,
         \A p \in Restarts : p # o => g[p] = f[p]
  PROVE  Cardinality(OpsAt(g, P)) =
              Cardinality(OpsAt(f, P)) + (IF g[o].pc \in P THEN 1 ELSE 0)
                                       - (IF f[o].pc \in P THEN 1 ELSE 0)
<1> DEFINE A == OpsAt(f, P)
           B == OpsAt(g, P)
<1>1. IsFiniteSet(A) /\ Cardinality(A) \in Nat
  <2>1. A \subseteq Restarts
    BY DEF OpsAt
  <2> QED
    BY <2>1, OpFacts, FS_Subset, FS_CardinalityType
<1>2. o \in A <=> f[o].pc \in P
  BY DEF OpsAt
<1>4. CASE g[o].pc \in P
  <2>1. B = A \cup {o}
    BY <1>4 DEF OpsAt
  <2> HIDE DEF A, B
  <2>2. Cardinality(B) = IF o \in A THEN Cardinality(A) ELSE Cardinality(A) + 1
    BY <1>1, <2>1, FS_AddElement
  <2>3. Cardinality(B) = Cardinality(A) + 1 - (IF f[o].pc \in P THEN 1 ELSE 0)
    BY <1>1, <1>2, <2>2
  <2> QED
    BY <1>1, <1>4, <2>3 DEF A, B
<1>5. CASE g[o].pc \notin P
  <2>1. B = A \ {o}
    BY <1>5 DEF OpsAt
  <2> HIDE DEF A, B
  <2>2. Cardinality(B) = IF o \in A THEN Cardinality(A) - 1 ELSE Cardinality(A)
    BY <1>1, <2>1, FS_RemoveElement
  <2>3. Cardinality(B) = Cardinality(A) - (IF f[o].pc \in P THEN 1 ELSE 0)
    BY <1>1, <1>2, <2>2
  <2> QED
    BY <1>1, <1>5, <2>3 DEF A, B
<1> QED
  BY <1>4, <1>5

\* The two counts of RestartAccounting when restart o moves from its await to pc.
LEMMA RestartMoves ==
  ASSUME TypeOK, TypeOK', NEW o \in Restarts, NEW r \in OpRecord,
         op' = [op EXCEPT ![o] = r]
  PROVE  /\ Cardinality(Stopping') = Cardinality(Stopping)
               + (IF r.pc \in StopAwaits THEN 1 ELSE 0)
               - (IF op[o].pc \in StopAwaits THEN 1 ELSE 0)
         /\ Cardinality(Delaying') = Cardinality(Delaying)
               + (IF r.pc \in {"delay"} THEN 1 ELSE 0)
               - (IF op[o].pc \in {"delay"} THEN 1 ELSE 0)
         /\ op'[0] = op[0]
<1>1. op \in [Op -> OpRecord]
  BY DEF TypeOK
<1>2. /\ Stopping = OpsAt(op, StopAwaits) /\ Delaying = OpsAt(op, {"delay"})
      /\ Stopping' = OpsAt(op', StopAwaits) /\ Delaying' = OpsAt(op', {"delay"})
  BY DEF Stopping, Delaying, OpsAt, StopAwaits
<1>3. op'[0] = op[0]
  BY <1>1, OpFacts DEF Restarts
<1>6. op'[o] = r /\ \A p \in Restarts : p # o => op'[p] = op[p]
  BY <1>1, OpFacts
<1>4. Cardinality(OpsAt(op', StopAwaits)) = Cardinality(OpsAt(op, StopAwaits))
               + (IF r.pc \in StopAwaits THEN 1 ELSE 0)
               - (IF op[o].pc \in StopAwaits THEN 1 ELSE 0)
  BY <1>6, OpsAtMove
<1>5. Cardinality(OpsAt(op', {"delay"})) = Cardinality(OpsAt(op, {"delay"}))
               + (IF r.pc \in {"delay"} THEN 1 ELSE 0)
               - (IF op[o].pc \in {"delay"} THEN 1 ELSE 0)
  BY <1>6, OpsAtMove, ZenonT(40)
<1>7. /\ Cardinality(Stopping') = Cardinality(OpsAt(op', StopAwaits))
      /\ Cardinality(Stopping) = Cardinality(OpsAt(op, StopAwaits))
  BY <1>2, Zenon
<1>8. /\ Cardinality(Delaying') = Cardinality(OpsAt(op', {"delay"}))
      /\ Cardinality(Delaying) = Cardinality(OpsAt(op, {"delay"}))
  BY <1>2, Zenon
<1> QED
  BY <1>3, <1>4, <1>5, <1>7, <1>8, Zenon

\* Steps of the shutdown move no restart.
LEMMA ShutdownMoves ==
  ASSUME TypeOK, NEW r, op' = [op EXCEPT ![0] = r]
  PROVE  Stopping' = Stopping /\ Delaying' = Delaying /\ op'[0] = r
<1>1. \A o \in Restarts : op'[o] = op[o]
  BY OpFacts DEF TypeOK, Restarts
<1>2. op'[0] = r
  BY OpFacts DEF TypeOK
<1> QED
  BY <1>1, <1>2 DEF Stopping, Delaying

\* A child that is replaced by a record with the same knowledge of its exit
\* leaves the set of reaped children alone.
LEMMA ReapedSame ==
  ASSUME TypeOK, NEW c \in 1 .. Len(child), NEW e \in Child,
         e.life = "reaped" <=> child[c].life = "reaped",
         child' = [child EXCEPT ![c] = e]
  PROVE  Reaped' = Reaped /\ Len(child') = Len(child)
<1>1. child \in Seq(Child)
  BY DEF TypeOK
<1>2. Len(child') = Len(child)
  BY <1>1, SeqExcept
<1>3. \A i \in 1 .. Len(child) : child'[i].life = "reaped" <=> child[i].life = "reaped"
  BY <1>1
<1> QED
  BY <1>2, <1>3 DEF Reaped

\* A natural number and a flag counted as zero or one add up to a natural number.
LEMMA PlusFlag == \A n \in Nat : \A b : n + (IF b THEN 1 ELSE 0) \in Nat
  OBVIOUS

\* Ordered adds up the restarts done, under way and pending.
LEMMA OrderedSum ==
  ASSUME TypeOK
  PROVE  /\ Pending \in Nat /\ restartCount \in Nat /\ Ordered \in Nat
         /\ Ordered = restartCount + Cardinality(Stopping) + Pending
<1>1. orphans \in Nat /\ restartCount \in Nat
  BY DEF TypeOK
<1>2. Cardinality(Stopping) \in Nat
  BY Counts
<1>3. Pending \in Nat
  BY <1>1, PlusFlag, Zenon DEF Pending
<1> QED
  BY <1>1, <1>2, <1>3 DEF Ordered

\* Reporting fatal errors orders at most one restart for each new one.
LEMMA FatalErrorsCounted ==
  ASSUME TypeOK, TypeOK', RestartAccounting, NEW F \in SUBSET Fatal, HandleFatalErrors(F),
         UNCHANGED <<child, restartCount, op>>
  PROVE  RestartAccounting'
<1> DEFINE n == Cardinality(F \ stored)
<1>1. IsFiniteSet(F \ stored) /\ n \in Nat
  BY FatalAssumption, FS_Subset, FS_CardinalityType
<1>2. Cardinality(stored') = Cardinality(stored) + n
  <2>1. stored' = stored \cup (F \ stored) /\ stored \cap (F \ stored) = {}
    BY DEF HandleFatalErrors
  <2>2. IsFiniteSet(stored)
    BY Counts
  <2>3. Cardinality(stored \cup (F \ stored))
           = Cardinality(stored) + Cardinality(F \ stored) - Cardinality(stored \cap (F \ stored))
    BY <1>1, <2>2, FS_Union
  <2>4. Cardinality(stored) \in Nat
    BY Counts
  <2> QED
    BY <1>1, <2>1, <2>3, <2>4, FS_EmptySet
<1>3. ScheduleRestarts(n)
  BY DEF HandleFatalErrors
<1> HIDE DEF n
<1>4. Pending' = Pending + n \/ Pending' = Pending
  BY <1>1, <1>3, ScheduleRestartsAdds
<1>5. Stopping' = Stopping /\ Delaying' = Delaying /\ Reaped' = Reaped
  BY DEF Stopping, Delaying, Reaped
<1>6. Ordered \in Nat /\ (Ordered' = Ordered + n \/ Ordered' = Ordered)
  <2>1. /\ Pending \in Nat /\ restartCount \in Nat /\ Cardinality(Stopping) \in Nat
        /\ Ordered = restartCount + Cardinality(Stopping) + Pending
    BY OrderedSum, Counts
  <2>2. Ordered' = restartCount + Cardinality(Stopping) + Pending'
    BY <1>5 DEF Ordered
  <2> QED
    BY <1>1, <1>4, <2>1, <2>2
<1>8. Ordered' <= Ordered + n /\ Ordered \in Nat /\ Ordered' \in Nat
  BY <1>1, <1>6
<1>9. /\ Ordered <= Cardinality(stored) + Cardinality(Reaped)
      /\ Ordered <= Cardinality(stored) + maxRestarts
      /\ Len(child) + Cardinality(Delaying) <= restartCount + 1
      /\ op[0].pc # "delay"
  BY DEF RestartAccounting
<1>10. /\ Ordered' <= Cardinality(stored') + Cardinality(Reaped)
       /\ Ordered' <= Cardinality(stored') + maxRestarts
  BY <1>1, <1>2, <1>8, <1>9, Counts, BoundsAssumption
<1> QED
  BY <1>5, <1>9, <1>10 DEF RestartAccounting

-----------------------------------------------------------------------------
\* The accounting survives a step that orders no restart, stores no error,
\* delivers no exit, and spawns or delays only what it counts.
LEMMA AccountingKept ==
  ASSUME TypeOK, RestartAccounting,
         NEW n \in Nat, restartCount' = n,
         NEW s \in Nat, Cardinality(Stopping') = s,
         NEW p \in Nat, Pending' = p,
         NEW d \in Nat, Cardinality(Delaying') = d,
         NEW l \in Nat, Len(child') = l,
         n + s + p <= restartCount + Cardinality(Stopping) + Pending,
         l + d - n <= Len(child) + Cardinality(Delaying) - restartCount,
         stored' = stored, Reaped' = Reaped, op'[0].pc # "delay"
  PROVE  RestartAccounting'
<1>1. Ordered' = n + s + p
  BY DEF Ordered
<1>2. /\ Cardinality(stored) \in Nat /\ Cardinality(Reaped) \in Nat
      /\ Cardinality(Stopping) \in Nat
      /\ Cardinality(Delaying) \in Nat /\ Len(child) \in Nat
  BY Counts
<1>3. /\ Pending \in Nat /\ restartCount \in Nat
      /\ Ordered = restartCount + Cardinality(Stopping) + Pending
  BY OrderedSum
<1>4. /\ Ordered <= Cardinality(stored) + Cardinality(Reaped)
      /\ Ordered <= Cardinality(stored) + maxRestarts
      /\ Len(child) + Cardinality(Delaying) <= restartCount + 1
  BY DEF RestartAccounting
<1>5. /\ n + s + p <= Cardinality(stored) + Cardinality(Reaped)
      /\ n + s + p <= Cardinality(stored) + maxRestarts
      /\ l + d <= n + 1
  <2>0. maxRestarts \in Nat
    BY BoundsAssumption
  <2>1. n + s + p <= Ordered
    BY <1>3
  <2>2. n + s + p <= Cardinality(stored) + Cardinality(Reaped)
    <3>1. \A a, b, c, e \in Nat : a <= b /\ b <= c + e => a <= c + e
      OBVIOUS
    <3>2. n + s + p \in Nat /\ Ordered \in Nat
      BY OrderedSum
    <3> QED
      BY <1>2, <1>4, <2>1, <3>1, <3>2, Zenon
  <2>3. n + s + p <= Cardinality(stored) + maxRestarts
    <3>1. Ordered <= Cardinality(stored) + maxRestarts
      BY <1>4
    <3>2. Ordered \in Nat /\ Cardinality(stored) \in Nat
      BY <1>2, <1>3
    <3> QED
      BY <2>0, <2>1, <3>1, <3>2
  <2>4. l + d <= n + 1
    <3>1. l + d - n <= Len(child) + Cardinality(Delaying) - restartCount
      OBVIOUS
    <3>2. Len(child) + Cardinality(Delaying) <= restartCount + 1
      BY <1>4
    <3>3. \A a, b, c, x, y, z \in Nat : a + b - c <= x + y - z /\ x + y <= z + 1 => a + b <= c + 1
      OBVIOUS
    <3> QED
      BY <1>2, <1>3, <3>1, <3>2, <3>3, Zenon
  <2> QED
    BY <2>2, <2>3, <2>4
<1> QED
  BY <1>1, <1>5 DEF RestartAccounting

\* Firing a restart timer takes it off the pending ones.
LEMMA TimerFired ==
  ASSUME TypeOK, TypeOK', NEW o \in Op, RestartTimerFires(o)
  PROVE  Pending' \in Nat /\ Pending = Pending' + 1
<1>1. orphans \in Nat /\ orphans' \in Nat
  BY DEF TypeOK
<1>2. \/ restartTimer /\ restartTimer' = FALSE /\ orphans' = orphans
      \/ orphans > 0 /\ orphans' = orphans - 1 /\ restartTimer' = restartTimer
  BY Zenon DEF RestartTimerFires
<1>3. CASE restartTimer /\ restartTimer' = FALSE /\ orphans' = orphans
  BY <1>1, <1>3 DEF Pending
<1>4. CASE orphans > 0 /\ orphans' = orphans - 1 /\ restartTimer' = restartTimer
  <2>1. Pending' = orphans' + (IF restartTimer THEN 1 ELSE 0)
    BY <1>4 DEF Pending
  <2>2. Pending = orphans + (IF restartTimer THEN 1 ELSE 0)
    BY DEF Pending
  <2>3. (IF restartTimer THEN 1 ELSE 0) \in Nat
    OBVIOUS
  <2> QED
    BY <1>1, <1>4, <2>1, <2>2, <2>3
<1> QED
  BY <1>2, <1>3, <1>4

\* Clearing this.restartTimer leaves only the orphans pending.
LEMMA TimerCleared ==
  ASSUME TypeOK, restartTimer' = FALSE, orphans' = orphans
  PROVE  Pending' \in Nat /\ Pending' <= Pending
<1>1. orphans \in Nat
  BY DEF TypeOK
<1>2. Pending' = orphans
  BY <1>1 DEF Pending
<1>3. (IF restartTimer THEN 1 ELSE 0) \in Nat
  OBVIOUS
<1> QED
  BY <1>1, <1>2, <1>3 DEF Pending

\* A step that leaves the timers alone leaves the pending ones alone.
LEMMA TimersKept ==
  ASSUME TypeOK, restartTimer' = restartTimer, orphans' = orphans
  PROVE  Pending' = Pending /\ Pending \in Nat
  BY OrderedSum, Zenon DEF Pending

\* A restart whose stop() returns is counted and waits for its delay.
LEMMA StopReturnedCounts ==
  ASSUME TypeOK, TypeOK', NEW o \in Restarts, StopReturned(o),
         op[o].pc \in {"idle"} \cup StopAwaits
  PROVE  /\ restartCount' = restartCount + 1
         /\ Cardinality(Stopping') = Cardinality(Stopping)
               - (IF op[o].pc \in StopAwaits THEN 1 ELSE 0)
         /\ Cardinality(Delaying') = Cardinality(Delaying) + 1
         /\ op'[0] = op[0] /\ ended' = ended
<1>1. o # 0
  BY DEF Restarts
<1>2. /\ restartCount' = restartCount + 1 /\ ended' = ended
      /\ op' = [op EXCEPT ![o] = At("delay")]
  BY <1>1 DEF StopReturned
<1>3. At("delay") \in OpRecord /\ At("delay").pc = "delay"
  BY OpRecords
<1>4. "delay" \notin StopAwaits /\ op[o].pc \notin {"delay"}
  BY DEF StopAwaits
<1>5. Cardinality(Stopping) \in Nat /\ Cardinality(Delaying) \in Nat
  BY Counts
<1>6. /\ Cardinality(Stopping') = Cardinality(Stopping)
               + (IF At("delay").pc \in StopAwaits THEN 1 ELSE 0)
               - (IF op[o].pc \in StopAwaits THEN 1 ELSE 0)
      /\ Cardinality(Delaying') = Cardinality(Delaying)
               + (IF At("delay").pc \in {"delay"} THEN 1 ELSE 0)
               - (IF op[o].pc \in {"delay"} THEN 1 ELSE 0)
      /\ op'[0] = op[0]
  BY <1>2, <1>3, RestartMoves
<1> QED
  BY <1>2, <1>3, <1>4, <1>5, <1>6

\* The children whose exit was noticed stay the same, and so does their number,
\* when a process is asked to terminate ...
LEMMA TerminateKeepsReaped ==
  ASSUME TypeOK, NEW o \in Op, Terminate(o)
  PROVE  Reaped' = Reaped /\ Len(child') = Len(child)
<1>1. Current \in 1 .. Len(child) /\ child[Current] \in Child
  BY DEF TypeOK, Current
<1>2. CASE child' = child
  BY <1>2 DEF Reaped
<1>3. CASE child' # child
  <2> DEFINE e == [child[Current] EXCEPT !.killed = child[Current].life # "reaped"]
  <2>1. child' = [child EXCEPT ![Current] = e]
    BY <1>3 DEF Terminate
  <2>2. e \in Child /\ e.life = child[Current].life
    BY <1>1 DEF Child
  <2> HIDE DEF e
  <2> QED
    BY <1>1, <2>1, <2>2, ReapedSame
<1> QED
  BY <1>2, <1>3

\* ... killed ...
LEMMA KillTimeoutKeepsReaped ==
  ASSUME TypeOK, NEW o \in Op, KillTimeout(o)
  PROVE  Reaped' = Reaped /\ Len(child') = Len(child)
<1> DEFINE e == [life |-> "dead",
                 code |-> IF child[Current].life = "alive" THEN 1 ELSE child[Current].code,
                 killed |-> TRUE]
<1>1. Current \in 1 .. Len(child) /\ child[Current] \in Child
  BY DEF TypeOK, Current
<1>2. \/ child' = child
      \/ child[Current].life # "reaped" /\ child' = [child EXCEPT ![Current] = e]
  BY DEF KillTimeout, ForceKill
<1>3. e \in Child /\ e.life = "dead"
  BY <1>1 DEF Child
<1> HIDE DEF e
<1>4. CASE child' = child
  BY <1>4 DEF Reaped
<1>5. CASE child[Current].life # "reaped" /\ child' = [child EXCEPT ![Current] = e]
  BY <1>1, <1>3, <1>5, ReapedSame
<1> QED
  BY <1>2, <1>4, <1>5

\* ... or exits without the monitor knowing yet.
LEMMA ChildExitsKeepsReaped ==
  ASSUME TypeOK, NEW c \in 1 .. Len(child), ChildExits(c)
  PROVE  Reaped' = Reaped /\ Len(child') = Len(child)
<1>1. PICK code \in {0, 1} :
         child' = [child EXCEPT ![c] = [child[c] EXCEPT !.life = "dead", !.code = code]]
  BY DEF ChildExits
<1> DEFINE e == [child[c] EXCEPT !.life = "dead", !.code = code]
<1>2. child[c] \in Child
  BY DEF TypeOK
<1>3. e \in Child /\ e.life = "dead" /\ child[c].life = "alive"
  BY <1>2 DEF Child, ChildExits
<1> HIDE DEF e
<1>4. child' = [child EXCEPT ![c] = e]
  BY <1>1 DEF e
<1> QED
  BY <1>3, <1>4, ReapedSame

\* A new process is one more, and not one whose exit was noticed.
LEMMA AppendKeepsReaped ==
  ASSUME TypeOK, child' = Append(child, NewChild)
  PROVE  Reaped' = Reaped /\ Len(child') = Len(child) + 1
<1>1. child \in Seq(Child) /\ Len(child) \in Nat
  BY DEF TypeOK
<1>2. Len(child') = Len(child) + 1
  BY <1>1
<1>3. child'[Len(child) + 1].life # "reaped"
  BY <1>1 DEF NewChild
<1>4. \A i \in 1 .. Len(child) : child'[i] = child[i]
  BY <1>1
<1>5. \A i : i \in 1 .. Len(child') <=> i \in 1 .. Len(child) \/ i = Len(child) + 1
  BY <1>1, <1>2
<1> QED
  BY <1>2, <1>3, <1>4, <1>5 DEF Reaped

\* The exit event is noticed once per child, so never more often than there are
\* children.
LEMMA ExitNoticed ==
  ASSUME TypeOK, NEW c \in 1 .. Len(child), ExitEvent(c)
  PROVE  /\ Len(child') = Len(child)
         /\ Cardinality(Reaped') = Cardinality(Reaped) + 1
         /\ Cardinality(Reaped) + 1 <= Len(child)
<1>1. /\ child[c].life = "dead"
      /\ child' = [child EXCEPT ![c] = [child[c] EXCEPT !.life = "reaped"]]
  BY DEF ExitEvent
<1>2. /\ Len(child') = Len(child) /\ Reaped' = Reaped \cup {c} /\ c \notin Reaped
  <2> DEFINE e == [child[c] EXCEPT !.life = "reaped"]
  <2>1. child \in Seq(Child) /\ child[c] \in Child
    BY DEF TypeOK
  <2>2. e \in Child /\ e.life = "reaped"
    BY <2>1 DEF Child
  <2> HIDE DEF e
  <2>3. child' = [child EXCEPT ![c] = e]
    BY <1>1 DEF e
  <2>4. Len(child') = Len(child)
    BY <2>1, <2>2, <2>3, SeqExcept
  <2>5. child'[c] = e /\ \A i \in 1 .. Len(child) : i # c => child'[i] = child[i]
    BY <2>1, <2>3
  <2> QED
    BY <1>1, <2>2, <2>4, <2>5 DEF Reaped
<1>3. IsFiniteSet(Reaped) /\ Len(child) \in Nat
  BY Counts
<1>4. Cardinality(Reaped \cup {c}) = Cardinality(Reaped) + 1
  BY <1>2, <1>3, FS_AddElement
<1>5. Reaped \cup {c} \subseteq 1 .. Len(child)
  BY DEF Reaped
<1>6. IsFiniteSet(1 .. Len(child)) /\ Cardinality(1 .. Len(child)) = Len(child)
  <2>1. 0 \in Int /\ 1 \in Int /\ Len(child) \in Int
    BY <1>3
  <2>2. /\ IsFiniteSet(1 .. Len(child))
        /\ Cardinality(1 .. Len(child)) = IF 1 > Len(child) THEN 0 ELSE Len(child) - 1 + 1
    BY <2>1, FS_Interval
  <2> QED
    BY <1>3, <2>2
<1>7. Cardinality(Reaped \cup {c}) <= Len(child)
  BY <1>5, <1>6, FS_Subset
<1> QED
  BY <1>2, <1>4, <1>7

-----------------------------------------------------------------------------
\* The accounting is inductive.  Only the exit handler needs the two bounds
\* together: an exit seen while restarts are left is one of at most
\* restartCount + 1 <= maxRestarts children, so it fits in maxRestarts too.
LEMMA AccountingStep == TypeOK /\ TypeOK' /\ RestartAccounting /\ [Next]_vars => RestartAccounting'
<1> SUFFICES ASSUME TypeOK, TypeOK', RestartAccounting, [Next]_vars PROVE RestartAccounting'
  OBVIOUS
<1>a. /\ Cardinality(Stopping) \in Nat /\ Cardinality(Delaying) \in Nat
      /\ Cardinality(stored) \in Nat /\ Cardinality(Reaped) \in Nat /\ IsFiniteSet(Reaped)
      /\ Len(child) \in Nat
  BY Counts
<1>b. /\ Pending \in Nat /\ restartCount \in Nat
      /\ Ordered = restartCount + Cardinality(Stopping) + Pending
  BY OrderedSum
<1>c. op[0].pc # "delay"
  BY DEF RestartAccounting
<1>d. /\ Current \in 1 .. Len(child) /\ child[Current] \in Child
      /\ \A c \in 1 .. Len(child) : child[c] \in Child
  BY DEF TypeOK, Current
<1>1. ASSUME NEW o \in Op, RestartTimerFires(o) PROVE RestartAccounting'
  <2>1. /\ o \in Restarts /\ op[o].pc = "idle" /\ StopCalled(o)
        /\ child' = child /\ stored' = stored
    BY <1>1 DEF RestartTimerFires, Idle, output
  <2>2. Pending' \in Nat /\ Pending = Pending' + 1
    BY <1>1, TimerFired
  <2>3. Reaped' = Reaped
    BY <2>1 DEF Reaped
  <2>4. CASE state = "stopped"
    <3>1. StopReturned(o)
      BY <2>1, <2>4 DEF StopCalled
    <3>2. /\ restartCount' = restartCount + 1
          /\ Cardinality(Stopping') = Cardinality(Stopping)
          /\ Cardinality(Delaying') = Cardinality(Delaying) + 1
          /\ op'[0] = op[0]
      BY <1>a, <2>1, <3>1, StopReturnedCounts DEF StopAwaits
    <3>3. /\ restartCount + 1 \in Nat /\ Cardinality(Delaying) + 1 \in Nat
          /\ (restartCount + 1) + Cardinality(Stopping) + Pending'
               <= restartCount + Cardinality(Stopping) + Pending
          /\ Len(child) + (Cardinality(Delaying) + 1) - (restartCount + 1)
               <= Len(child) + Cardinality(Delaying) - restartCount
      <4>1. restartCount + 1 \in Nat /\ Cardinality(Delaying) + 1 \in Nat
        BY <1>a, <1>b
      <4>2. (restartCount + 1) + Cardinality(Stopping) + Pending'
               <= restartCount + Cardinality(Stopping) + Pending
        BY <1>a, <1>b, <2>2
      <4>3. Len(child) + (Cardinality(Delaying) + 1) - (restartCount + 1)
               <= Len(child) + Cardinality(Delaying) - restartCount
        BY <1>a, <1>b
      <4> QED
        BY <4>1, <4>2, <4>3
    <3>4. op'[0].pc # "delay" /\ Len(child') = Len(child) /\ stored' = stored
      BY <1>c, <2>1, <3>2
    <3> QED
      BY <1>a, <2>2, <2>3, <3>2, <3>3, <3>4, AccountingKept
  <2>5. CASE state # "stopped"
    <3>1. op' = [op EXCEPT ![o] = At("stopping")] /\ restartCount' = restartCount
      BY <2>1, <2>5 DEF StopCalled
    <3>2. At("stopping") \in OpRecord /\ At("stopping").pc = "stopping"
      BY OpRecords
    <3>3. /\ "stopping" \in StopAwaits /\ "idle" \notin StopAwaits
          /\ "stopping" \notin {"delay"} /\ "idle" \notin {"delay"}
      BY DEF StopAwaits
    <3>4. /\ Cardinality(Stopping') = Cardinality(Stopping)
               + (IF At("stopping").pc \in StopAwaits THEN 1 ELSE 0)
               - (IF op[o].pc \in StopAwaits THEN 1 ELSE 0)
          /\ Cardinality(Delaying') = Cardinality(Delaying)
               + (IF At("stopping").pc \in {"delay"} THEN 1 ELSE 0)
               - (IF op[o].pc \in {"delay"} THEN 1 ELSE 0)
          /\ op'[0] = op[0]
      BY <2>1, <3>1, <3>2, RestartMoves
    <3>5. /\ Cardinality(Stopping') = Cardinality(Stopping) + 1
          /\ Cardinality(Delaying') = Cardinality(Delaying)
      BY <1>a, <2>1, <3>2, <3>3, <3>4
    <3>6. /\ Cardinality(Stopping) + 1 \in Nat
          /\ restartCount + (Cardinality(Stopping) + 1) + Pending'
               <= restartCount + Cardinality(Stopping) + Pending
          /\ Len(child) + Cardinality(Delaying) - restartCount
               <= Len(child) + Cardinality(Delaying) - restartCount
      BY <1>a, <1>b, <2>2
    <3>7. op'[0].pc # "delay" /\ Len(child') = Len(child) /\ stored' = stored
      BY <1>c, <2>1, <3>4
    <3> QED
      BY <1>a, <1>b, <2>2, <2>3, <3>1, <3>5, <3>6, <3>7, AccountingKept
  <2> QED
    BY <2>4, <2>5
<1>2. ASSUME NEW o \in Op, NEW r \in OpRecord, op' = [op EXCEPT ![o] = r],
             op[o].pc \in StopAwaits, r.pc \in StopAwaits,
             restartCount' = restartCount, stored' = stored, Reaped' = Reaped,
             Len(child') = Len(child), Pending' \in Nat, Pending' <= Pending
      PROVE  RestartAccounting'
  <2>1. /\ Cardinality(Stopping') = Cardinality(Stopping)
        /\ Cardinality(Delaying') = Cardinality(Delaying)
        /\ op'[0].pc # "delay"
    <3>1. CASE o = 0
      <4>1. Stopping' = Stopping /\ Delaying' = Delaying /\ op'[0] = r
        BY <1>2, <3>1, ShutdownMoves
      <4> QED
        BY <1>2, <4>1 DEF StopAwaits
    <3>2. CASE o # 0
      <4>1. o \in Restarts
        BY <3>2 DEF Restarts
      <4>2. r.pc \notin {"delay"} /\ op[o].pc \notin {"delay"}
        BY <1>2 DEF StopAwaits
      <4>3. /\ Cardinality(Stopping') = Cardinality(Stopping)
               + (IF r.pc \in StopAwaits THEN 1 ELSE 0)
               - (IF op[o].pc \in StopAwaits THEN 1 ELSE 0)
            /\ Cardinality(Delaying') = Cardinality(Delaying)
               + (IF r.pc \in {"delay"} THEN 1 ELSE 0)
               - (IF op[o].pc \in {"delay"} THEN 1 ELSE 0)
            /\ op'[0] = op[0]
        BY <1>2, <4>1, RestartMoves
      <4> QED
        BY <1>2, <1>a, <1>c, <4>2, <4>3
    <3> QED
      BY <3>1, <3>2
  <2> QED
    BY <1>2, <1>a, <1>b, <2>1, AccountingKept
<1>3. ASSUME NEW o \in Op, Terminate(o) PROVE RestartAccounting'
  <2>1. Pending' \in Nat /\ Pending' <= Pending
    BY <1>3, TimerCleared DEF Terminate
  <2>2. /\ op[o].pc \in StopAwaits /\ restartCount' = restartCount /\ stored' = stored
    BY <1>3 DEF Terminate, StopAwaits, output
  <2>3. Reaped' = Reaped /\ Len(child') = Len(child)
    BY <1>3, TerminateKeepsReaped
  <2>4. CASE child[Current].killed
    <3>1. op' = [op EXCEPT ![o] = At("stopped")]
      BY <1>3, <2>4 DEF Terminate
    <3>2. At("stopped") \in OpRecord /\ At("stopped").pc \in StopAwaits
      BY OpRecords DEF StopAwaits
    <3> QED
      BY <1>2, <2>1, <2>2, <2>3, <3>1, <3>2
  <2>5. CASE ~child[Current].killed
    <3> DEFINE r == [pc |-> "wait", target |-> Current]
    <3>1. op' = [op EXCEPT ![o] = r]
      BY <1>3, <2>5 DEF Terminate
    <3>2. r \in OpRecord /\ r.pc \in StopAwaits
      BY <1>d DEF OpRecord, StopAwaits, TypeOK
    <3> HIDE DEF r
    <3> QED
      BY <1>2, <2>1, <2>2, <2>3, <3>1, <3>2
  <2> QED
    BY <2>4, <2>5
<1>4. ASSUME NEW o \in Op, KillTimeout(o) PROVE RestartAccounting'
  <2>1. /\ op[o].pc \in StopAwaits /\ restartCount' = restartCount /\ stored' = stored
        /\ op' = [op EXCEPT ![o] = At("stopped")]
        /\ restartTimer' = restartTimer /\ orphans' = orphans
    BY <1>4 DEF KillTimeout, ForceKill, StopAwaits, output
  <2>2. Pending' \in Nat /\ Pending' <= Pending
    BY <1>b, <2>1, TimersKept
  <2>3. At("stopped") \in OpRecord /\ At("stopped").pc \in StopAwaits
    BY OpRecords DEF StopAwaits
  <2>4. Reaped' = Reaped /\ Len(child') = Len(child)
    BY <1>4, KillTimeoutKeepsReaped
  <2> QED
    BY <1>2, <2>1, <2>2, <2>3, <2>4
<1>5. ASSUME NEW o \in Op, StopLogged(o) PROVE RestartAccounting'
  <2>1. /\ op[o].pc = "stopped" /\ StopReturned(o) /\ child' = child /\ stored' = stored
        /\ restartTimer' = restartTimer /\ orphans' = orphans
    BY <1>5 DEF StopLogged, output
  <2>2. Pending' = Pending
    BY <2>1, TimersKept
  <2>3. Reaped' = Reaped
    BY <2>1 DEF Reaped
  <2>4. CASE o = 0
    <3>1. op' = [op EXCEPT ![0] = Idle] /\ restartCount' = restartCount
      BY <2>1, <2>4 DEF StopReturned
    <3>2. Stopping' = Stopping /\ Delaying' = Delaying /\ op'[0] = Idle
      BY <3>1, ShutdownMoves
    <3>3. op'[0].pc # "delay"
      BY <3>2 DEF Idle
    <3> QED
      BY <1>a, <1>b, <2>1, <2>2, <2>3, <3>1, <3>2, <3>3, AccountingKept
  <2>5. CASE o # 0
    <3>1. o \in Restarts
      BY <2>5 DEF Restarts
    <3>2. op[o].pc \in StopAwaits
      BY <2>1 DEF StopAwaits
    <3>3. /\ restartCount' = restartCount + 1
          /\ Cardinality(Stopping') = Cardinality(Stopping) - 1
          /\ Cardinality(Delaying') = Cardinality(Delaying) + 1
          /\ op'[0] = op[0]
      BY <2>1, <3>1, <3>2, StopReturnedCounts
    <3>4. Cardinality(Stopping) - 1 \in Nat
      <4>1. o \in Stopping
        BY <2>1, <3>1 DEF Stopping
      <4>2. Stopping \subseteq Restarts
        BY DEF Stopping
      <4>3. Cardinality(Stopping) # 0
        BY <4>1, <4>2, OpFacts, FS_Subset, FS_EmptySet
      <4> QED
        BY <1>a, <4>3
    <3>5. /\ restartCount + 1 \in Nat /\ Cardinality(Delaying) + 1 \in Nat
          /\ (restartCount + 1) + (Cardinality(Stopping) - 1) + Pending
               <= restartCount + Cardinality(Stopping) + Pending
      BY <1>a, <1>b
    <3>6. Len(child) + (Cardinality(Delaying) + 1) - (restartCount + 1)
            <= Len(child) + Cardinality(Delaying) - restartCount
      BY <1>a, <1>b
    <3>7. op'[0].pc # "delay"
      BY <1>c, <3>3
    <3> QED
      BY <1>a, <1>b, <2>1, <2>2, <2>3, <3>3, <3>4, <3>5, <3>6, <3>7, AccountingKept
  <2> QED
    BY <2>4, <2>5
<1>6. ASSUME NEW o \in Op, op[o].pc = "delay", op' = [op EXCEPT ![o] = Idle],
             restartCount' = restartCount, stored' = stored,
             restartTimer' = restartTimer, orphans' = orphans,
             Reaped' = Reaped, Len(child') \in Nat, Len(child') <= Len(child) + 1
      PROVE  RestartAccounting'
  <2>1. o \in Restarts
    BY <1>6, <1>c DEF Restarts
  <2>2. Idle \in OpRecord /\ Idle.pc \notin StopAwaits /\ Idle.pc \notin {"delay"}
    BY OpRecords DEF Idle, StopAwaits
  <2>3. op[o].pc \notin StopAwaits
    BY <1>6 DEF StopAwaits
  <2>4. /\ Cardinality(Stopping') = Cardinality(Stopping)
        /\ Cardinality(Delaying') = Cardinality(Delaying) - 1
        /\ op'[0] = op[0]
    <3>1. /\ Cardinality(Stopping') = Cardinality(Stopping)
               + (IF Idle.pc \in StopAwaits THEN 1 ELSE 0)
               - (IF op[o].pc \in StopAwaits THEN 1 ELSE 0)
          /\ Cardinality(Delaying') = Cardinality(Delaying)
               + (IF Idle.pc \in {"delay"} THEN 1 ELSE 0)
               - (IF op[o].pc \in {"delay"} THEN 1 ELSE 0)
          /\ op'[0] = op[0]
      BY <1>6, <2>1, <2>2, RestartMoves
    <3>2. op[o].pc \in {"delay"}
      BY <1>6
    <3> QED
      BY <1>a, <2>2, <2>3, <3>1, <3>2
  <2>5. Cardinality(Delaying) - 1 \in Nat
    <3>1. o \in Delaying /\ Delaying \subseteq Restarts
      BY <1>6, <2>1 DEF Delaying
    <3>2. Cardinality(Delaying) # 0
      BY <3>1, OpFacts, FS_Subset, FS_EmptySet
    <3> QED
      BY <1>a, <3>2
  <2>6. Pending' = Pending
    BY <1>6, TimersKept
  <2>7. /\ Len(child') + (Cardinality(Delaying) - 1) - restartCount
             <= Len(child) + Cardinality(Delaying) - restartCount
        /\ restartCount + Cardinality(Stopping) + Pending
             <= restartCount + Cardinality(Stopping) + Pending
    BY <1>6, <1>a, <1>b
  <2>8. op'[0].pc # "delay"
    BY <1>c, <2>4
  <2> QED
    BY <1>6, <1>a, <1>b, <2>4, <2>5, <2>6, <2>7, <2>8, AccountingKept
<1>7. ASSUME NEW o \in Op, Start(o) PROVE RestartAccounting'
  <2>1. /\ op[o].pc = "delay" /\ op' = [op EXCEPT ![o] = Idle]
        /\ restartCount' = restartCount /\ stored' = stored
        /\ restartTimer' = restartTimer /\ orphans' = orphans
    BY <1>7 DEF Start, output
  <2>2. child' = child \/ child' = Append(child, NewChild)
    BY <1>7 DEF Start
  <2>3. Reaped' = Reaped /\ Len(child') \in Nat /\ Len(child') <= Len(child) + 1
    <3>1. CASE child' = child
      BY <1>a, <3>1 DEF Reaped
    <3>2. CASE child' = Append(child, NewChild)
      BY <1>a, <3>2, AppendKeepsReaped
    <3> QED
      BY <2>2, <3>1, <3>2
  <2> QED
    BY <1>6, <2>1, <2>3
<1>8. ASSUME NEW o \in Op, SpawnFails(o) PROVE RestartAccounting'
  <2>1. /\ op[o].pc = "delay" /\ op' = [op EXCEPT ![o] = Idle]
        /\ restartCount' = restartCount /\ stored' = stored
        /\ restartTimer' = restartTimer /\ orphans' = orphans /\ child' = child
    BY <1>8 DEF SpawnFails, output
  <2>2. Reaped' = Reaped /\ Len(child') \in Nat /\ Len(child') <= Len(child) + 1
    BY <1>a, <2>1 DEF Reaped
  <2> QED
    BY <1>6, <2>1, <2>2
<1>9. CASE GracefulShutdown
  <2>1. /\ StopCalled(0) /\ child' = child /\ stored' = stored
        /\ restartTimer' = restartTimer /\ orphans' = orphans
    BY <1>9 DEF GracefulShutdown, output
  <2>2. Pending' = Pending
    BY <2>1, TimersKept
  <2>3. Reaped' = Reaped
    BY <2>1 DEF Reaped
  <2>4. PICK r : op' = [op EXCEPT ![0] = r] /\ r.pc # "delay" /\ restartCount' = restartCount
    <3>1. Idle.pc # "delay" /\ At("stopping").pc # "delay"
      BY DEF Idle, At
    <3>2. CASE state = "stopped"
      BY <2>1, <3>1, <3>2 DEF StopCalled, StopReturned
    <3>3. CASE state # "stopped"
      BY <2>1, <3>1, <3>3 DEF StopCalled
    <3> QED
      BY <3>2, <3>3
  <2>5. Stopping' = Stopping /\ Delaying' = Delaying /\ op'[0] = r
    BY <2>4, ShutdownMoves
  <2>6. op'[0].pc # "delay" /\ Len(child') = Len(child)
    BY <2>1, <2>4, <2>5
  <2>7. /\ Len(child) + Cardinality(Delaying) - restartCount
             <= Len(child) + Cardinality(Delaying) - restartCount
        /\ restartCount + Cardinality(Stopping) + Pending
             <= restartCount + Cardinality(Stopping) + Pending
    BY <1>a, <1>b
  <2> QED
    BY <1>a, <1>b, <2>1, <2>2, <2>3, <2>4, <2>5, <2>6, <2>7, AccountingKept
<1>10. ASSUME UNCHANGED <<restartCount, restartTimer, orphans, op, stored>>,
              Reaped' = Reaped, Len(child') = Len(child)
       PROVE  RestartAccounting'
  <2>1. Stopping' = Stopping /\ Delaying' = Delaying
    BY <1>10 DEF Stopping, Delaying
  <2>2. Pending' = Pending
    BY <1>10, TimersKept
  <2>3. op'[0].pc # "delay" /\ restartCount' = restartCount /\ stored' = stored
    BY <1>10, <1>c
  <2> QED
    BY <1>10, <1>a, <1>b, <2>1, <2>2, <2>3, AccountingKept
<1>11. ASSUME NEW c \in 1 .. Len(child), ChildExits(c) PROVE RestartAccounting'
  <2>1. Reaped' = Reaped /\ Len(child') = Len(child)
    BY <1>11, ChildExitsKeepsReaped
  <2> QED
    BY <1>10, <1>11, <2>1 DEF ChildExits, output
<1>12. ASSUME NEW c \in 1 .. Len(child), ExitEvent(c) PROVE RestartAccounting'
  <2>1. /\ child[c].life = "dead" /\ restartCount' = restartCount /\ stored' = stored
        /\ child' = [child EXCEPT ![c] = [child[c] EXCEPT !.life = "reaped"]]
        /\ op' = [o \in Op |-> IF o \in WaitingFor(c) THEN At("stopped") ELSE op[o]]
    BY <1>12 DEF ExitEvent, output
  <2>2. PICK n \in {0, 1} : ScheduleRestarts(n)
    BY <1>12 DEF ExitEvent
  <2>3. /\ \/ n > 0 /\ MayRestart /\ Pending' = Pending + n
           \/ (n = 0 \/ ~MayRestart) /\ Pending' = Pending
    BY <2>2, ScheduleRestartsAdds
  <2>4. Stopping' = Stopping /\ Delaying' = Delaying /\ op'[0].pc # "delay"
    <3>1. At("stopped").pc = "stopped"
      BY OpRecords
    <3>2. \A o \in Op : op'[o] = op[o] \/ (op[o].pc = "wait" /\ op'[o] = At("stopped"))
      BY <2>1 DEF WaitingFor
    <3> QED
      BY <3>1, <3>2, <1>c, OpFacts DEF Stopping, Delaying
  <2>5. Len(child') = Len(child)
    BY <1>12, ExitNoticed
  <2>6. Cardinality(Reaped') = Cardinality(Reaped) + 1 /\ Cardinality(Reaped) + 1 <= Len(child)
    BY <1>12, ExitNoticed
  <2>7. /\ Ordered <= Cardinality(stored) + Cardinality(Reaped)
        /\ Ordered <= Cardinality(stored) + maxRestarts
        /\ Len(child) + Cardinality(Delaying) <= restartCount + 1
    BY DEF RestartAccounting
  <2>8. Ordered' = restartCount + Cardinality(Stopping) + Pending'
    BY <2>1, <2>4 DEF Ordered
  <2>9. maxRestarts \in Nat
    BY BoundsAssumption
  <2>10. /\ Ordered' <= Cardinality(stored) + Cardinality(Reaped')
         /\ Ordered' <= Cardinality(stored) + maxRestarts
    <3>1. CASE Pending' = Pending
      <4>1. Ordered' = Ordered
        BY <1>b, <2>8, <3>1
      <4> QED
        BY <1>a, <1>b, <2>6, <2>7, <2>9, <4>1
    <3>2. CASE MayRestart /\ Pending' = Pending + 1
      <4>1. Ordered' = Ordered + 1
        BY <1>a, <1>b, <2>8, <3>2
      <4>2. restartCount < maxRestarts
        BY <3>2 DEF MayRestart
      <4>3. Cardinality(Reaped) + 1 <= maxRestarts
        BY <1>a, <1>b, <2>6, <2>7, <2>9, <4>2
      <4>4. Ordered \in Nat
        BY OrderedSum
      <4> QED
        BY <1>a, <2>6, <2>7, <2>9, <4>1, <4>3, <4>4
    <3> QED
      BY <2>3, <3>1, <3>2
  <2> QED
    BY <2>1, <2>4, <2>5, <2>7, <2>10 DEF RestartAccounting
<1>13. CASE ChildError
  BY <1>10, <1>13 DEF ChildError, Reaped, output
<1>14. ASSUME NEW c \in Chunk, ProcessStreamData(c) PROVE RestartAccounting'
  BY <1>10, <1>14 DEF ProcessStreamData, Reaped, control
<1>15. CASE ProcessQueuedData
  <2>1. HandleFatalErrors(FatalInStdout) /\ UNCHANGED <<child, restartCount, op>>
    BY <1>15 DEF ProcessQueuedData
  <2> QED
    BY <2>1, StdoutFatal, FatalErrorsCounted
<1>16. CASE BufferTimeout
  <2>1. HandleFatalErrors({errorBuffer} \ {Other, None}) /\ UNCHANGED <<child, restartCount, op>>
    BY <1>16 DEF BufferTimeout
  <2>2. {errorBuffer} \ {Other, None} \in SUBSET Fatal
    BY DEF TypeOK
  <2> QED
    BY <2>1, <2>2, FatalErrorsCounted
<1>17. CASE UNCHANGED vars
  BY <1>10, <1>17 DEF vars, control, output, Reaped
<1> QED
  BY <1>1, <1>3, <1>4, <1>5, <1>7, <1>8, <1>9, <1>11, <1>12, <1>13, <1>14, <1>15, <1>16, <1>17
     DEF Next, OpStep, ChildStep

\* Initially nothing is ordered.
LEMMA AccountingInit == Init => RestartAccounting
<1> SUFFICES ASSUME Init PROVE RestartAccounting
  OBVIOUS
<1>1. \A o \in Op : op[o].pc = "idle"
  BY DEF Init, Idle
<1>2. Stopping = {} /\ Delaying = {} /\ op[0].pc # "delay"
  BY <1>1, OpFacts DEF Stopping, Delaying
<1>3. Len(child) = 1 /\ Reaped = {}
  BY DEF Init, Reaped, NewChild
<1>4. stored = {} /\ restartCount = 0 /\ Pending = 0
  BY DEF Init, Pending
<1>5. Cardinality({}) = 0
  BY FS_EmptySet
<1>6. maxRestarts \in Nat
  BY BoundsAssumption
<1>7. Ordered = 0
  BY <1>2, <1>4, <1>5 DEF Ordered
<1> QED
  BY <1>2, <1>3, <1>4, <1>5, <1>6, <1>7 DEF RestartAccounting

\* Every restart done, under way or pending is accounted for in every behaviour.
THEOREM RestartsAlwaysAccounted == Spec => []RestartAccounting
<1>1. Init => TypeOK /\ RestartAccounting
  BY TypeOKInit, AccountingInit
<1>2. TypeOK /\ RestartAccounting /\ [Next]_vars => (TypeOK /\ RestartAccounting)'
  BY TypeOKStep, AccountingStep
<1> QED
  BY <1>1, <1>2, PTL DEF Spec

\* The accounting bounds the restarts and the spawns.
LEMMA AccountingBounds == TypeOK /\ RestartAccounting => RestartBudget /\ SpawnsCounted
<1> SUFFICES ASSUME TypeOK, RestartAccounting PROVE RestartBudget /\ SpawnsCounted
  OBVIOUS
<1>1. /\ Ordered <= Cardinality(stored) + maxRestarts
      /\ Len(child) + Cardinality(Delaying) <= restartCount + 1
  BY DEF RestartAccounting
<1>2. /\ Cardinality(Stopping) \in Nat /\ Cardinality(Delaying) \in Nat
      /\ Cardinality(stored) \in Nat /\ Cardinality(stored) <= Cardinality(Fatal)
      /\ Cardinality(Fatal) \in Nat /\ Len(child) \in Nat
  BY Counts
<1>3. /\ Pending \in Nat /\ restartCount \in Nat
      /\ Ordered = restartCount + Cardinality(Stopping) + Pending
  BY OrderedSum
<1>4. maxRestarts \in Nat
  BY BoundsAssumption
<1> QED
  BY <1>1, <1>2, <1>3, <1>4 DEF RestartBudget, SpawnsCounted

\* However fatal errors, crashes and overlapping restarts interleave, the limit
\* maxRestarts is exceeded by at most one restart per distinct fatal error.
THEOREM RestartsBudgeted == Spec => []RestartBudget
<1>1. TypeOK /\ RestartAccounting => RestartBudget
  BY AccountingBounds
<1> QED
  BY <1>1, TypeCorrect, RestartsAlwaysAccounted, PTL

\* No process is ever spawned without a restart that was counted for it.
THEOREM SpawnsAlwaysCounted == Spec => []SpawnsCounted
<1>1. TypeOK /\ RestartAccounting => SpawnsCounted
  BY AccountingBounds
<1> QED
  BY <1>1, TypeCorrect, RestartsAlwaysAccounted, PTL

-----------------------------------------------------------------------------
(***************************************************************************)
(* Crashes alone.  While no fatal error has been reported, a restart is    *)
(* ordered only by the exit of the last child, so that every child before  *)
(* it has exited; and the one that is ordered ends before the next child,  *)
(* whose exit would order another, is started.                             *)
(***************************************************************************)
OneAtATime ==
    /\ \A c \in 1 .. Len(child) : c # Len(child) => c \in Reaped
    /\ \A o, p \in RestartsInProgress : o = p
    /\ Pending <= 1 /\ (Pending = 1 => RestartsInProgress = {})
    /\ Pending = 1 \/ RestartsInProgress # {} => Len(child) \in Reaped

\* A step that orders no restart, begins none and forgets no exit.
LEMMA OneAtATimeFrame ==
  ASSUME OneAtATime, TypeOK, Len(child') = Len(child), Reaped \subseteq Reaped',
         RestartsInProgress' \subseteq RestartsInProgress,
         Pending' \in Nat, Pending' <= Pending
  PROVE  OneAtATime'
<1>1. Pending \in Nat
  BY OrderedSum
<1>2. Pending' = 1 => Pending = 1
  BY <1>1 DEF OneAtATime
<1>3. Pending' <= 1
  BY <1>1 DEF OneAtATime
<1>4. /\ \A c \in 1 .. Len(child') : c # Len(child') => c \in Reaped'
      /\ \A o, p \in RestartsInProgress' : o = p
  BY DEF OneAtATime
<1>5. Pending' = 1 => RestartsInProgress' = {}
  BY <1>2 DEF OneAtATime
<1>6. Pending' = 1 \/ RestartsInProgress' # {} => Len(child') \in Reaped'
  BY <1>2 DEF OneAtATime
<1> QED
  BY <1>3, <1>4, <1>5, <1>6 DEF OneAtATime

\* An operation that is under way, or is the shutdown, begins no restart.
LEMMA RestartsInProgressMove ==
  ASSUME TypeOK, NEW o \in Op, NEW r, op' = [op EXCEPT ![o] = r],
         o = 0 \/ op[o] # Idle
  PROVE  RestartsInProgress' \subseteq RestartsInProgress
<1>1. op \in [Op -> OpRecord]
  BY DEF TypeOK
<1>2. \A p \in Op : p # o => op'[p] = op[p]
  BY <1>1
<1>3. Restarts \subseteq Op /\ 0 \notin Restarts
  BY DEF Restarts
<1> QED
  BY <1>2, <1>3 DEF RestartsInProgress

\* Reports without a new fatal error order no restart.
LEMMA NothingFatal ==
  ASSUME TypeOK, NEW F, HandleFatalErrors(F), stored' = {}
  PROVE  stored = {} /\ Pending' = Pending /\ Pending \in Nat
<1>1. stored = {} /\ F = {}
  BY DEF HandleFatalErrors
<1>2. Cardinality(F \ stored) = 0
  BY <1>1, FS_EmptySet
<1>3. restartTimer' = restartTimer /\ orphans' = orphans
  BY <1>2 DEF HandleFatalErrors, ScheduleRestarts
<1> QED
  BY <1>1, <1>3, TimersKept

\* Every step keeps restarts one at a time, until a fatal error is reported.
LEMMA OneAtATimeStep ==
  ASSUME TypeOK, TypeOK', RestartAccounting, stored = {} => OneAtATime, [Next]_vars,
         stored' = {}
  PROVE  OneAtATime'
<1>a. Len(child) \in Nat /\ Len(child) >= 1 /\ op \in [Op -> OpRecord]
  BY Counts DEF TypeOK
<1>b. Pending \in Nat
  BY OrderedSum
<1>c. op[0].pc # "delay"
  BY DEF RestartAccounting
<1>d. ASSUME stored = {} PROVE OneAtATime
  BY <1>d
<1>1. ASSUME NEW o \in Op, RestartTimerFires(o) PROVE OneAtATime'
  <2>1. /\ o \in Restarts /\ StopCalled(o) /\ child' = child /\ stored' = stored
    BY <1>1 DEF RestartTimerFires, output
  <2>2. Pending' \in Nat /\ Pending = Pending' + 1
    BY <1>1, TimerFired
  <2>3. OneAtATime
    BY <1>d, <2>1
  <2>4. Pending = 1 /\ Pending' = 0 /\ RestartsInProgress = {}
    <3>1. Pending <= 1 /\ (Pending = 1 => RestartsInProgress = {})
      BY <2>3 DEF OneAtATime
    <3>2. \A m, n \in Nat : n = m + 1 /\ n <= 1 => n = 1 /\ m = 0
      OBVIOUS
    <3>3. Pending = 1 /\ Pending' = 0
      BY <1>b, <2>2, <3>1, <3>2, Zenon
    <3> QED
      BY <3>1, <3>3
  <2>5. Reaped' = Reaped
    BY <2>1 DEF Reaped
  <2>6. \E r : op' = [op EXCEPT ![o] = r]
    BY <2>1 DEF StopCalled, StopReturned
  <2>7. \A p \in Restarts : p # o => op'[p] = op[p]
    BY <1>a, <2>6 DEF Restarts
  <2>8. RestartsInProgress' \subseteq {o}
    BY <2>4, <2>7 DEF RestartsInProgress
  <2> QED
    BY <2>1, <2>3, <2>4, <2>5, <2>8 DEF OneAtATime
<1>2. ASSUME NEW o \in Op, NEW r, op' = [op EXCEPT ![o] = r], o = 0 \/ op[o].pc # "idle",
             stored' = stored, Reaped' = Reaped, Len(child') = Len(child),
             Pending' \in Nat, Pending' <= Pending
      PROVE  OneAtATime'
  <2>1. o = 0 \/ op[o] # Idle
    BY <1>2 DEF Idle
  <2>2. RestartsInProgress' \subseteq RestartsInProgress
    BY <1>2, <2>1, RestartsInProgressMove
  <2> QED
    BY <1>2, <1>d, <2>2, OneAtATimeFrame
<1>3. ASSUME NEW o \in Op, Terminate(o) PROVE OneAtATime'
  <2>1. Pending' \in Nat /\ Pending' <= Pending
    BY <1>3, TimerCleared DEF Terminate
  <2>2. op[o].pc = "stopping" /\ stored' = stored /\ \E r : op' = [op EXCEPT ![o] = r]
    BY <1>3 DEF Terminate, output
  <2>3. Reaped' = Reaped /\ Len(child') = Len(child)
    BY <1>3, TerminateKeepsReaped
  <2> QED
    BY <1>2, <2>1, <2>2, <2>3
<1>4. ASSUME NEW o \in Op, KillTimeout(o) PROVE OneAtATime'
  <2>1. /\ op[o].pc = "wait" /\ stored' = stored /\ op' = [op EXCEPT ![o] = At("stopped")]
        /\ restartTimer' = restartTimer /\ orphans' = orphans
    BY <1>4 DEF KillTimeout, ForceKill, output
  <2>2. Pending' \in Nat /\ Pending' <= Pending
    BY <1>b, <2>1, TimersKept
  <2>3. Reaped' = Reaped /\ Len(child') = Len(child)
    BY <1>4, KillTimeoutKeepsReaped
  <2> QED
    BY <1>2, <2>1, <2>2, <2>3
<1>5. ASSUME NEW o \in Op, StopLogged(o) PROVE OneAtATime'
  <2>1. /\ op[o].pc = "stopped" /\ StopReturned(o) /\ child' = child /\ stored' = stored
        /\ restartTimer' = restartTimer /\ orphans' = orphans
    BY <1>5 DEF StopLogged, output
  <2>2. Pending' \in Nat /\ Pending' <= Pending
    BY <1>b, <2>1, TimersKept
  <2>3. Reaped' = Reaped
    BY <2>1 DEF Reaped
  <2>4. \E r : op' = [op EXCEPT ![o] = r]
    BY <2>1 DEF StopReturned
  <2> QED
    BY <1>2, <2>1, <2>2, <2>3, <2>4
<1>6. ASSUME NEW o \in Op, Start(o) PROVE OneAtATime'
  <2>1. /\ op[o].pc = "delay" /\ op' = [op EXCEPT ![o] = Idle] /\ stored' = stored
        /\ restartTimer' = restartTimer /\ orphans' = orphans
        /\ (child' = child \/ child' = Append(child, NewChild))
    BY <1>6 DEF Start, output
  <2>2. Pending' = Pending
    BY <2>1, TimersKept
  <2>3. CASE child' = child
    <3>1. Reaped' = Reaped
      BY <2>3 DEF Reaped
    <3>2. Pending' \in Nat /\ Pending' <= Pending /\ Len(child') = Len(child) /\ op[o].pc # "idle"
      BY <1>b, <2>1, <2>2, <2>3
    <3> QED
      BY <1>2, <2>1, <3>1, <3>2
  <2>4. CASE child' = Append(child, NewChild)
    <3>1. OneAtATime /\ Reaped' = Reaped /\ Len(child') = Len(child) + 1
      BY <1>d, <2>1, <2>4, AppendKeepsReaped
    <3>2. o \in RestartsInProgress
      BY <1>c, <2>1 DEF RestartsInProgress, Restarts, Idle
    <3>3. RestartsInProgress = {o} /\ Pending # 1 /\ Pending <= 1 /\ Len(child) \in Reaped
      BY <3>1, <3>2 DEF OneAtATime
    <3>4. op'[o] = Idle /\ \A p \in Restarts : p # o => op'[p] = op[p]
      BY <1>a, <2>1 DEF Restarts
    <3>5. RestartsInProgress' = {}
      BY <3>3, <3>4 DEF RestartsInProgress
    <3>6. \A c \in 1 .. Len(child') : c # Len(child') => c \in Reaped'
      <4> SUFFICES ASSUME NEW c \in 1 .. Len(child'), c # Len(child') PROVE c \in Reaped'
        OBVIOUS
      <4>1. c \in 1 .. Len(child)
        BY <1>a, <3>1
      <4> QED
        BY <3>1, <3>3, <4>1 DEF OneAtATime
    <3> QED
      BY <2>2, <3>3, <3>5, <3>6 DEF OneAtATime
  <2> QED
    BY <2>1, <2>3, <2>4
<1>7. ASSUME NEW o \in Op, SpawnFails(o) PROVE OneAtATime'
  <2>1. /\ op[o].pc = "delay" /\ op' = [op EXCEPT ![o] = Idle] /\ stored' = stored
        /\ restartTimer' = restartTimer /\ orphans' = orphans /\ child' = child
    BY <1>7 DEF SpawnFails, output
  <2>2. Pending' \in Nat /\ Pending' <= Pending
    BY <1>b, <2>1, TimersKept
  <2>3. Reaped' = Reaped
    BY <2>1 DEF Reaped
  <2> QED
    BY <1>2, <2>1, <2>2, <2>3
<1>8. CASE GracefulShutdown
  <2>1. /\ StopCalled(0) /\ child' = child /\ stored' = stored
        /\ restartTimer' = restartTimer /\ orphans' = orphans
    BY <1>8 DEF GracefulShutdown, output
  <2>2. Pending' \in Nat /\ Pending' <= Pending
    BY <1>b, <2>1, TimersKept
  <2>3. Reaped' = Reaped
    BY <2>1 DEF Reaped
  <2>4. \E r : op' = [op EXCEPT ![0] = r]
    BY <2>1 DEF StopCalled, StopReturned
  <2> QED
    BY <1>2, <2>1, <2>2, <2>3, <2>4, OpFacts
<1>9. ASSUME op' = op, Pending' = Pending, Reaped' = Reaped, Len(child') = Len(child), stored = {}
      PROVE  OneAtATime'
  <2>1. RestartsInProgress' = RestartsInProgress
    BY <1>9 DEF RestartsInProgress
  <2> QED
    BY <1>9, <1>b, <1>d, <2>1, OneAtATimeFrame
<1>10. ASSUME NEW c \in 1 .. Len(child), ChildExits(c) PROVE OneAtATime'
  <2>1. Reaped' = Reaped /\ Len(child') = Len(child)
    BY <1>10, ChildExitsKeepsReaped
  <2>2. op' = op /\ restartTimer' = restartTimer /\ orphans' = orphans /\ stored' = stored
    BY <1>10 DEF ChildExits, output
  <2>3. Pending' = Pending
    BY <2>2, TimersKept
  <2> QED
    BY <1>9, <2>1, <2>2, <2>3
<1>11. ASSUME NEW c \in 1 .. Len(child), ExitEvent(c) PROVE OneAtATime'
  <2>1. /\ child[c].life = "dead" /\ stored' = stored
        /\ child' = [child EXCEPT ![c] = [child[c] EXCEPT !.life = "reaped"]]
        /\ op' = [o \in Op |-> IF o \in WaitingFor(c) THEN At("stopped") ELSE op[o]]
    BY <1>11 DEF ExitEvent, output
  <2>2. PICK n \in {0, 1} : ScheduleRestarts(n)
    BY <1>11 DEF ExitEvent
  <2>3. Pending' = Pending + 1 \/ Pending' = Pending
    BY <2>2, ScheduleRestartsAdds
  <2>4. OneAtATime
    BY <1>d, <2>1
  <2>5. c \notin Reaped
    BY <2>1 DEF Reaped
  <2>6. c = Len(child) /\ Pending = 0 /\ RestartsInProgress = {}
    BY <1>a, <1>b, <2>4, <2>5 DEF OneAtATime
  <2>7. RestartsInProgress' = {}
    <3>1. \A o \in WaitingFor(c) : op[o] # Idle
      BY DEF WaitingFor, Idle
    <3>2. \A o \in Restarts : op[o] = Idle
      BY <2>6 DEF RestartsInProgress
    <3>3. \A o \in Restarts : op'[o] = op[o]
      BY <2>1, <3>1, <3>2 DEF Restarts
    <3> QED
      BY <3>2, <3>3 DEF RestartsInProgress
  <2>8. Len(child') = Len(child) /\ Reaped \cup {c} \subseteq Reaped'
    <3> DEFINE e == [child[c] EXCEPT !.life = "reaped"]
    <3>1. child \in Seq(Child) /\ child[c] \in Child
      BY DEF TypeOK
    <3>2. e \in Child /\ e.life = "reaped"
      BY <3>1 DEF Child
    <3> HIDE DEF e
    <3>3. child' = [child EXCEPT ![c] = e]
      BY <2>1 DEF e
    <3>4. Len(child') = Len(child)
      BY <3>1, <3>2, <3>3, SeqExcept
    <3>5. child'[c] = e /\ \A i \in 1 .. Len(child) : i # c => child'[i] = child[i]
      BY <3>1, <3>3
    <3> QED
      BY <3>2, <3>4, <3>5 DEF Reaped
  <2>9. Pending' <= 1
    BY <2>3, <2>6
  <2> QED
    BY <2>4, <2>6, <2>7, <2>8, <2>9 DEF OneAtATime
<1>12. CASE ChildError
  <2>1. op' = op /\ restartTimer' = restartTimer /\ orphans' = orphans /\ stored' = stored /\ child' = child
    BY <1>12 DEF ChildError, output
  <2>2. Pending' = Pending /\ Reaped' = Reaped
    BY <2>1, TimersKept DEF Reaped
  <2> QED
    BY <1>9, <2>1, <2>2
<1>13. ASSUME NEW c \in Chunk, ProcessStreamData(c) PROVE OneAtATime'
  <2>1. op' = op /\ restartTimer' = restartTimer /\ orphans' = orphans /\ stored' = stored /\ child' = child
    BY <1>13 DEF ProcessStreamData, control
  <2>2. Pending' = Pending /\ Reaped' = Reaped
    BY <2>1, TimersKept DEF Reaped
  <2> QED
    BY <1>9, <2>1, <2>2
<1>14. CASE ProcessQueuedData \/ BufferTimeout
  <2>1. /\ \E F : HandleFatalErrors(F)
        /\ op' = op /\ child' = child
    BY <1>14 DEF ProcessQueuedData, BufferTimeout
  <2>2. stored = {} /\ Pending' = Pending
    BY <2>1, NothingFatal
  <2>3. Reaped' = Reaped
    BY <2>1 DEF Reaped
  <2> QED
    BY <1>9, <2>1, <2>2, <2>3
<1>15. CASE UNCHANGED vars
  <2>1. op' = op /\ restartTimer' = restartTimer /\ orphans' = orphans /\ stored' = stored /\ child' = child
    BY <1>15 DEF vars, control, output
  <2>2. Pending' = Pending /\ Reaped' = Reaped
    BY <2>1, TimersKept DEF Reaped
  <2> QED
    BY <1>9, <2>1, <2>2
<1> QED
  BY <1>1, <1>3, <1>4, <1>5, <1>6, <1>7, <1>8, <1>10, <1>11, <1>12, <1>13, <1>14, <1>15
     DEF Next, OpStep, ChildStep

\* A set whose elements are all the same has at most one.
LEMMA AtMostOne ==
  ASSUME NEW S, \A x, y \in S : x = y
  PROVE  Cardinality(S) <= 1
<1>1. CASE S = {}
  BY <1>1, FS_EmptySet
<1>2. CASE S # {}
  <2>1. PICK x \in S : TRUE
    BY <1>2
  <2>2. S = {x}
    BY <2>1
  <2> QED
    BY <2>2, FS_Singleton
<1> QED
  BY <1>1, <1>2

\* Before the first fatal error there is one child at a time and one restart at
\* a time, whatever the restart limit: only fatal errors make restarts overlap.
THEOREM CrashesAloneNeverOverlap == Spec => []OneChildUntilFatal
<1>1. Init => (stored = {} => OneAtATime)
  <2> SUFFICES ASSUME Init PROVE OneAtATime
    OBVIOUS
  <2>1. Len(child) = 1 /\ Pending = 0 /\ RestartsInProgress = {}
    BY DEF Init, Pending, RestartsInProgress, Restarts
  <2> QED
    BY <2>1 DEF OneAtATime
<1>2. TypeOK /\ TypeOK' /\ RestartAccounting /\ (stored = {} => OneAtATime) /\ [Next]_vars
        => (stored = {} => OneAtATime)'
  BY OneAtATimeStep
<1>3. TypeOK /\ (stored = {} => OneAtATime) => OneChildUntilFatal
  <2> SUFFICES ASSUME TypeOK, OneAtATime
               PROVE  Cardinality(Alive) <= 1 /\ Cardinality(RestartsInProgress) <= 1
    BY DEF OneChildUntilFatal
  <2>1. Alive \subseteq {Len(child)}
    BY DEF Alive, Reaped, OneAtATime
  <2>2. Cardinality(Alive) <= 1
    BY <2>1, AtMostOne
  <2>3. Cardinality(RestartsInProgress) <= 1
    BY AtMostOne DEF OneAtATime
  <2> QED
    BY <2>2, <2>3
<1> QED
  BY <1>1, <1>2, <1>3, TypeCorrect, RestartsAlwaysAccounted, PTL DEF Spec

-----------------------------------------------------------------------------
(***************************************************************************)
(* The output.  isProcessing decides whether a callback is scheduled for   *)
(* new output, so it must never be set without one.                        *)
(***************************************************************************)
OutputInv == NoStrandedOutput /\ (isProcessing => immediate)

\* Every step keeps a callback scheduled for what is waiting.
LEMMA OutputStep == ASSUME TypeOK, OutputInv, [Next]_vars PROVE OutputInv'
<1>1. CASE UNCHANGED output
  <2>1. /\ processingQueue' = processingQueue /\ errorBuffer' = errorBuffer
    BY <1>1 DEF output
  <2>2. isProcessing' = isProcessing /\ immediate' = immediate /\ bufferTimeout' = bufferTimeout
    BY <1>1 DEF output
  <2> QED
    BY <2>1, <2>2, Zenon DEF OutputInv, NoStrandedOutput
<1>2. ASSUME NEW c \in Chunk, ProcessStreamData(c) PROVE OutputInv'
  <2>1. immediate' = (immediate \/ ~isProcessing) /\ errorBuffer' = errorBuffer
    BY <1>2, Zenon DEF ProcessStreamData
  <2>2. bufferTimeout' = bufferTimeout
    BY <1>2, Zenon DEF ProcessStreamData
  <2>3. immediate'
    BY <2>1, Zenon DEF OutputInv
  <2>4. errorBuffer' # None => bufferTimeout'
    BY <2>1, <2>2, Zenon DEF OutputInv, NoStrandedOutput
  <2> QED
    BY <2>3, <2>4, Zenon DEF OutputInv, NoStrandedOutput
<1>3. CASE ProcessQueuedData
  <2>1. processingQueue' = <<>> /\ isProcessing' = FALSE
    BY <1>3 DEF ProcessQueuedData
  <2>2. /\ bufferTimeout' = (bufferTimeout \/ Queued("stderr") # {})
        /\ errorBuffer # None \/ Queued("stderr") = {} => errorBuffer' = errorBuffer
    BY <1>3, Zenon DEF ProcessQueuedData
  <2>3. errorBuffer' # None => bufferTimeout'
    BY <2>2, Zenon DEF OutputInv, NoStrandedOutput
  <2> QED
    BY <2>1, <2>3, Zenon DEF OutputInv, NoStrandedOutput
<1>4. CASE BufferTimeout
  <2>1. /\ processingQueue' = processingQueue /\ errorBuffer' = None
    BY <1>4 DEF BufferTimeout
  <2>2. isProcessing' = isProcessing /\ immediate' = immediate
    BY <1>4, Zenon DEF BufferTimeout
  <2> QED
    BY <2>1, <2>2, Zenon DEF OutputInv, NoStrandedOutput
<1>5. ASSUME NEW o \in Op, RestartTimerFires(o) \/ OpStep(o) PROVE UNCHANGED output
  BY <1>5 DEF RestartTimerFires, OpStep, Terminate, KillTimeout, ForceKill, StopLogged, Start, SpawnFails
<1>6. GracefulShutdown \/ ChildStep \/ ChildError => UNCHANGED output
  BY DEF GracefulShutdown, ChildStep, ChildExits, ExitEvent, ChildError
<1>7. UNCHANGED vars => UNCHANGED output
  BY DEF vars
<1> QED
  BY <1>1, <1>2, <1>3, <1>4, <1>5, <1>6, <1>7 DEF Next

\* Output that is queued or collected always has a callback scheduled for it.
THEOREM OutputNeverStranded == Spec => []NoStrandedOutput
<1>1. Init => OutputInv
  BY Zenon DEF Init, OutputInv, NoStrandedOutput
<1>2. OutputInv => NoStrandedOutput
  BY DEF OutputInv
<1> QED
  BY <1>1, <1>2, OutputStep, TypeCorrect, PTL DEF Spec

-----------------------------------------------------------------------------
(* The process monitor implements the abstract Supervisor.  The invariant is RestartAccounting: an
   abstract restart or start needs a cause that is still unused, and the accounting says that
   every timer that fires, every stop() that returns and every delay that ends has one. *)

\* A step the abstract supervisor may take, or none that it sees.
AbstractStep == [Supervised!SupervisorNext]_(Supervised!supervisorVars)

\* A step that touches none of the mapped state is a stutter; one that in
\* addition leaves the state running is the abstract GoDown, or a stutter when
\* the process was down already.
LEMMA GoesDown ==
  ASSUME TypeOK, ~ended, stored' = stored, Reaped' = Reaped, restartCount' = restartCount,
         Len(child') = Len(child), ended' = ended, state' = state \/ state' # "running"
  PROVE  AbstractStep
<1>1. CASE state = "running" /\ state' # "running"
  <2>1. /\ (state = "running") = TRUE /\ (state' = "running") = FALSE
    BY <1>1
  <2>2. Supervised!GoDown
    BY <2>1, Zenon DEF Supervised!GoDown
  <2> QED
    BY <2>2 DEF AbstractStep, Supervised!SupervisorNext
<1>2. CASE (state = "running") = (state' = "running")
  <2>1. UNCHANGED Supervised!supervisorVars
    BY <1>2, Zenon DEF Supervised!supervisorVars
  <2> QED
    BY <2>1 DEF AbstractStep
<1> QED
  BY <1>1, <1>2, Zenon

\* A step that ends the monitor and touches nothing else of the mapped state.
LEMMA Ends ==
  ASSUME TypeOK, ~ended, stored' = stored, Reaped' = Reaped, restartCount' = restartCount,
         Len(child') = Len(child), ended' = TRUE, (state = "running") = (state' = "running")
  PROVE  AbstractStep
<1>1. Supervised!End
  BY Zenon DEF Supervised!End
<1> QED
  BY <1>1 DEF AbstractStep, Supervised!SupervisorNext

\* A restart that is counted was ordered before: by a pending timer or as one of
\* the restarts that are stopping the process.
LEMMA Counted ==
  ASSUME TypeOK, RestartAccounting, ~ended, Pending > 0 \/ Stopping # {},
         stored' = stored, Reaped' = Reaped, restartCount' = restartCount + 1,
         child' = child, ended' = ended, state' = state
  PROVE  AbstractStep
<1>1. /\ Cardinality(Stopping) \in Nat /\ Cardinality(stored) \in Nat
      /\ Cardinality(Reaped) \in Nat
  BY Counts
<1>2. /\ Pending \in Nat /\ restartCount \in Nat
      /\ Ordered = restartCount + Cardinality(Stopping) + Pending
  BY OrderedSum
<1>3. Pending > 0 \/ Cardinality(Stopping) > 0
  <2>1. Stopping # {} => Cardinality(Stopping) # 0
    <3>1. Stopping \subseteq Restarts
      BY DEF Stopping
    <3> QED
      BY <3>1, OpFacts, FS_Subset, FS_EmptySet
  <2> QED
    BY <1>1, <2>1
<1>4. restartCount < Ordered /\ Ordered \in Nat
  BY <1>1, <1>2, <1>3
<1>5. /\ Ordered <= Cardinality(stored) + Cardinality(Reaped)
      /\ Ordered <= Cardinality(stored) + maxRestarts
  BY DEF RestartAccounting
<1>6. maxRestarts \in Nat
  BY BoundsAssumption
<1>7. restartCount < Cardinality(stored) + Cardinality(Reaped)
  BY <1>1, <1>2, <1>4, <1>5
<1>8. restartCount < Cardinality(stored) + maxRestarts
  BY <1>1, <1>2, <1>4, <1>5, <1>6
<1>9. Supervised!CountRestart
  BY <1>7, <1>8, Zenon DEF Supervised!CountRestart
<1> QED
  BY <1>9 DEF AbstractStep, Supervised!SupervisorNext

\* Fatal errors found in the output are reported, or were known already.
LEMMA Reported ==
  ASSUME TypeOK, TypeOK', ~ended, NEW F \in SUBSET Fatal, HandleFatalErrors(F),
         UNCHANGED <<child, restartCount, state, ended>>
  PROVE  AbstractStep
<1>1. stored \in SUBSET Fatal /\ stored' = stored \cup F /\ Reaped' = Reaped
  BY DEF TypeOK, HandleFatalErrors, Reaped
<1>2. IsFiniteSet(stored')
  BY <1>1, FatalAssumption, FS_Subset
<1>3. /\ Cardinality(stored) \in Nat /\ Cardinality(stored') \in Nat
      /\ Cardinality(stored) <= Cardinality(stored')
  BY <1>1, <1>2, FS_Subset, FS_CardinalityType
<1>4. CASE Cardinality(stored') = Cardinality(stored)
  <2>1. UNCHANGED Supervised!supervisorVars
    BY <1>1, <1>4, Zenon DEF Supervised!supervisorVars
  <2> QED
    BY <2>1 DEF AbstractStep
<1>5. CASE Cardinality(stored') # Cardinality(stored)
  <2>1. Cardinality(stored') > Cardinality(stored)
    BY <1>3, <1>5
  <2>2. Supervised!Report
    BY <1>1, <1>3, <2>1, Zenon DEF Supervised!Report
  <2> QED
    BY <2>2 DEF AbstractStep, Supervised!SupervisorNext
<1> QED
  BY <1>4, <1>5

-----------------------------------------------------------------------------
\* Every step of the monitor is a step of the supervisor or is not seen by it.
LEMMA SupervisedStep ==
  ASSUME TypeOK, TypeOK', RestartAccounting, [Next]_vars
  PROVE  AbstractStep
<1>1. ASSUME NEW o \in Op, RestartTimerFires(o), ~ended PROVE AbstractStep
  <2>1. /\ o \in Restarts /\ o # 0 /\ StopCalled(o) /\ child' = child /\ stored' = stored
    BY <1>1 DEF RestartTimerFires, output, Restarts
  <2>2. Reaped' = Reaped /\ Len(child') = Len(child)
    BY <2>1 DEF Reaped
  <2>3. CASE state = "stopped"
    <3>1. restartCount' = restartCount + 1 /\ ended' = ended /\ state' = state
      BY <2>1, <2>3 DEF StopCalled, StopReturned
    <3>2. PICK p \in Nat : Pending = p + 1
      BY <1>1, TimerFired
    <3>3. Pending > 0
      BY <3>2
    <3> QED
      BY <1>1, <2>1, <2>2, <3>1, <3>3, Counted
  <2>4. CASE state # "stopped"
    <3>1. restartCount' = restartCount /\ ended' = ended /\ state' = "stopping"
      BY <2>1, <2>4 DEF StopCalled
    <3> QED
      BY <1>1, <2>1, <2>2, <3>1, GoesDown
  <2> QED
    BY <2>3, <2>4
<1>2. ASSUME NEW o \in Op, Terminate(o), ~ended PROVE AbstractStep
  <2>1. Reaped' = Reaped /\ Len(child') = Len(child)
    BY <1>2, TerminateKeepsReaped
  <2>2. /\ restartCount' = restartCount /\ stored' = stored /\ ended' = ended
        /\ state' = state \/ state' = "stopped"
    BY <1>2 DEF Terminate, output
  <2> QED
    BY <1>2, <2>1, <2>2, GoesDown
<1>3. ASSUME NEW o \in Op, KillTimeout(o), ~ended PROVE AbstractStep
  <2>1. Reaped' = Reaped /\ Len(child') = Len(child)
    BY <1>3, KillTimeoutKeepsReaped
  <2>2. /\ restartCount' = restartCount /\ stored' = stored /\ ended' = ended
        /\ state' = "stopped"
    BY <1>3 DEF KillTimeout, ForceKill, output
  <2> QED
    BY <1>3, <2>1, <2>2, GoesDown
<1>4. ASSUME NEW o \in Op, StopLogged(o), ~ended PROVE AbstractStep
  <2>1. /\ op[o].pc = "stopped" /\ StopReturned(o) /\ child' = child /\ stored' = stored
        /\ state' = state
    BY <1>4 DEF StopLogged, output
  <2>2. Reaped' = Reaped /\ Len(child') = Len(child)
    BY <2>1 DEF Reaped
  <2>3. CASE o = 0
    <3>1. restartCount' = restartCount /\ ended' = TRUE
      BY <2>1, <2>3 DEF StopReturned
    <3>2. (state = "running") = (state' = "running")
      BY <2>1
    <3> QED
      BY <1>4, <2>1, <2>2, <3>1, <3>2, Ends
  <2>4. CASE o # 0
    <3>1. restartCount' = restartCount + 1 /\ ended' = ended
      BY <2>1, <2>4 DEF StopReturned
    <3>2. o \in Stopping
      BY <2>1, <2>4 DEF Stopping, Restarts
    <3> QED
      BY <1>4, <2>1, <2>2, <3>1, <3>2, Counted
  <2> QED
    BY <2>3, <2>4
<1>5. ASSUME NEW o \in Op, Start(o), ~ended PROVE AbstractStep
  <2>1. /\ op[o].pc = "delay" /\ restartCount' = restartCount /\ stored' = stored
        /\ ended' = ended
    BY <1>5 DEF Start, output
  <2>2. CASE state = "running"
    <3>1. state' = state /\ child' = child
      BY <1>5, <2>2 DEF Start
    <3>2. Reaped' = Reaped /\ Len(child') = Len(child)
      BY <3>1 DEF Reaped
    <3> QED
      BY <1>5, <2>1, <3>1, <3>2, GoesDown
  <2>3. CASE state # "running"
    <3>1. state' = "running" /\ child' = Append(child, NewChild)
      BY <1>5, <2>3 DEF Start
    <3>2. Reaped' = Reaped /\ Len(child') = Len(child) + 1
      BY <3>1, AppendKeepsReaped
    <3>3. Len(child) < restartCount + 1
      <4>1. o \in Delaying /\ Delaying \subseteq Restarts
        BY <2>1 DEF RestartAccounting, Delaying, Restarts
      <4>2. Cardinality(Delaying) # 0
        BY <4>1, OpFacts, FS_Subset, FS_EmptySet
      <4>3. Cardinality(Delaying) \in Nat /\ Len(child) \in Nat
        BY Counts
      <4>4. Len(child) + Cardinality(Delaying) <= restartCount + 1 /\ restartCount \in Nat
        BY DEF RestartAccounting, TypeOK
      <4> QED
        BY <4>2, <4>3, <4>4
    <3>4. (state = "running") = FALSE /\ (state' = "running") = TRUE
      BY <2>3, <3>1
    <3>5. Supervised!StartAgain
      BY <2>1, <3>2, <3>3, <3>4, Zenon DEF Supervised!StartAgain
    <3> QED
      BY <1>5, <3>5 DEF AbstractStep, Supervised!SupervisorNext
  <2> QED
    BY <2>2, <2>3
<1>6. ASSUME NEW o \in Op, SpawnFails(o), ~ended PROVE AbstractStep
  <2>1. /\ restartCount' = restartCount /\ stored' = stored /\ child' = child
        /\ ended' = TRUE /\ state # "running" /\ state' = "stopped"
    BY <1>6 DEF SpawnFails, output
  <2>2. Reaped' = Reaped /\ Len(child') = Len(child)
    BY <2>1 DEF Reaped
  <2>3. (state = "running") = (state' = "running")
    BY <2>1
  <2> QED
    BY <1>6, <2>1, <2>2, <2>3, Ends
<1>7. ASSUME GracefulShutdown, ~ended PROVE AbstractStep
  <2>1. StopCalled(0) /\ child' = child /\ stored' = stored
    BY <1>7 DEF GracefulShutdown, output
  <2>2. Reaped' = Reaped /\ Len(child') = Len(child)
    BY <2>1 DEF Reaped
  <2>3. CASE state = "stopped"
    <3>1. /\ restartCount' = restartCount /\ ended' = TRUE
          /\ (state = "running") = (state' = "running")
      BY <2>1, <2>3 DEF StopCalled, StopReturned
    <3> QED
      BY <1>7, <2>1, <2>2, <3>1, Ends
  <2>4. CASE state # "stopped"
    <3>1. restartCount' = restartCount /\ ended' = ended /\ state' = "stopping"
      BY <2>1, <2>4 DEF StopCalled
    <3> QED
      BY <1>7, <2>1, <2>2, <3>1, GoesDown
  <2> QED
    BY <2>3, <2>4
<1>8. ASSUME NEW c \in 1 .. Len(child), ChildExits(c), ~ended PROVE AbstractStep
  <2>1. Reaped' = Reaped /\ Len(child') = Len(child)
    BY <1>8, ChildExitsKeepsReaped
  <2>2. restartCount' = restartCount /\ stored' = stored /\ ended' = ended /\ state' = state
    BY <1>8 DEF ChildExits, output
  <2> QED
    BY <1>8, <2>1, <2>2, GoesDown
<1>9. ASSUME NEW c \in 1 .. Len(child), ExitEvent(c), ~ended PROVE AbstractStep
  <2>1. /\ Len(child') = Len(child) /\ Cardinality(Reaped') = Cardinality(Reaped) + 1
        /\ Cardinality(Reaped) + 1 <= Len(child)
    BY <1>9, ExitNoticed
  <2>2. /\ restartCount' = restartCount /\ stored' = stored /\ ended' = ended
        /\ (state' = "running") = FALSE
    BY <1>9 DEF ExitEvent, output
  <2>3. Cardinality(Reaped) < Len(child)
    <3>1. Cardinality(Reaped) \in Nat /\ Len(child) \in Nat
      BY Counts
    <3> QED
      BY <2>1, <3>1
  <2>4. Supervised!NoticeExit
    BY <2>1, <2>2, <2>3, Zenon DEF Supervised!NoticeExit
  <2> QED
    BY <1>9, <2>4 DEF AbstractStep, Supervised!SupervisorNext
<1>10. ASSUME ChildError, ~ended PROVE AbstractStep
  <2>1. /\ Reaped' = Reaped /\ Len(child') = Len(child) /\ restartCount' = restartCount
        /\ stored' = stored /\ ended' = ended /\ state' = "crashed"
    BY <1>10 DEF ChildError, Reaped, output
  <2> QED
    BY <1>10, <2>1, GoesDown
<1>11. ASSUME NEW c \in Chunk, ProcessStreamData(c), ~ended PROVE AbstractStep
  <2>1. /\ Reaped' = Reaped /\ Len(child') = Len(child) /\ restartCount' = restartCount
        /\ stored' = stored /\ ended' = ended /\ state' = state
    BY <1>11 DEF ProcessStreamData, Reaped, control
  <2> QED
    BY <1>11, <2>1, GoesDown
<1>12. ASSUME ProcessQueuedData, ~ended PROVE AbstractStep
  <2>1. HandleFatalErrors(FatalInStdout) /\ UNCHANGED <<child, restartCount, state, ended>>
    BY <1>12 DEF ProcessQueuedData
  <2> QED
    BY <1>12, <2>1, StdoutFatal, Reported
<1>13. ASSUME BufferTimeout, ~ended PROVE AbstractStep
  <2>1. /\ HandleFatalErrors({errorBuffer} \ {Other, None})
        /\ UNCHANGED <<child, restartCount, state, ended>>
    BY <1>13 DEF BufferTimeout
  <2>2. {errorBuffer} \ {Other, None} \in SUBSET Fatal
    BY DEF TypeOK
  <2> QED
    BY <1>13, <2>1, <2>2, Reported
<1>14. CASE UNCHANGED vars
  <2>1. UNCHANGED <<stored, child, restartCount, state, ended>>
    BY <1>14 DEF vars, control, output
  <2>2. UNCHANGED Supervised!supervisorVars
    BY <2>1 DEF Supervised!supervisorVars, Reaped
  <2> QED
    BY <2>2 DEF AbstractStep
<1> QED
  BY <1>1, <1>2, <1>3, <1>4, <1>5, <1>6, <1>7, <1>8, <1>9, <1>10, <1>11, <1>12, <1>13, <1>14
     DEF Next, OpStep, ChildStep

\* The monitor starts as the supervisor does: one process, up, nothing counted.
LEMMA SupervisedInit == Init => Supervised!SupervisorInit
<1> SUFFICES ASSUME Init PROVE Supervised!SupervisorInit
  OBVIOUS
<1>1. Reaped = {} /\ Len(child) = 1 /\ stored = {} /\ restartCount = 0
  BY DEF Init, Reaped, NewChild
<1>2. (state = "running") = TRUE /\ ended = FALSE
  BY DEF Init
<1>3. Cardinality(Reaped) = 0 /\ Cardinality(stored) = 0
  BY <1>1, FS_EmptySet
<1> QED
  BY <1>1, <1>2, <1>3 DEF Supervised!SupervisorInit

\* The process monitor implements the supervisor: it starts processes only while
\* it reports none as running, once for every counted restart, and counts
\* restarts only as exits and fatal errors pay for them.
THEOREM MonitorImplementsSupervisor == Spec => ImplementsSupervisor
<1>1. Init => Supervised!SupervisorInit
  BY SupervisedInit
<1>2. TypeOK /\ TypeOK' /\ RestartAccounting /\ [Next]_vars
         => [Supervised!SupervisorNext]_(Supervised!supervisorVars)
  BY SupervisedStep DEF AbstractStep
<1> QED
  BY <1>1, <1>2, TypeCorrect, RestartsAlwaysAccounted, PTL
     DEF Spec, ImplementsSupervisor, Supervised!SupervisorSpec
=============================================================================
