------------------------------- MODULE Issues -------------------------------
(***************************************************************************)
(* How the errors of a generated app reach the models that repair it       *)
(* (simpleGeneratorAgent.ts).  Runtime errors collect in the error         *)
(* database of the sandbox instance, errors seen by the browser arrive as  *)
(* RUNTIME_ERROR_FOUND messages.  A state machine reads both at every      *)
(* state and empties both stores with calls that are not atomic with the   *)
(* reading: resetIssues is not even awaited.  The Durable Object may be    *)
(* evicted at any await: state.sandboxInstanceId and clientReportedErrors  *)
(* survive, the readers and what they wait for do not, and a clearing      *)
(* under way may still reach its database.                                 *)
(*                                                                         *)
(* A reader is a running generateAllFiles; there are two of them after     *)
(* stop and resume.  The static analysis read along is left out: nothing   *)
(* of it is stored.                                                        *)
(***************************************************************************)
EXTENDS Integers, Sequences, FiniteSets

CONSTANTS
    Reader,
    RuntimeError, ClientError,
    MaxReads,       \* bound: issue readings in a behaviour
    MaxInstances    \* bound: sandbox instances in a behaviour

ASSUME IssuesAssumption ==
    /\ IsFiniteSet(RuntimeError) /\ IsFiniteSet(ClientError) /\ IsFiniteSet(Reader)
    /\ RuntimeError \cap ClientError = {}
    /\ MaxReads \in Nat /\ MaxInstances \in Nat \ {0}

VARIABLES
    runtimeErrors,        \* the error database of every instance
    clientReportedErrors,
    instance,             \* state.sandboxInstanceId
    redeploys,            \* deployToSandbox([], true) started by a failed reading
    reader,
    sent,                 \* clearInstanceErrors of resetIssues under way, per instance
    answered,             \* resetIssues whose clearInstanceErrors has been answered
    abandoned,            \* clearings under way, per instance, whose caller was evicted
    reads,
    occurred,             \* history: errors there have been
    delivered,            \* history: errors handed to a model
    raced,                \* history: errors that came while a clearing was owed
    unreadable,           \* history: errors in the database when reading it failed
    replaced,             \* history: client errors replaced by a later report
    dropped               \* history: errors of readers evicted while they cleared

issuesVars == <<runtimeErrors, clientReportedErrors, instance, redeploys, reader, sent, answered,
                abandoned, reads, occurred, delivered, raced, unreadable, replaced, dropped>>
history == <<occurred, delivered, raced, unreadable, replaced, dropped>>

-----------------------------------------------------------------------------
Instance == 1 .. MaxInstances

\* How a state of the machine reads the issues: "plan" without clearing (phase
\* generation), "cached" clearing the database while it reads (implementation
\* after planning, whose static analysis is passed on) and "fresh" followed by
\* resetIssues (implementation of a resumed phase, finalization, review).
ReadMode == {"plan", "cached", "fresh"}

\* The reading that may follow one in mode k: planning leads to implementation
\* or finalization, implementation to planning or finalization, review to
\* another cycle or back to planning.
Following(k) == CASE k = "plan"   -> {"cached", "fresh"}
                  [] k = "cached" -> {"plan", "fresh"}
                  [] k = "fresh"  -> {"plan", "fresh"}

ReaderRecord == [pc : {"idle", "fetched", "clearing", "cleared"}, kind : ReadMode, target : Instance,
                 found : SUBSET RuntimeError]
IdleReader(k) == [pc |-> "idle", kind |-> k, target |-> 1, found |-> {}]

\* A reader begins by planning, or by implementing the phase an eviction interrupted.
ReadersBegin == [Reader -> {IdleReader("plan"), IdleReader("fresh")}]

IssuesInit ==
    /\ runtimeErrors = [i \in Instance |-> {}]
    /\ clientReportedErrors = {}
    /\ instance = 1 /\ redeploys = 0
    /\ reader \in ReadersBegin
    /\ sent = [i \in Instance |-> 0] /\ answered = 0 /\ abandoned = [i \in Instance |-> 0]
    /\ reads = 0
    /\ occurred = {} /\ delivered = {} /\ raced = {} /\ unreadable = {} /\ replaced = {} /\ dropped = {}

\* Whether a reading clears the database itself, and awaits that.
ClearsWhileReading(r) == reader[r].kind = "cached" /\ reader[r].found # {}

\* A database has been read and its clearing is still to come: one that will
\* hit instance i, or any instance when it has not been sent.
ClearingOwed(i) ==
    \/ sent[i] > 0 \/ abandoned[i] > 0
    \/ \E r \in Reader :
         \/ reader[r].pc = "clearing" /\ reader[r].target = i
         \/ reader[r].pc = "fetched" /\ reader[r].kind = "fresh"
         \/ reader[r].pc = "fetched" /\ ClearsWhileReading(r)

-----------------------------------------------------------------------------
(* The app and the browser.                                                *)

\* The monitor stores an error the app has printed for the first time.
RuntimeErrorOccurs(e) ==
    /\ e \notin occurred
    /\ occurred' = occurred \cup {e}
    /\ runtimeErrors' = [runtimeErrors EXCEPT ![instance] = @ \cup {e}]
    /\ raced' = IF ClearingOwed(instance) THEN raced \cup {e} ELSE raced
    /\ UNCHANGED <<clientReportedErrors, instance, redeploys, reader, sent, answered, abandoned, reads,
                   delivered, unreadable, replaced, dropped>>

\* Resets under way, all of which end by emptying clientReportedErrors.
ResetsUnderWay == answered > 0 \/ \E i \in Instance : sent[i] > 0

\* RUNTIME_ERROR_FOUND from the browser replaces the errors reported before, by
\* none when the message carries no data.
ClientReports(E) ==
    /\ E \cap occurred = {}
    /\ occurred' = occurred \cup E
    /\ clientReportedErrors' = E
    /\ raced' = IF ResetsUnderWay THEN raced \cup E ELSE raced
    /\ replaced' = replaced \cup clientReportedErrors
    /\ UNCHANGED <<runtimeErrors, instance, redeploys, reader, sent, answered, abandoned, reads,
                   delivered, unreadable, dropped>>

-----------------------------------------------------------------------------
(* Reading.                                                                *)

\* A model is called with what was found and the client errors of this moment;
\* a fresh reading first calls resetIssues, whose clearing goes to the
\* instance that is current now.
Deliver(r, found) ==
    /\ delivered' = delivered \cup found \cup clientReportedErrors
    /\ sent' = IF reader[r].kind = "fresh" THEN [sent EXCEPT ![instance] = @ + 1] ELSE sent
    /\ \E k \in Following(reader[r].kind) :
         reader' = [reader EXCEPT ![r] = IdleReader(k)]

\* getInstanceErrors reads the database of the current instance.
Fetch(r) ==
    /\ reader[r].pc = "idle" /\ reads < MaxReads
    /\ reads' = reads + 1
    /\ reader' = [reader EXCEPT ![r] = [@ EXCEPT !.pc = "fetched", !.found = runtimeErrors[instance]]]
    /\ UNCHANGED <<runtimeErrors, clientReportedErrors, instance, redeploys, sent, answered, abandoned,
                   history>>

\* The database cannot be read, or holds a cut-off JSON text: a redeployment is
\* started and the reading goes on with no runtime error.
FetchFails(r) ==
    /\ reader[r].pc = "idle" /\ reads < MaxReads /\ instance + redeploys < MaxInstances
    /\ reads' = reads + 1
    /\ reader' = [reader EXCEPT ![r] = [@ EXCEPT !.pc = "fetched", !.found = {}]]
    /\ redeploys' = redeploys + 1
    /\ unreadable' = unreadable \cup runtimeErrors[instance]
    /\ UNCHANGED <<runtimeErrors, clientReportedErrors, instance, sent, answered, abandoned,
                   occurred, delivered, raced, replaced, dropped>>

\* fetchRuntimeErrors(true) has found errors and clears the instance that is
\* current now.
ClearCalled(r) ==
    /\ reader[r].pc = "fetched" /\ ClearsWhileReading(r)
    /\ reader' = [reader EXCEPT ![r] = [@ EXCEPT !.pc = "clearing", !.target = instance]]
    /\ UNCHANGED <<runtimeErrors, clientReportedErrors, instance, redeploys, sent, answered, abandoned,
                   reads, history>>

\* The clearing reaches the database, or fails there.
CacheClears(r) ==
    /\ reader[r].pc = "clearing"
    /\ \/ runtimeErrors' = [runtimeErrors EXCEPT ![reader[r].target] = {}]
       \/ UNCHANGED runtimeErrors
    /\ reader' = [reader EXCEPT ![r].pc = "cleared"]
    /\ UNCHANGED <<clientReportedErrors, instance, redeploys, sent, answered, abandoned, reads, history>>

\* Mutant of CacheCleared: what was cleared is not handed on.
CacheClearedSilently(r) ==
    /\ reader[r].pc = "cleared"
    /\ Deliver(r, {})
    /\ UNCHANGED <<runtimeErrors, clientReportedErrors, instance, redeploys, answered, abandoned,
                   reads, occurred, raced, unreadable, replaced, dropped>>

\* fetchRuntimeErrors(true) resumes after its clearing, whatever became of it.
CacheCleared(r) ==
    /\ reader[r].pc = "cleared"
    /\ Deliver(r, reader[r].found)
    /\ UNCHANGED <<runtimeErrors, clientReportedErrors, instance, redeploys, answered, abandoned,
                   reads, occurred, raced, unreadable, replaced, dropped>>

\* Everything the reading waits for has arrived (the static analysis with it).
ReadingComplete(r) ==
    /\ reader[r].pc = "fetched" /\ ~ClearsWhileReading(r)
    /\ Deliver(r, reader[r].found)
    /\ UNCHANGED <<runtimeErrors, clientReportedErrors, instance, redeploys, answered, abandoned,
                   reads, occurred, raced, unreadable, replaced, dropped>>

\* The clearing of a resetIssues reaches instance i, or fails there.
ResetClears(i) ==
    /\ sent[i] > 0
    /\ sent' = [sent EXCEPT ![i] = @ - 1]
    /\ answered' = answered + 1
    /\ \/ runtimeErrors' = [runtimeErrors EXCEPT ![i] = {}]
       \/ UNCHANGED runtimeErrors
    /\ UNCHANGED <<clientReportedErrors, instance, redeploys, reader, abandoned, reads, history>>

\* resetIssues resumes with the answer and empties clientReportedErrors.
ResetEnds ==
    /\ answered > 0
    /\ answered' = answered - 1
    /\ clientReportedErrors' = {}
    /\ UNCHANGED <<runtimeErrors, instance, redeploys, reader, sent, abandoned, reads, history>>

\* A redeployment has created a new instance, with a database of its own.
Redeployed ==
    /\ redeploys > 0
    /\ redeploys' = redeploys - 1
    /\ instance' = instance + 1
    /\ UNCHANGED <<runtimeErrors, clientReportedErrors, reader, sent, answered, abandoned, reads, history>>

-----------------------------------------------------------------------------
(* Eviction.                                                               *)

ClearsAt(i) == {r \in Reader : reader[r].pc = "clearing" /\ reader[r].target = i}

\* Errors a reader has found, in a database it is clearing or has cleared, and
\* has not yet handed on.
Held == UNION {reader[r].found : r \in {q \in Reader : reader[q].pc \in {"clearing", "cleared"}}}

\* The Durable Object is evicted: the readers begin anew, nobody waits for the
\* clearings that have been sent, and a redeployment under way is not recorded.
EvictReaders ==
    /\ reader' \in ReadersBegin
    /\ abandoned' = [i \in Instance |-> abandoned[i] + sent[i] + Cardinality(ClearsAt(i))]
    /\ sent' = [i \in Instance |-> 0] /\ answered' = 0 /\ redeploys' = 0
    /\ dropped' = dropped \cup Held
    /\ UNCHANGED <<runtimeErrors, clientReportedErrors, instance, reads,
                   occurred, delivered, raced, unreadable, replaced>>

\* A clearing nobody waits for any more reaches instance i, or fails there.
AbandonedClears(i) ==
    /\ abandoned[i] > 0
    /\ abandoned' = [abandoned EXCEPT ![i] = @ - 1]
    /\ \/ runtimeErrors' = [runtimeErrors EXCEPT ![i] = {}]
       \/ UNCHANGED runtimeErrors
    /\ UNCHANGED <<clientReportedErrors, instance, redeploys, reader, sent, answered, reads, history>>

IssuesNext ==
    \/ \E e \in RuntimeError : RuntimeErrorOccurs(e)
    \/ \E E \in SUBSET ClientError : ClientReports(E)
    \/ \E r \in Reader : \/ Fetch(r) \/ FetchFails(r) \/ ReadingComplete(r)
                        \/ ClearCalled(r) \/ CacheClears(r) \/ CacheCleared(r)
    \/ \E i \in Instance : ResetClears(i) \/ AbandonedClears(i)
    \/ ResetEnds
    \/ Redeployed
    \/ EvictReaders

IssuesSpec == IssuesInit /\ [][IssuesNext]_issuesVars

-----------------------------------------------------------------------------
(* Properties.                                                             *)

IssuesTypeOK ==
    /\ runtimeErrors \in [Instance -> SUBSET RuntimeError]
    /\ clientReportedErrors \in SUBSET ClientError
    /\ instance \in Instance /\ redeploys \in 0 .. MaxInstances
    /\ reader \in [Reader -> ReaderRecord]
    /\ sent \in [Instance -> 0 .. MaxReads] /\ answered \in 0 .. MaxReads
    /\ abandoned \in [Instance -> Nat]
    /\ reads \in 0 .. MaxReads
    /\ occurred \in SUBSET (RuntimeError \cup ClientError)
    /\ delivered \in SUBSET (RuntimeError \cup ClientError)
    /\ raced \in SUBSET (RuntimeError \cup ClientError)
    /\ unreadable \in SUBSET RuntimeError /\ replaced \in SUBSET ClientError
    /\ dropped \in SUBSET RuntimeError

\* No error disappears unread, although the stores are cleared by calls that
\* nobody waits for, on instances that change in between, and the agent may be
\* evicted at every await.  A runtime error that is no longer stored was handed
\* to a model, or is held by a reader that clears, unless it came in after a
\* reading and before the clearing that follows it, the database could not be
\* read, or the eviction met the reader that had found it between its clearing
\* and its resumption; an eviction at any other await loses none.  A client error
\* was handed to a model, unless a later report replaced it or it came in while
\* a resetIssues was under way.
ErrorsAccounted ==
    /\ occurred \cap RuntimeError \subseteq
           (UNION {runtimeErrors[i] : i \in Instance}) \cup Held \cup delivered \cup raced
               \cup unreadable \cup dropped
    /\ occurred \cap ClientError \subseteq clientReportedErrors \cup delivered \cup raced \cup replaced
=============================================================================
