----------------------------- MODULE Generation -----------------------------
(***************************************************************************)
(* Code generation by SimpleCodeGeneratorAgent: the state machine of       *)
(* generateAllFiles (simpleGeneratorAgent.ts) together with the WebSocket  *)
(* messages that start, stop and resume it (websocket.ts) and the user     *)
(* suggestions that arrive while it runs (handleUserInput).                *)
(*                                                                         *)
(* Each running generateAllFiles is a member of Loop.  Code between two    *)
(* awaits is one action; pc names the await a loop is suspended at.        *)
(* state.currentPhase is left out: it is set and reset to undefined        *)
(* without an await in between, so no other handler ever sees it.          *)
(***************************************************************************)
EXTENDS Integers, Sequences, FiniteSets, FiniteSetsExt

CONSTANTS
    Loop,        \* identities of concurrent generateAllFiles invocations
    PhaseName,   \* names the model may give to a phase
    FinalName,   \* "Finalization and Review"
    Input,       \* user suggestions, each sent at most once
    None,
    MAX_PHASES,  \* initial phasesCounter
    Recharge,    \* rechargePhasesCounter's argument in handleUserInput
    ReviewCycles,\* cycles of executeReviewCycle
    Faults       \* what may go wrong or be asked for, a subset of AllFaults

AllFaults == {"error", "nofiles", "stop", "evict"}

ASSUME NamesAssumption == FinalName \notin PhaseName /\ None \notin PhaseName \cup {FinalName}
ASSUME CountersAssumption == /\ MAX_PHASES \in Nat \ {0}
                             /\ Recharge \in Nat /\ Recharge >= 3
                             /\ ReviewCycles \in Nat \ {0}
ASSUME FaultsAssumption == Faults \subseteq AllFaults

VARIABLES
    \* state persisted by the Durable Object
    generatedPhases,
    pendingUserInputs,
    phasesCounter,
    mvpGenerated,
    shouldBeGenerating,
    \* in memory only
    isGenerating,
    loop,
    conversing,        \* suggestions the conversational model is processing
    \* history, read by properties only
    sent,              \* suggestions received from the client
    accepted,          \* suggestions that were queued in pendingUserInputs
    planned            \* suggestions given to a planning call that made a phase

persisted == <<generatedPhases, pendingUserInputs, phasesCounter, mvpGenerated,
               shouldBeGenerating>>
history == <<sent, accepted, planned>>
vars == <<persisted, isGenerating, loop, conversing, history>>

-----------------------------------------------------------------------------
Names == PhaseName \cup {FinalName}
Phase == [name : Names, last : BOOLEAN, completed : BOOLEAN]

PCs == {"idle", "gen_issues", "gen_llm", "impl", "final", "review", "fix", "closing"}

LoopRecord ==
    [pc          : PCs,
     name        : Names \cup {None},  \* phaseConcept.name
     last        : BOOLEAN,            \* phaseConcept.lastPhase
     suggestions : SUBSET Input,       \* userSuggestions of the planning call
     cycle       : 0 .. ReviewCycles - 1,
     clears      : BOOLEAN]            \* started by GENERATE_ALL: has the .finally

IdleLoop == [pc |-> "idle", name |-> None, last |-> FALSE, suggestions |-> {},
             cycle |-> 0, clears |-> FALSE]

Live(l) == loop[l].pc # "idle"
NewPhase(name, last) == [name |-> name, last |-> last, completed |-> FALSE]
OpenPhases(phases) == {k \in DOMAIN phases : ~phases[k].completed}

\* Mutant: only the phase just implemented is marked, the others unmarked.
CompletedOnly(phases, name) ==
    [k \in DOMAIN phases |-> [phases[k] EXCEPT !.completed = phases[k].name = name]]

\* implementPhase marks every phase of that name, reading the state afresh.
Completed(phases, name) ==
    [k \in DOMAIN phases |->
        IF phases[k].name = name THEN [phases[k] EXCEPT !.completed = TRUE]
                                 ELSE phases[k]]

Init ==
    /\ generatedPhases = <<>>
    /\ pendingUserInputs = {}
    /\ phasesCounter = MAX_PHASES
    /\ mvpGenerated = FALSE
    /\ shouldBeGenerating = FALSE
    /\ isGenerating = FALSE
    /\ loop = [l \in Loop |-> IdleLoop]
    /\ conversing = {}
    /\ sent = {} /\ accepted = {} /\ planned = {}

-----------------------------------------------------------------------------
(* The states of the machine, entered by a loop r without an await. *)

Generating(r) == [r EXCEPT !.pc = "gen_issues", !.name = None, !.last = FALSE,
                           !.suggestions = {}, !.cycle = 0]
Implementing(r, name, last) == [r EXCEPT !.pc = "impl", !.name = name, !.last = last,
                                         !.suggestions = {}]
Closing(r) == [IdleLoop EXCEPT !.pc = "closing", !.clears = r.clears]

\* Mutant: one review cycle too many.
ReviewingOneMore(r, i) ==
    CASE pendingUserInputs # {} -> Generating(r)
      [] pendingUserInputs = {} /\ i <= ReviewCycles ->
             [r EXCEPT !.pc = "review", !.cycle = i, !.name = None, !.last = FALSE,
                       !.suggestions = {}]
      [] OTHER -> Closing(r)

\* Mutant: the cycle counter starts again after every fix.
ReviewingForever(r, i) ==
    CASE pendingUserInputs # {} -> Generating(r)
      [] pendingUserInputs = {} /\ i < ReviewCycles ->
             [r EXCEPT !.pc = "review", !.cycle = 0, !.name = None, !.last = FALSE,
                       !.suggestions = {}]
      [] OTHER -> Closing(r)

\* One turn of the for loop of executeReviewCycle.
Reviewing(r, i) ==
    CASE pendingUserInputs # {} -> Generating(r)
      [] pendingUserInputs = {} /\ i < ReviewCycles ->
             [r EXCEPT !.pc = "review", !.cycle = i, !.name = None, !.last = FALSE,
                       !.suggestions = {}]
      [] OTHER -> Closing(r)

\* Mutant: finalizes again although the MVP was generated.
FinalizingAgain(l, phases) ==
    /\ generatedPhases' = Append(phases, NewPhase(FinalName, TRUE))
    /\ loop' = [loop EXCEPT ![l] =
                   [@ EXCEPT !.pc = "final", !.name = FinalName, !.last = TRUE,
                             !.suggestions = {}]]
    /\ mvpGenerated' = TRUE

\* executeFinalizing up to its first await; runs its phase only once.
Finalizing(l, phases) ==
    IF mvpGenerated
    THEN /\ generatedPhases' = phases
         /\ loop' = [loop EXCEPT ![l] = Reviewing(@, 0)]
         /\ UNCHANGED mvpGenerated
    ELSE /\ generatedPhases' = Append(phases, NewPhase(FinalName, TRUE))
         /\ loop' = [loop EXCEPT ![l] =
                        [@ EXCEPT !.pc = "final", !.name = FinalName, !.last = TRUE,
                                  !.suggestions = {}]]
         /\ mvpGenerated' = TRUE

-----------------------------------------------------------------------------
\* Mutant: an open phase is not resumed.
GenerateAllFilesNoResume(l, clears) ==
    LET r == [IdleLoop EXCEPT !.clears = clears] IN
    /\ ~Live(l)
    /\ isGenerating' = TRUE
    /\ \/ /\ generatedPhases # <<>>
          /\ loop' = [loop EXCEPT ![l] = Generating(r)]
          /\ UNCHANGED generatedPhases
       \/ /\ generatedPhases = <<>>
          /\ \E name \in PhaseName, last \in BOOLEAN :
                 /\ loop' = [loop EXCEPT ![l] = Implementing(r, name, last)]
                 /\ generatedPhases' = <<NewPhase(name, last)>>

(***************************************************************************)
(* generateAllFiles up to its first await: resume the last phase that is   *)
(* not completed, or plan the next one, or begin with the blueprint's.     *)
(***************************************************************************)
MayStart(pending) == ~isGenerating /\ (~mvpGenerated \/ pending # {})

GenerateAllFiles(l, clears) ==
    LET r == [IdleLoop EXCEPT !.clears = clears]
        open == OpenPhases(generatedPhases) IN
    /\ ~Live(l)
    /\ isGenerating' = TRUE
    /\ \/ /\ open # {}
          /\ LET p == generatedPhases[Max(open)] IN
                 loop' = [loop EXCEPT ![l] = Implementing(r, p.name, p.last)]
          /\ UNCHANGED generatedPhases
       \/ /\ open = {} /\ generatedPhases # <<>>
          /\ loop' = [loop EXCEPT ![l] = Generating(r)]
          /\ UNCHANGED generatedPhases
       \/ /\ generatedPhases = <<>>
          /\ \E name \in PhaseName, last \in BOOLEAN :
                 /\ loop' = [loop EXCEPT ![l] = Implementing(r, name, last)]
                 /\ generatedPhases' = <<NewPhase(name, last)>>

\* executePhaseGeneration: issues fetched, pendingUserInputs read.
IssuesFetched(l) ==
    /\ loop[l].pc = "gen_issues"
    /\ loop' = [loop EXCEPT ![l].pc = "gen_llm", ![l].suggestions = pendingUserInputs]
    /\ UNCHANGED <<persisted, isGenerating, conversing, history>>

\* generateNextPhase: the planning call returned a phase with files; all
\* pending inputs are dropped, also those that arrived during the call.
PhasePlanned(l, name, last) ==
    /\ loop[l].pc = "gen_llm"
    /\ generatedPhases' = Append(generatedPhases, NewPhase(name, last))
    /\ pendingUserInputs' = {}
    /\ planned' = planned \cup loop[l].suggestions
    /\ loop' = [loop EXCEPT ![l] = Implementing(@, name, last)]
    /\ UNCHANGED <<phasesCounter, mvpGenerated, shouldBeGenerating, isGenerating,
                   conversing, sent, accepted>>

\* The planning call returned no files: the inputs stay pending.
NothingPlanned(l) ==
    /\ "nofiles" \in Faults
    /\ loop[l].pc = "gen_llm"
    /\ Finalizing(l, generatedPhases)
    /\ UNCHANGED <<pendingUserInputs, phasesCounter, shouldBeGenerating,
                   isGenerating, conversing, history>>

\* Mutant: phasesCounter is not charged.
PhaseImplementedForFree(l) ==
    LET phases == Completed(generatedPhases, loop[l].name) IN
    /\ loop[l].pc = "impl"
    /\ IF loop[l].last \/ phasesCounter <= 0
       THEN Finalizing(l, phases)
       ELSE /\ generatedPhases' = phases
            /\ loop' = [loop EXCEPT ![l] = Generating(@)]
            /\ UNCHANGED mvpGenerated
    /\ UNCHANGED <<phasesCounter, pendingUserInputs, shouldBeGenerating,
                   isGenerating, conversing, history>>

(***************************************************************************)
(* executePhaseImplementation: implementPhase returned (its model call,    *)
(* commands, deployment and deterministic fixes are behind one await).     *)
(***************************************************************************)
PhaseImplemented(l) ==
    LET phases == Completed(generatedPhases, loop[l].name) IN
    /\ loop[l].pc = "impl"
    /\ phasesCounter' = phasesCounter - 1
    /\ IF loop[l].last \/ phasesCounter' <= 0
       THEN Finalizing(l, phases)
       ELSE /\ generatedPhases' = phases
            /\ loop' = [loop EXCEPT ![l] = Generating(@)]
            /\ UNCHANGED mvpGenerated
    /\ UNCHANGED <<pendingUserInputs, shouldBeGenerating, isGenerating,
                   conversing, history>>

FinalPhaseImplemented(l) ==
    /\ loop[l].pc = "final"
    /\ generatedPhases' = Completed(generatedPhases, FinalName)
    /\ loop' = [loop EXCEPT ![l] = Reviewing(@, 0)]
    /\ UNCHANGED <<pendingUserInputs, phasesCounter, mvpGenerated,
                   shouldBeGenerating, isGenerating, conversing, history>>

\* reviewCode returned nothing or no issues: leave the for loop.
ReviewClean(l) ==
    /\ loop[l].pc = "review"
    /\ loop' = [loop EXCEPT ![l] = Reviewing(@, ReviewCycles)]
    /\ UNCHANGED <<persisted, isGenerating, conversing, history>>

ReviewFoundIssues(l) ==
    /\ loop[l].pc = "review"
    /\ loop' = [loop EXCEPT ![l].pc = "fix"]
    /\ UNCHANGED <<persisted, isGenerating, conversing, history>>

\* Files regenerated and deployed: next turn of the for loop.
FixesDeployed(l) ==
    /\ loop[l].pc = "fix"
    /\ loop' = [loop EXCEPT ![l] = Reviewing(@, loop[l].cycle + 1)]
    /\ UNCHANGED <<persisted, isGenerating, conversing, history>>

\* An exception in any state ends the machine: caught as IDLE, or by
\* generateAllFiles itself when it comes from executeFinalizing.
StateFailed(l) ==
    /\ "error" \in Faults
    /\ loop[l].pc \in {"gen_llm", "impl", "final", "review", "fix"}
    /\ loop' = [loop EXCEPT ![l] = Closing(@)]
    /\ UNCHANGED <<persisted, isGenerating, conversing, history>>

\* updateDatabase returned; then the .finally of GENERATE_ALL.
GenerationComplete(l) ==
    /\ loop[l].pc = "closing"
    /\ isGenerating' = FALSE
    /\ loop' = [loop EXCEPT ![l] = IdleLoop]
    /\ shouldBeGenerating' = (shouldBeGenerating /\ ~loop[l].clears)
    /\ UNCHANGED <<generatedPhases, pendingUserInputs, phasesCounter, mvpGenerated,
                   conversing, history>>

-----------------------------------------------------------------------------
(* WebSocket messages. *)

\* GENERATE_ALL.  When generateAllFiles returns at once, so does .finally.
GenerateAllMessage(l) ==
    /\ IF MayStart(pendingUserInputs)
       THEN GenerateAllFiles(l, TRUE) /\ shouldBeGenerating' = TRUE
       ELSE /\ shouldBeGenerating' = isGenerating
            /\ UNCHANGED <<isGenerating, loop, generatedPhases>>
    /\ UNCHANGED <<pendingUserInputs, phasesCounter, mvpGenerated, conversing, history>>

\* STOP_GENERATION: clears the flags; nothing reaches a running loop.
StopMessage ==
    /\ "stop" \in Faults
    /\ shouldBeGenerating' = FALSE
    /\ isGenerating' = FALSE
    /\ UNCHANGED <<generatedPhases, pendingUserInputs, phasesCounter, mvpGenerated,
                   loop, conversing, history>>

\* RESUME_GENERATION: no .finally, so nothing clears shouldBeGenerating later.
ResumeMessage(l) ==
    /\ shouldBeGenerating' = TRUE
    /\ IF MayStart(pendingUserInputs)
       THEN GenerateAllFiles(l, FALSE)
       ELSE UNCHANGED <<isGenerating, loop, generatedPhases>>
    /\ UNCHANGED <<pendingUserInputs, phasesCounter, mvpGenerated, conversing, history>>

\* USER_SUGGESTION: handleUserInput up to the conversational model's answer.
UserSuggestion(m) ==
    /\ m \notin sent
    /\ sent' = sent \cup {m}
    /\ conversing' = conversing \cup {m}
    /\ UNCHANGED <<persisted, isGenerating, loop, accepted, planned>>

\* Mutant: phasesCounter is not recharged.
UserInputAcceptedUnpaid(m, l) ==
    /\ m \in conversing
    /\ conversing' = conversing \ {m}
    /\ accepted' = accepted \cup {m}
    /\ pendingUserInputs' = pendingUserInputs \cup {m}
    /\ IF MayStart(pendingUserInputs')
       THEN GenerateAllFiles(l, FALSE)
       ELSE UNCHANGED <<isGenerating, loop, generatedPhases>>
    /\ UNCHANGED <<phasesCounter, mvpGenerated, shouldBeGenerating, sent, planned>>

\* The rest of handleUserInput.  The enhanced request is never empty: the
\* processor falls back to the message itself.
UserInputAccepted(m, l) ==
    /\ m \in conversing
    /\ conversing' = conversing \ {m}
    /\ accepted' = accepted \cup {m}
    /\ phasesCounter' = IF phasesCounter <= Recharge THEN Recharge ELSE phasesCounter
    /\ pendingUserInputs' = pendingUserInputs \cup {m}
    /\ IF MayStart(pendingUserInputs')
       THEN GenerateAllFiles(l, FALSE)
       ELSE UNCHANGED <<isGenerating, loop, generatedPhases>>
    /\ UNCHANGED <<mvpGenerated, shouldBeGenerating, sent, planned>>

\* The Durable Object is evicted and comes back with its persisted state.
Evict ==
    /\ "evict" \in Faults
    /\ isGenerating' = FALSE
    /\ loop' = [l \in Loop |-> IdleLoop]
    /\ conversing' = {}
    /\ UNCHANGED <<persisted, history>>

-----------------------------------------------------------------------------
LoopStep(l) ==
    \/ IssuesFetched(l)
    \/ \E name \in PhaseName, last \in BOOLEAN : PhasePlanned(l, name, last)
    \/ NothingPlanned(l)
    \/ PhaseImplemented(l)
    \/ FinalPhaseImplemented(l)
    \/ ReviewClean(l)
    \/ ReviewFoundIssues(l)
    \/ FixesDeployed(l)
    \/ StateFailed(l)
    \/ GenerationComplete(l)

Message ==
    \/ \E l \in Loop : GenerateAllMessage(l) \/ ResumeMessage(l)
    \/ StopMessage
    \/ \E m \in Input : UserSuggestion(m)

InputStep == \E m \in Input, l \in Loop : UserInputAccepted(m, l)

Next == Message \/ InputStep \/ (\E l \in Loop : LoopStep(l)) \/ Evict

Spec == Init /\ [][Next]_vars

\* Model calls, sandbox calls and database calls return, one way or another.
Fairness == WF_vars(InputStep) /\ \A l \in Loop : WF_vars(LoopStep(l))

FairSpec == Spec /\ Fairness

-----------------------------------------------------------------------------
TypeOK ==
    /\ generatedPhases \in Seq(Phase)
    /\ pendingUserInputs \subseteq Input
    /\ phasesCounter \in Int
    /\ mvpGenerated \in BOOLEAN
    /\ shouldBeGenerating \in BOOLEAN
    /\ isGenerating \in BOOLEAN
    /\ loop \in [Loop -> LoopRecord]
    /\ conversing \subseteq Input
    /\ sent \subseteq Input /\ accepted \subseteq Input /\ planned \subseteq Input

(***************************************************************************)
(* "Check if generation is already active to avoid duplicate processes"    *)
(* (websocket.ts:22): no two generateAllFiles run at once.                 *)
(***************************************************************************)
NoDuplicateLoops == \A l, m \in Loop : Live(l) /\ Live(m) => l = m

(***************************************************************************)
(* executeFinalizing "runs only once" (simpleGeneratorAgent.ts:628): the   *)
(* history holds one finalization phase if mvpGenerated, none otherwise.   *)
(***************************************************************************)
FinalizedOnce ==
    Cardinality({k \in DOMAIN generatedPhases : generatedPhases[k].name = FinalName})
        = IF mvpGenerated THEN 1 ELSE 0

(***************************************************************************)
(* Resuming takes the last phase that is not completed; that loses nothing *)
(* because only the last phase can be open, across errors and restarts.    *)
(***************************************************************************)
OnlyLastPhaseOpen ==
    OpenPhases(generatedPhases) \subseteq {Len(generatedPhases)}

(***************************************************************************)
(* phasesCounter bounds the work: it never goes below zero, and while a    *)
(* user's request is pending at least Recharge - 2 phases are left for it: *)
(* the phase open when it arrived and a finalization phase resumed after a *)
(* crash may be charged to it, nothing else.                               *)
(***************************************************************************)
PhaseBudget ==
    /\ phasesCounter >= 0
    /\ pendingUserInputs # {} => phasesCounter >= Recharge - 2

(***************************************************************************)
(* The project never grows past the blueprint's budget plus what the       *)
(* user's requests recharged (and the finalization phase).                 *)
(***************************************************************************)
PhasesBounded ==
    Len(generatedPhases) <= MAX_PHASES + 1 + Recharge * Cardinality(accepted)

(***************************************************************************)
(* The phase history is append-only and a completed phase stays completed, *)
(* even when two loops write it concurrently after stop and resume.        *)
(***************************************************************************)
HistoryStable ==
    [][ /\ Len(generatedPhases') >= Len(generatedPhases)
        /\ \A k \in DOMAIN generatedPhases :
              /\ generatedPhases'[k].name = generatedPhases[k].name
              /\ generatedPhases[k].completed => generatedPhases'[k].completed
      ]_vars

(***************************************************************************)
(* Every generateAllFiles comes to an end, or there are requests for it to *)
(* work on: neither errors nor reviews keep the machine turning.           *)
(***************************************************************************)
LoopsEnd ==
    \A l \in Loop : Live(l) ~> (~Live(l) \/ pendingUserInputs # {})

-----------------------------------------------------------------------------
(* What comments and messages of the repository claim, and the code does not do. *)

\* "Always acknowledge user requests will be handled "in the next phase""
\* (UserConversationProcessor.ts:72): a queued request is pending until it
\* was part of a planning call.
RequestsReachPlanner == accepted \subseteq pendingUserInputs \cup planned
=============================================================================
