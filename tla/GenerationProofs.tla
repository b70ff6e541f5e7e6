-------------------------- MODULE GenerationProofs --------------------------
(***************************************************************************)
(* The state machine of code generation, for any number of loops, names,   *)
(* requests, phases and review cycles.  Two invariants: one that holds     *)
(* whatever goes wrong, from which the phase history is stable and the     *)
(* finalization unique; and one that needs that nobody stops the           *)
(* generation, so that there is one loop at a time, from which follow what *)
(* a crash leaves to be resumed and how many phases there can be.          *)
(***************************************************************************)
EXTENDS Generation, SequenceTheorems, FiniteSetTheorems, WellFoundedInduction, TLAPS

-----------------------------------------------------------------------------
(* Operators of the model.                                                 *)

\* A non-empty set of numbers up to n has a maximum, and Max finds it: the
\* phase that GenerateAllFiles resumes is an open one.
LEMMA MaxOf ==
  ASSUME NEW n \in Nat, NEW S \in SUBSET (1 .. n), S # {}
  PROVE  Max(S) \in S /\ \A y \in S : y <= Max(S)
<1> DEFINE T == {m \in Nat : n - m \in S}
<1>1. \A y \in S : y \in Nat /\ y <= n /\ n - y \in Nat /\ n - (n - y) = y
  OBVIOUS
<1>2. T \subseteq Nat /\ T # {}
  BY <1>1
<1>3. PICK x \in T : \A y \in T : ~ (<<y, x>> \in OpToRel(<, Nat))
  BY <1>2, NatLessThanWellFounded, WFMin
<1>4. \A y \in T : ~ (y < x)
  BY <1>2, <1>3 DEF OpToRel
<1>5. \A y \in S : n - y \in T
  BY <1>1
<1>6. x \in Nat /\ n - x \in S
  OBVIOUS
<1> HIDE DEF T
<1>7. \A y \in S : n - x >= y
  BY <1>1, <1>4, <1>5, <1>6
<1>8. Max(S) \in S /\ \A y \in S : Max(S) >= y
  BY <1>6, <1>7, Zenon DEF Max
<1> QED
  BY <1>1, <1>8

\* Marking the phases of a name changes nothing but their completion.
LEMMA CompletedFacts ==
  ASSUME NEW phases \in Seq(Phase), NEW name
  PROVE  /\ Completed(phases, name) \in Seq(Phase)
         /\ Len(Completed(phases, name)) = Len(phases)
         /\ \A k \in 1 .. Len(phases) :
              /\ Completed(phases, name)[k].name = phases[k].name
              /\ phases[k].completed => Completed(phases, name)[k].completed
              /\ phases[k].name = name => Completed(phases, name)[k].completed
              /\ phases[k].name # name => Completed(phases, name)[k] = phases[k]
<1> DEFINE done == Completed(phases, name)
<1>1. DOMAIN phases = 1 .. Len(phases) /\ Len(phases) \in Nat
  BY LenProperties
<1>2. \A k \in 1 .. Len(phases) : phases[k] \in Phase
  BY ElementOfSeq
<1>3. \A k \in 1 .. Len(phases) :
        /\ done[k] \in Phase /\ done[k].name = phases[k].name
        /\ phases[k].completed => done[k].completed
        /\ phases[k].name = name => done[k].completed
        /\ phases[k].name # name => done[k] = phases[k]
  BY <1>1, <1>2 DEF Completed, Phase
<1>4. done \in [1 .. Len(phases) -> Phase]
  BY <1>1, <1>3 DEF Completed
<1>5. done \in Seq(Phase)
  BY <1>1, <1>4, SeqDef
<1>6. Len(done) = Len(phases)
  BY <1>1, <1>4, <1>5, LenProperties
<1> QED
  BY <1>3, <1>5, <1>6

\* A phase that is planned, or the finalization phase, is a phase.
LEMMA NewPhaseFacts ==
  ASSUME NEW name \in Names, NEW last \in BOOLEAN
  PROVE  /\ NewPhase(name, last) \in Phase /\ NewPhase(name, last).name = name
         /\ ~NewPhase(name, last).completed
  BY DEF NewPhase, Phase

-----------------------------------------------------------------------------
(* What a step may write to the phase history.                             *)

GrowsFrom(phases) ==
    \/ generatedPhases' = phases /\ mvpGenerated' = mvpGenerated
    \/ \E name \in PhaseName, last \in BOOLEAN :
         generatedPhases' = Append(phases, NewPhase(name, last)) /\ mvpGenerated' = mvpGenerated
    \/ /\ generatedPhases' = Append(phases, NewPhase(FinalName, TRUE))
       /\ ~mvpGenerated /\ mvpGenerated'

\* Nothing or the completion of a name, and at most one phase more; a
\* finalization phase only together with mvpGenerated.
PhasesWritten ==
    \/ GrowsFrom(generatedPhases)
    \/ \E name \in Names : GrowsFrom(Completed(generatedPhases, name))

\* FinalizedOnce without counting.
OneFinal ==
    /\ ~mvpGenerated => \A k \in 1 .. Len(generatedPhases) : generatedPhases[k].name # FinalName
    /\ mvpGenerated => \E f \in 1 .. Len(generatedPhases) : \A k \in 1 .. Len(generatedPhases) :
                         generatedPhases[k].name = FinalName <=> k = f

HistoryStep ==
    /\ Len(generatedPhases') >= Len(generatedPhases)
    /\ \A k \in DOMAIN generatedPhases :
         /\ generatedPhases'[k].name = generatedPhases[k].name
         /\ generatedPhases[k].completed => generatedPhases'[k].completed

\* Growing from phases that differ from the history in completion only keeps
\* the types, the unique finalization and the history.
LEMMA GrowthKeeps ==
  ASSUME NEW phases \in Seq(Phase), generatedPhases \in Seq(Phase), mvpGenerated \in BOOLEAN,
         Len(phases) = Len(generatedPhases),
         \A k \in 1 .. Len(phases) : /\ phases[k].name = generatedPhases[k].name
                                     /\ generatedPhases[k].completed => phases[k].completed,
         GrowsFrom(phases)
  PROVE  /\ generatedPhases' \in Seq(Phase) /\ mvpGenerated' \in BOOLEAN
         /\ OneFinal => OneFinal'
         /\ HistoryStep
<1> USE NamesAssumption
<1>1. /\ Len(phases) \in Nat /\ DOMAIN generatedPhases = 1 .. Len(phases)
  BY LenProperties
<1>2. CASE generatedPhases' = phases /\ mvpGenerated' = mvpGenerated
  <2>1. HistoryStep
    BY <1>1, <1>2 DEF HistoryStep
  <2>2. OneFinal => OneFinal'
    BY <1>2 DEF OneFinal
  <2> QED
    BY <1>2, <2>1, <2>2
<1>3. ASSUME NEW name \in Names, NEW last \in BOOLEAN,
             generatedPhases' = Append(phases, NewPhase(name, last))
      PROVE  /\ generatedPhases' \in Seq(Phase) /\ Len(generatedPhases') = Len(phases) + 1
             /\ \A k \in 1 .. Len(phases) : generatedPhases'[k] = phases[k]
             /\ generatedPhases'[Len(phases) + 1].name = name
             /\ HistoryStep
  <2>1. NewPhase(name, last) \in Phase /\ NewPhase(name, last).name = name
    BY NewPhaseFacts
  <2>2. /\ generatedPhases' \in Seq(Phase) /\ Len(generatedPhases') = Len(phases) + 1
        /\ \A k \in 1 .. Len(phases) : generatedPhases'[k] = phases[k]
        /\ generatedPhases'[Len(phases) + 1].name = name
    BY <1>3, <2>1, AppendProperties
  <2> QED
    BY <1>1, <2>2 DEF HistoryStep
<1>4. ASSUME NEW name \in PhaseName, NEW last \in BOOLEAN, mvpGenerated' = mvpGenerated,
             generatedPhases' = Append(phases, NewPhase(name, last))
      PROVE  OneFinal => OneFinal'
  <2>1. name \in Names /\ name # FinalName
    BY DEF Names
  <2>2. /\ Len(generatedPhases') = Len(phases) + 1
        /\ \A k \in 1 .. Len(phases) : generatedPhases'[k].name = generatedPhases[k].name
        /\ generatedPhases'[Len(phases) + 1].name # FinalName
    BY <1>3, <1>4, <2>1
  <2>3. \A k \in 1 .. Len(generatedPhases') : k \in 1 .. Len(phases) \/ k = Len(phases) + 1
    BY <1>1, <2>2
  <2>4. CASE ~mvpGenerated
    BY <1>4, <2>2, <2>3, <2>4 DEF OneFinal
  <2>5. CASE mvpGenerated
    <3> SUFFICES ASSUME OneFinal
                 PROVE  \E f \in 1 .. Len(generatedPhases') : \A k \in 1 .. Len(generatedPhases') :
                          generatedPhases'[k].name = FinalName <=> k = f
      BY <1>4, <2>5 DEF OneFinal
    <3>1. PICK f \in 1 .. Len(generatedPhases) : \A k \in 1 .. Len(generatedPhases) :
                  generatedPhases[k].name = FinalName <=> k = f
      BY <2>5 DEF OneFinal
    <3>2. f \in 1 .. Len(generatedPhases') /\ f # Len(phases) + 1
      BY <1>1, <2>2
    <3>3. \A k \in 1 .. Len(generatedPhases') : generatedPhases'[k].name = FinalName <=> k = f
      BY <2>2, <2>3, <3>1, <3>2
    <3> QED
      BY <3>2, <3>3
  <2> QED
    BY <2>4, <2>5
<1>5. ASSUME generatedPhases' = Append(phases, NewPhase(FinalName, TRUE)), ~mvpGenerated, mvpGenerated'
      PROVE  OneFinal => OneFinal'
  <2>1. FinalName \in Names
    BY DEF Names
  <2>2. /\ Len(generatedPhases') = Len(phases) + 1
        /\ \A k \in 1 .. Len(phases) : generatedPhases'[k].name = generatedPhases[k].name
        /\ generatedPhases'[Len(phases) + 1].name = FinalName
    BY <1>3, <1>5, <2>1
  <2>3. \A k \in 1 .. Len(generatedPhases') : k \in 1 .. Len(phases) \/ k = Len(phases) + 1
    BY <1>1, <2>2
  <2>4. Len(phases) + 1 \in 1 .. Len(generatedPhases')
    BY <1>1, <2>2
  <2>5. OneFinal => \A k \in 1 .. Len(generatedPhases') :
                      generatedPhases'[k].name = FinalName <=> k = Len(phases) + 1
    BY <1>1, <1>5, <2>2, <2>3 DEF OneFinal
  <2> QED
    BY <1>5, <2>4, <2>5 DEF OneFinal
<1>6. FinalName \in Names /\ PhaseName \subseteq Names
  BY DEF Names
<1> QED
  BY <1>2, <1>3, <1>4, <1>5, <1>6 DEF GrowsFrom

-----------------------------------------------------------------------------
(* The records of the loops.                                               *)

\* The states a loop enters without an await are well-formed.
LEMMA Entered ==
  ASSUME NEW r \in LoopRecord
  PROVE  /\ Generating(r) \in LoopRecord /\ Generating(r).pc = "gen_issues"
         /\ Closing(r) \in LoopRecord /\ Closing(r).pc = "closing"
         /\ \A name \in Names, last \in BOOLEAN :
              /\ Implementing(r, name, last) \in LoopRecord
              /\ Implementing(r, name, last).pc = "impl"
              /\ Implementing(r, name, last).name = name
<1> USE CountersAssumption
<1>1. 0 \in 0 .. ReviewCycles - 1
  OBVIOUS
<1>2. Generating(r) \in LoopRecord /\ Generating(r).pc = "gen_issues"
  BY <1>1 DEF Generating, LoopRecord, PCs
<1>3. Closing(r) \in LoopRecord /\ Closing(r).pc = "closing"
  BY <1>1 DEF Closing, IdleLoop, LoopRecord, PCs
<1>4. ASSUME NEW name \in Names, NEW last \in BOOLEAN
      PROVE  /\ Implementing(r, name, last) \in LoopRecord
             /\ Implementing(r, name, last).pc = "impl"
             /\ Implementing(r, name, last).name = name
  BY DEF Implementing, LoopRecord, PCs
<1> QED
  BY <1>2, <1>3, <1>4

\* A turn of the review loop plans, reviews or ends; only a request makes it plan.
LEMMA Reviewed ==
  ASSUME NEW r \in LoopRecord, NEW i \in Nat
  PROVE  /\ Reviewing(r, i) \in LoopRecord
         /\ Reviewing(r, i).pc \in {"gen_issues", "review", "closing"}
         /\ Reviewing(r, i).pc = "gen_issues" => pendingUserInputs # {}
<1> USE CountersAssumption
<1>1. CASE pendingUserInputs # {}
  BY <1>1, Entered DEF Reviewing
<1>2. CASE pendingUserInputs = {} /\ i < ReviewCycles
  <2> DEFINE rec == [r EXCEPT !.pc = "review", !.cycle = i, !.name = None, !.last = FALSE,
                              !.suggestions = {}]
  <2>1. Reviewing(r, i) = rec
    BY <1>2 DEF Reviewing
  <2>2. i \in 0 .. ReviewCycles - 1
    BY <1>2
  <2>3. rec \in LoopRecord /\ rec.pc = "review"
    BY <2>2 DEF LoopRecord, PCs
  <2> QED
    BY <2>1, <2>3
<1>3. CASE pendingUserInputs = {} /\ ~(i < ReviewCycles)
  <2>1. Reviewing(r, i) = Closing(r)
    BY <1>3 DEF Reviewing
  <2> QED
    BY <2>1, Entered
<1> QED
  BY <1>1, <1>2, <1>3

\* executeFinalizing: a finalization phase the first time, a review afterwards.
LEMMA Finalized ==
  ASSUME TypeOK, NEW l \in Loop, NEW phases, Finalizing(l, phases)
  PROVE  /\ GrowsFrom(phases) /\ loop' \in [Loop -> LoopRecord]
         /\ \A m \in Loop : m # l => loop'[m] = loop[m]
         /\ \/ /\ mvpGenerated /\ mvpGenerated' /\ generatedPhases' = phases
               /\ loop'[l].pc \in {"gen_issues", "review", "closing"}
               /\ loop'[l].pc = "gen_issues" => pendingUserInputs # {}
            \/ /\ ~mvpGenerated /\ mvpGenerated'
               /\ generatedPhases' = Append(phases, NewPhase(FinalName, TRUE))
               /\ loop'[l].pc = "final" /\ loop'[l].name = FinalName
<1>1. loop[l] \in LoopRecord /\ loop \in [Loop -> LoopRecord] /\ mvpGenerated \in BOOLEAN
  BY DEF TypeOK
<1>2. CASE mvpGenerated
  <2>1. /\ generatedPhases' = phases /\ mvpGenerated' = mvpGenerated
        /\ loop' = [loop EXCEPT ![l] = Reviewing(loop[l], 0)]
    BY <1>2 DEF Finalizing
  <2>2. /\ Reviewing(loop[l], 0) \in LoopRecord
        /\ Reviewing(loop[l], 0).pc \in {"gen_issues", "review", "closing"}
        /\ Reviewing(loop[l], 0).pc = "gen_issues" => pendingUserInputs # {}
    BY <1>1, Reviewed
  <2> QED
    BY <1>1, <1>2, <2>1, <2>2 DEF GrowsFrom
<1>3. CASE ~mvpGenerated
  <2> DEFINE rec == [loop[l] EXCEPT !.pc = "final", !.name = FinalName, !.last = TRUE,
                                    !.suggestions = {}]
  <2>1. /\ generatedPhases' = Append(phases, NewPhase(FinalName, TRUE))
        /\ loop' = [loop EXCEPT ![l] = rec]
    BY <1>3 DEF Finalizing
  <2>2. mvpGenerated'
    BY <1>3, Zenon DEF Finalizing
  <2>3. rec \in LoopRecord /\ rec.pc = "final" /\ rec.name = FinalName
    BY <1>1 DEF LoopRecord, PCs, Names
  <2> QED
    BY <1>1, <1>3, <2>1, <2>2, <2>3 DEF GrowsFrom
<1> QED
  BY <1>2, <1>3

\* generateAllFiles: an open phase is resumed under its own name, or the next
\* one is planned, or the blueprint's begun.
LEMMA Started ==
  ASSUME TypeOK, NEW l \in Loop, NEW clears \in BOOLEAN, GenerateAllFiles(l, clears),
         mvpGenerated' = mvpGenerated
  PROVE  /\ GrowsFrom(generatedPhases) /\ loop' \in [Loop -> LoopRecord] /\ ~Live(l)
         /\ isGenerating' \in BOOLEAN /\ isGenerating'
         /\ \A m \in Loop : m # l => loop'[m] = loop[m]
         /\ \/ /\ generatedPhases' = generatedPhases /\ loop'[l].pc = "impl"
               /\ \E k \in OpenPhases(generatedPhases) : loop'[l].name = generatedPhases[k].name
            \/ /\ generatedPhases' = generatedPhases /\ loop'[l].pc = "gen_issues"
               /\ OpenPhases(generatedPhases) = {}
            \/ /\ generatedPhases = <<>> /\ loop'[l].pc = "impl"
               /\ \E name \in PhaseName, last \in BOOLEAN :
                    /\ generatedPhases' = Append(generatedPhases, NewPhase(name, last))
                    /\ loop'[l].name = name
<1> DEFINE r == [IdleLoop EXCEPT !.clears = clears]
<1> DEFINE open == OpenPhases(generatedPhases)
<1> USE CountersAssumption
<1>1. r \in LoopRecord
  <2>1. 0 \in 0 .. ReviewCycles - 1
    OBVIOUS
  <2> QED
    BY <2>1 DEF IdleLoop, LoopRecord, PCs
<1>2. loop \in [Loop -> LoopRecord] /\ generatedPhases \in Seq(Phase) /\ ~Live(l)
  BY DEF TypeOK, GenerateAllFiles
<1>3. isGenerating' \in BOOLEAN /\ isGenerating'
  BY Zenon DEF GenerateAllFiles
<1>4. ASSUME NEW rec \in LoopRecord, loop' = [loop EXCEPT ![l] = rec]
      PROVE  loop' \in [Loop -> LoopRecord] /\ loop'[l] = rec /\ \A m \in Loop : m # l => loop'[m] = loop[m]
  BY <1>2, <1>4
<1> HIDE DEF r
<1>5. CASE /\ open # {} /\ generatedPhases' = generatedPhases
           /\ loop' = [loop EXCEPT ![l] = Implementing(r, generatedPhases[Max(open)].name,
                                                          generatedPhases[Max(open)].last)]
  <2>1. DOMAIN generatedPhases = 1 .. Len(generatedPhases) /\ Len(generatedPhases) \in Nat
    BY <1>2, LenProperties
  <2>2. Max(open) \in open /\ open \subseteq 1 .. Len(generatedPhases)
    BY <1>5, <2>1, MaxOf DEF OpenPhases
  <2>3. generatedPhases[Max(open)] \in Phase
    BY <1>2, <2>2, ElementOfSeq
  <2>4. /\ generatedPhases[Max(open)].name \in Names
        /\ generatedPhases[Max(open)].last \in BOOLEAN
    BY <2>3 DEF Phase
  <2> DEFINE rec == Implementing(r, generatedPhases[Max(open)].name, generatedPhases[Max(open)].last)
  <2>5. rec \in LoopRecord /\ rec.pc = "impl" /\ rec.name = generatedPhases[Max(open)].name
    BY <1>1, <2>4, Entered
  <2> HIDE DEF rec
  <2>6. loop' = [loop EXCEPT ![l] = rec]
    BY <1>5 DEF rec
  <2>7. /\ loop' \in [Loop -> LoopRecord] /\ loop'[l] = rec
        /\ \A m \in Loop : m # l => loop'[m] = loop[m]
    BY <1>4, <2>5, <2>6
  <2>8. \E k \in OpenPhases(generatedPhases) : loop'[l].name = generatedPhases[k].name
    BY <2>2, <2>5, <2>7
  <2>9. GrowsFrom(generatedPhases)
    BY <1>5 DEF GrowsFrom
  <2> QED
    BY <1>2, <1>3, <1>5, <2>5, <2>7, <2>8, <2>9
<1>6. CASE /\ open = {} /\ generatedPhases' = generatedPhases
           /\ loop' = [loop EXCEPT ![l] = Generating(r)]
  <2>1. Generating(r) \in LoopRecord /\ Generating(r).pc = "gen_issues"
    BY <1>1, Entered
  <2> QED
    BY <1>2, <1>3, <1>4, <1>6, <2>1 DEF GrowsFrom
<1>7. ASSUME NEW name \in PhaseName, NEW last \in BOOLEAN, generatedPhases = <<>>,
             loop' = [loop EXCEPT ![l] = Implementing(r, name, last)],
             generatedPhases' = <<NewPhase(name, last)>>
      PROVE  /\ GrowsFrom(generatedPhases) /\ loop' \in [Loop -> LoopRecord]
             /\ \A m \in Loop : m # l => loop'[m] = loop[m]
             /\ loop'[l].pc = "impl" /\ loop'[l].name = name
             /\ generatedPhases' = Append(generatedPhases, NewPhase(name, last))
  <2>1. name \in Names
    BY DEF Names
  <2>2. /\ Implementing(r, name, last) \in LoopRecord /\ Implementing(r, name, last).pc = "impl"
        /\ Implementing(r, name, last).name = name
    BY <1>1, <2>1, Entered
  <2>3. generatedPhases' = Append(generatedPhases, NewPhase(name, last))
    BY <1>7
  <2>4. GrowsFrom(generatedPhases)
    BY <2>3 DEF GrowsFrom
  <2> QED
    BY <1>4, <1>7, <2>2, <2>3, <2>4
<1>8. \/ /\ open # {} /\ generatedPhases' = generatedPhases
         /\ loop' = [loop EXCEPT ![l] = Implementing(r, generatedPhases[Max(open)].name,
                                                        generatedPhases[Max(open)].last)]
      \/ /\ open = {} /\ generatedPhases' = generatedPhases
         /\ loop' = [loop EXCEPT ![l] = Generating(r)]
      \/ /\ generatedPhases = <<>>
         /\ \E name \in PhaseName, last \in BOOLEAN :
              /\ loop' = [loop EXCEPT ![l] = Implementing(r, name, last)]
              /\ generatedPhases' = <<NewPhase(name, last)>>
  BY Zenon DEF GenerateAllFiles, r
<1> QED
  BY <1>2, <1>3, <1>5, <1>6, <1>7, <1>8

-----------------------------------------------------------------------------
(* Types, the unique finalization and the stable history, whatever happens. *)

\* The same for everything that a step may write.
LEMMA WrittenKeeps ==
  ASSUME TypeOK, PhasesWritten
  PROVE  /\ generatedPhases' \in Seq(Phase) /\ mvpGenerated' \in BOOLEAN
         /\ OneFinal => OneFinal'
         /\ HistoryStep
<1>1. generatedPhases \in Seq(Phase) /\ mvpGenerated \in BOOLEAN
  BY DEF TypeOK
<1>2. CASE GrowsFrom(generatedPhases)
  BY <1>1, <1>2, GrowthKeeps
<1>3. ASSUME NEW name \in Names, GrowsFrom(Completed(generatedPhases, name))
      PROVE  /\ generatedPhases' \in Seq(Phase) /\ mvpGenerated' \in BOOLEAN
             /\ OneFinal => OneFinal'
             /\ HistoryStep
  <2> DEFINE phases == Completed(generatedPhases, name)
  <2>1. /\ phases \in Seq(Phase) /\ Len(phases) = Len(generatedPhases)
        /\ \A k \in 1 .. Len(phases) : /\ phases[k].name = generatedPhases[k].name
                                       /\ generatedPhases[k].completed => phases[k].completed
    BY <1>1, CompletedFacts
  <2> HIDE DEF phases
  <2>2. GrowsFrom(phases)
    BY <1>3 DEF phases
  <2> QED
    BY <1>1, <2>1, <2>2, GrowthKeeps
<1> QED
  BY <1>2, <1>3 DEF PhasesWritten

\* What is left of TypeOK when the history is taken care of.
RestTyped ==
    /\ pendingUserInputs \subseteq Input /\ phasesCounter \in Int
    /\ shouldBeGenerating \in BOOLEAN /\ isGenerating \in BOOLEAN
    /\ loop \in [Loop -> LoopRecord]
    /\ conversing \subseteq Input
    /\ sent \subseteq Input /\ accepted \subseteq Input /\ planned \subseteq Input

\* A step of a running loop.
LEMMA LoopTyped ==
  ASSUME TypeOK, NEW l \in Loop, LoopStep(l)
  PROVE  RestTyped' /\ PhasesWritten
<1> USE CountersAssumption
<1>1. /\ RestTyped /\ mvpGenerated \in BOOLEAN /\ loop[l] \in LoopRecord /\ loop \in [Loop -> LoopRecord]
      /\ generatedPhases \in Seq(Phase)
  BY DEF TypeOK, RestTyped
<1>2. ASSUME NEW rec \in LoopRecord, loop' = [loop EXCEPT ![l] = rec],
             UNCHANGED <<persisted, isGenerating, conversing, history>>
      PROVE  RestTyped' /\ PhasesWritten
  <2>1. loop' \in [Loop -> LoopRecord]
    BY <1>1, <1>2
  <2> QED
    BY <1>1, <1>2, <2>1 DEF RestTyped, PhasesWritten, GrowsFrom, persisted, history
<1>3. CASE IssuesFetched(l)
  <2> DEFINE rec == [loop[l] EXCEPT !.pc = "gen_llm", !.suggestions = pendingUserInputs]
  <2>1. loop' = [loop EXCEPT ![l] = rec]
    BY <1>1, <1>3 DEF IssuesFetched
  <2>2. rec \in LoopRecord
    BY <1>1 DEF LoopRecord, PCs, RestTyped
  <2> QED
    BY <1>2, <1>3, <2>1, <2>2 DEF IssuesFetched
<1>4. ASSUME NEW name \in PhaseName, NEW last \in BOOLEAN, PhasePlanned(l, name, last)
      PROVE  RestTyped' /\ PhasesWritten
  <2>1. /\ generatedPhases' = Append(generatedPhases, NewPhase(name, last))
        /\ pendingUserInputs' = {} /\ planned' = planned \cup loop[l].suggestions
        /\ loop' = [loop EXCEPT ![l] = Implementing(loop[l], name, last)]
        /\ UNCHANGED <<phasesCounter, mvpGenerated, shouldBeGenerating, isGenerating,
                       conversing, sent, accepted>>
    BY <1>4 DEF PhasePlanned
  <2>2. name \in Names
    BY DEF Names
  <2>3. Implementing(loop[l], name, last) \in LoopRecord
    BY <1>1, <2>2, Entered
  <2>4. loop' \in [Loop -> LoopRecord] /\ loop[l].suggestions \subseteq Input
    BY <1>1, <2>1, <2>3 DEF LoopRecord
  <2> QED
    BY <1>1, <2>1, <2>4 DEF RestTyped, PhasesWritten, GrowsFrom
<1>5. CASE NothingPlanned(l)
  <2>1. /\ Finalizing(l, generatedPhases)
        /\ UNCHANGED <<pendingUserInputs, phasesCounter, shouldBeGenerating,
                       isGenerating, conversing, sent, accepted, planned>>
    BY <1>5 DEF NothingPlanned, history
  <2>2. GrowsFrom(generatedPhases) /\ loop' \in [Loop -> LoopRecord]
    BY <2>1, Finalized
  <2> QED
    BY <1>1, <2>1, <2>2 DEF RestTyped, PhasesWritten
<1>6. CASE PhaseImplemented(l)
  <2> DEFINE phases == Completed(generatedPhases, loop[l].name)
  <2>1. /\ phasesCounter' = phasesCounter - 1 /\ loop[l].pc = "impl"
        /\ UNCHANGED <<pendingUserInputs, shouldBeGenerating,
                       isGenerating, conversing, sent, accepted, planned>>
    BY <1>6 DEF PhaseImplemented, history
  <2>2. \/ Finalizing(l, phases)
        \/ /\ generatedPhases' = phases /\ mvpGenerated' = mvpGenerated
           /\ loop' = [loop EXCEPT ![l] = Generating(loop[l])]
    BY <1>6 DEF PhaseImplemented
  <2>3. GrowsFrom(phases) /\ loop' \in [Loop -> LoopRecord]
    <3>1. Generating(loop[l]) \in LoopRecord
      BY <1>1, Entered
    <3> HIDE DEF phases
    <3> QED
      BY <1>1, <2>2, <3>1, Finalized DEF GrowsFrom
  <2>4. loop[l].name \in Names \/ phases = generatedPhases
    <3>1. CASE loop[l].name \in Names
      BY <3>1
    <3>2. CASE loop[l].name \notin Names
      <4>1. \A k \in 1 .. Len(generatedPhases) : phases[k] = generatedPhases[k]
        <5> SUFFICES ASSUME NEW k \in 1 .. Len(generatedPhases) PROVE phases[k] = generatedPhases[k]
          OBVIOUS
        <5>1. generatedPhases[k] \in Phase
          BY <1>1, ElementOfSeq
        <5>2. generatedPhases[k].name \in Names
          BY <5>1 DEF Phase
        <5> QED
          BY <1>1, <3>2, <5>2, CompletedFacts
      <4>2. phases \in Seq(Phase) /\ Len(phases) = Len(generatedPhases)
        BY <1>1, CompletedFacts
      <4> QED
        BY <1>1, <4>1, <4>2, SeqEqual
    <3> QED
      BY <3>1, <3>2
  <2> QED
    BY <1>1, <2>1, <2>3, <2>4 DEF RestTyped, PhasesWritten
<1>7. CASE FinalPhaseImplemented(l)
  <2>1. /\ generatedPhases' = Completed(generatedPhases, FinalName)
        /\ loop' = [loop EXCEPT ![l] = Reviewing(loop[l], 0)]
        /\ UNCHANGED <<pendingUserInputs, phasesCounter, mvpGenerated,
                       shouldBeGenerating, isGenerating, conversing, sent, accepted, planned>>
    BY <1>7 DEF FinalPhaseImplemented, history
  <2>2. Reviewing(loop[l], 0) \in LoopRecord
    BY <1>1, Reviewed
  <2>3. loop' \in [Loop -> LoopRecord]
    BY <1>1, <2>1, <2>2
  <2>4. GrowsFrom(Completed(generatedPhases, FinalName)) /\ FinalName \in Names
    BY <2>1 DEF GrowsFrom, Names
  <2> QED
    BY <1>1, <2>1, <2>3, <2>4 DEF RestTyped, PhasesWritten
<1>8. CASE ReviewClean(l)
  BY <1>1, <1>2, <1>8, Reviewed DEF ReviewClean
<1>9. CASE ReviewFoundIssues(l)
  <2> DEFINE rec == [loop[l] EXCEPT !.pc = "fix"]
  <2>1. loop' = [loop EXCEPT ![l] = rec] /\ rec \in LoopRecord
    BY <1>1, <1>9 DEF ReviewFoundIssues, LoopRecord, PCs
  <2> QED
    BY <1>2, <1>9, <2>1 DEF ReviewFoundIssues
<1>10. CASE FixesDeployed(l)
  <2>1. loop[l].cycle + 1 \in Nat
    BY <1>1 DEF LoopRecord
  <2>2. Reviewing(loop[l], loop[l].cycle + 1) \in LoopRecord
    BY <1>1, <2>1, Reviewed
  <2> QED
    BY <1>2, <1>10, <2>2 DEF FixesDeployed
<1>11. CASE StateFailed(l)
  BY <1>1, <1>2, <1>11, Entered DEF StateFailed
<1>12. CASE GenerationComplete(l)
  <2>1. /\ loop' = [loop EXCEPT ![l] = IdleLoop]
        /\ UNCHANGED <<generatedPhases, pendingUserInputs, phasesCounter, mvpGenerated,
                       conversing, sent, accepted, planned>>
    BY <1>12 DEF GenerationComplete, history
  <2>2. isGenerating' \in BOOLEAN /\ shouldBeGenerating' \in BOOLEAN
    BY <1>12, Zenon DEF GenerationComplete
  <2>3. IdleLoop \in LoopRecord
    <3>1. 0 \in 0 .. ReviewCycles - 1
      OBVIOUS
    <3> QED
      BY <3>1 DEF IdleLoop, LoopRecord, PCs
  <2>4. loop' \in [Loop -> LoopRecord]
    BY <1>1, <2>1, <2>3
  <2> QED
    BY <1>1, <2>1, <2>2, <2>4 DEF RestTyped, PhasesWritten, GrowsFrom
<1> QED
  BY <1>3, <1>4, <1>5, <1>6, <1>7, <1>8, <1>9, <1>10, <1>11, <1>12 DEF LoopStep

\* A message, a request or an eviction.
LEMMA OthersTyped ==
  ASSUME TypeOK, Message \/ InputStep \/ Evict \/ UNCHANGED vars
  PROVE  RestTyped' /\ PhasesWritten
<1> USE CountersAssumption
<1>1. /\ RestTyped /\ mvpGenerated \in BOOLEAN /\ loop \in [Loop -> LoopRecord]
      /\ generatedPhases \in Seq(Phase)
  BY DEF TypeOK, RestTyped
<1>2. TRUE \in BOOLEAN /\ FALSE \in BOOLEAN
  OBVIOUS
<1>3. ASSUME NEW l \in Loop, NEW clears \in BOOLEAN, mvpGenerated' = mvpGenerated,
             GenerateAllFiles(l, clears) \/ UNCHANGED <<isGenerating, loop, generatedPhases>>
      PROVE  GrowsFrom(generatedPhases) /\ loop' \in [Loop -> LoopRecord] /\ isGenerating' \in BOOLEAN
  <2>1. CASE GenerateAllFiles(l, clears)
    BY <1>3, <2>1, Started
  <2>2. CASE UNCHANGED <<isGenerating, loop, generatedPhases>>
    BY <1>1, <1>3, <2>2 DEF GrowsFrom, RestTyped
  <2> QED
    BY <1>3, <2>1, <2>2
<1>4. ASSUME NEW l \in Loop, GenerateAllMessage(l) PROVE RestTyped' /\ PhasesWritten
  <2>1. UNCHANGED <<pendingUserInputs, phasesCounter, mvpGenerated, conversing, sent, accepted, planned>>
    BY <1>4 DEF GenerateAllMessage, history
  <2>2. GenerateAllFiles(l, TRUE) \/ UNCHANGED <<isGenerating, loop, generatedPhases>>
    BY <1>4 DEF GenerateAllMessage
  <2>3. shouldBeGenerating' \in BOOLEAN
    BY <1>1, <1>4, Zenon DEF GenerateAllMessage, RestTyped
  <2>4. GrowsFrom(generatedPhases) /\ loop' \in [Loop -> LoopRecord] /\ isGenerating' \in BOOLEAN
    BY <1>2, <1>3, <2>1, <2>2
  <2> QED
    BY <1>1, <2>1, <2>3, <2>4 DEF RestTyped, PhasesWritten
<1>5. ASSUME NEW l \in Loop, ResumeMessage(l) PROVE RestTyped' /\ PhasesWritten
  <2>1. UNCHANGED <<pendingUserInputs, phasesCounter, mvpGenerated, conversing, sent, accepted, planned>>
    BY <1>5 DEF ResumeMessage, history
  <2>2. GenerateAllFiles(l, FALSE) \/ UNCHANGED <<isGenerating, loop, generatedPhases>>
    BY <1>5 DEF ResumeMessage
  <2>3. shouldBeGenerating' \in BOOLEAN
    BY <1>5, Zenon DEF ResumeMessage
  <2>4. GrowsFrom(generatedPhases) /\ loop' \in [Loop -> LoopRecord] /\ isGenerating' \in BOOLEAN
    BY <1>2, <1>3, <2>1, <2>2
  <2> QED
    BY <1>1, <2>1, <2>3, <2>4 DEF RestTyped, PhasesWritten
<1>6. CASE StopMessage
  <2>1. UNCHANGED <<generatedPhases, pendingUserInputs, phasesCounter, mvpGenerated,
                    loop, conversing, sent, accepted, planned>>
    BY <1>6 DEF StopMessage, history
  <2>2. shouldBeGenerating' \in BOOLEAN /\ isGenerating' \in BOOLEAN
    BY <1>6, Zenon DEF StopMessage
  <2> QED
    BY <1>1, <2>1, <2>2 DEF RestTyped, PhasesWritten, GrowsFrom
<1>7. ASSUME NEW m \in Input, UserSuggestion(m) PROVE RestTyped' /\ PhasesWritten
  BY <1>1, <1>7 DEF UserSuggestion, RestTyped, PhasesWritten, GrowsFrom, persisted
<1>8. ASSUME NEW m \in Input, NEW l \in Loop, UserInputAccepted(m, l) PROVE RestTyped' /\ PhasesWritten
  <2>1. /\ conversing' = conversing \ {m} /\ accepted' = accepted \cup {m}
        /\ phasesCounter' = IF phasesCounter <= Recharge THEN Recharge ELSE phasesCounter
        /\ pendingUserInputs' = pendingUserInputs \cup {m}
        /\ UNCHANGED <<mvpGenerated, shouldBeGenerating, sent, planned>>
    BY <1>8 DEF UserInputAccepted
  <2>2. GenerateAllFiles(l, FALSE) \/ UNCHANGED <<isGenerating, loop, generatedPhases>>
    BY <1>8 DEF UserInputAccepted
  <2>3. phasesCounter' \in Int
    BY <1>1, <2>1 DEF RestTyped
  <2>4. GrowsFrom(generatedPhases) /\ loop' \in [Loop -> LoopRecord] /\ isGenerating' \in BOOLEAN
    BY <1>2, <1>3, <2>1, <2>2
  <2> QED
    BY <1>1, <2>1, <2>3, <2>4 DEF RestTyped, PhasesWritten
<1>9. CASE Evict
  <2>1. /\ loop' = [l \in Loop |-> IdleLoop] /\ conversing' = {}
        /\ UNCHANGED <<generatedPhases, pendingUserInputs, phasesCounter, mvpGenerated,
                       shouldBeGenerating, sent, accepted, planned>>
    BY <1>9 DEF Evict, persisted, history
  <2>2. isGenerating' \in BOOLEAN
    BY <1>9, Zenon DEF Evict
  <2>3. 0 \in 0 .. ReviewCycles - 1
    OBVIOUS
  <2>4. IdleLoop \in LoopRecord
    BY <2>3 DEF IdleLoop, LoopRecord, PCs
  <2> QED
    BY <1>1, <2>1, <2>2, <2>4 DEF RestTyped, PhasesWritten, GrowsFrom
<1>10. CASE UNCHANGED vars
  BY <1>1, <1>10 DEF vars, persisted, history, RestTyped, PhasesWritten, GrowsFrom
<1> QED
  BY <1>4, <1>5, <1>6, <1>7, <1>8, <1>9, <1>10 DEF Message, InputStep

\* The invariant that holds whatever goes wrong, and the step of the history.
LEMMA AnyStep ==
  ASSUME TypeOK, OneFinal, [Next]_vars
  PROVE  TypeOK' /\ OneFinal' /\ HistoryStep
<1>1. RestTyped' /\ PhasesWritten
  BY LoopTyped, OthersTyped DEF Next
<1>2. generatedPhases' \in Seq(Phase) /\ mvpGenerated' \in BOOLEAN /\ OneFinal' /\ HistoryStep
  BY <1>1, WrittenKeeps
<1> QED
  BY <1>1, <1>2 DEF TypeOK, RestTyped

\* A new project.
LEMMA InitiallyTyped == Init => TypeOK /\ OneFinal
<1> SUFFICES ASSUME Init PROVE TypeOK /\ OneFinal
  OBVIOUS
<1> USE CountersAssumption
<1>1. mvpGenerated \in BOOLEAN /\ shouldBeGenerating \in BOOLEAN /\ isGenerating \in BOOLEAN
  BY Zenon DEF Init
<1>2. 0 \in 0 .. ReviewCycles - 1
  OBVIOUS
<1>3. IdleLoop \in LoopRecord
  BY <1>2 DEF IdleLoop, LoopRecord, PCs
<1>4. TypeOK
  BY <1>1, <1>3 DEF Init, TypeOK
<1>5. ~mvpGenerated /\ generatedPhases = <<>>
  BY Zenon DEF Init
<1>6. OneFinal
  BY <1>5 DEF OneFinal
<1> QED
  BY <1>4, <1>6

\* FinalizedOnce counts what OneFinal says.
LEMMA FinalCounted ==
  ASSUME TypeOK, OneFinal
  PROVE  FinalizedOnce
<1> DEFINE F == {k \in DOMAIN generatedPhases : generatedPhases[k].name = FinalName}
<1>1. DOMAIN generatedPhases = 1 .. Len(generatedPhases) /\ mvpGenerated \in BOOLEAN
  BY LenProperties DEF TypeOK
<1>2. CASE ~mvpGenerated
  <2>1. F = {}
    BY <1>1, <1>2 DEF OneFinal
  <2> QED
    BY <1>2, <2>1, FS_EmptySet DEF FinalizedOnce
<1>3. CASE mvpGenerated
  <2>1. PICK f \in 1 .. Len(generatedPhases) : \A k \in 1 .. Len(generatedPhases) :
                generatedPhases[k].name = FinalName <=> k = f
    BY <1>3 DEF OneFinal
  <2>2. F = {f}
    BY <1>1, <2>1
  <2>3. Cardinality(F) = 1
    BY <2>2, FS_Singleton
  <2> QED
    BY <1>3, <2>3 DEF FinalizedOnce
<1> QED
  BY <1>1, <1>2, <1>3

\* Types and the unique finalization, as one invariant.
LEMMA AlwaysTyped == Spec => [](TypeOK /\ OneFinal)
<1>1. TypeOK /\ OneFinal /\ [Next]_vars => (TypeOK /\ OneFinal)'
  BY AnyStep
<1> QED
  BY <1>1, InitiallyTyped, PTL DEF Spec

\* The persisted and the volatile state of the agent stay within their types,
\* whatever fails, is stopped or is evicted.
THEOREM TypeCorrect == Spec => []TypeOK
  BY AlwaysTyped, PTL

\* There is one finalization phase once mvpGenerated is set and none before,
\* although after stop and resume several loops may reach executeFinalizing.
THEOREM FinalizationUnique == Spec => []FinalizedOnce
  BY AlwaysTyped, FinalCounted, PTL

\* The phase history is only ever extended, and completion is never undone.
THEOREM HistoryNeverRewritten == Spec => HistoryStable
<1>1. TypeOK /\ OneFinal /\ [Next]_vars => [HistoryStep]_vars
  BY AnyStep
<1>2. Spec => [][HistoryStep]_vars
  BY <1>1, AlwaysTyped, PTL DEF Spec
<1> QED
  BY <1>2 DEF HistoryStable, HistoryStep

-----------------------------------------------------------------------------
(* One loop at a time.  Without STOP_GENERATION the flag isGenerating      *)
(* covers every live loop, so what a loop knows of the history when it     *)
(* suspends still holds when it goes on: AtWork says what that is.         *)

AllDone(phases) == \A k \in 1 .. Len(phases) : phases[k].completed
OnlyLast(phases) == \A k \in 1 .. Len(phases) : phases[k].completed \/ k = Len(phases)

\* What the history leaves to be done: nothing, a phase of the project, or
\* the finalization.
Status(phases) ==
    IF AllDone(phases) THEN "done"
    ELSE IF phases[Len(phases)].name = FinalName THEN "final" ELSE "work"

Solo == \A l \in Loop : Live(l) => isGenerating /\ \A m \in Loop : Live(m) => m = l

AtWork(l) ==
    /\ loop[l].pc \in {"gen_issues", "gen_llm", "review", "fix"} => AllDone(generatedPhases)
    /\ loop[l].pc \in {"impl", "final"} =>
         ~AllDone(generatedPhases) /\ loop[l].name = generatedPhases[Len(generatedPhases)].name
    /\ loop[l].pc = "final" => loop[l].name = FinalName
    /\ loop[l].pc \in {"gen_issues", "gen_llm", "impl"} => phasesCounter >= 1

\* A request is accepted at most once, so the requests can be counted.
RequestsOnce ==
    /\ conversing \subseteq sent /\ accepted \subseteq sent
    /\ conversing \cap accepted = {} /\ IsFiniteSet(accepted)

(***************************************************************************)
(* The account of the phases: n of them, the last in status s; v and p are *)
(* 1 when mvpGenerated and when a request is pending.  The project's open  *)
(* phase is paid for, a pending request still has what it was promised     *)
(* after the open phases that may be charged to it, and every phase was    *)
(* taken from the budget of the blueprint or of a request.                 *)
(***************************************************************************)
Within(n, s, v, p, c, paid) ==
    /\ c >= 0
    /\ s = "work" => c >= 1
    /\ p = 1 => c >= Recharge - 2 + (IF n = 0 \/ s = "work" THEN 1 ELSE 0)
                                  + (IF v = 0 \/ s = "final" THEN 1 ELSE 0)
    /\ n + c - (IF s = "work" THEN 1 ELSE 0) - v <= MAX_PHASES + paid

Bit(b) == IF b THEN 1 ELSE 0

Budget ==
    /\ ~mvpGenerated => phasesCounter >= 1
    /\ Within(Len(generatedPhases), Status(generatedPhases), Bit(mvpGenerated),
              Bit(pendingUserInputs # {}), phasesCounter, Recharge * Cardinality(accepted))

GenerationInv ==
    /\ TypeOK /\ OneFinal
    /\ Solo
    /\ OnlyLast(generatedPhases)
    /\ \A l \in Loop : AtWork(l)
    /\ RequestsOnce
    /\ Budget

-----------------------------------------------------------------------------
(* The status of the history.                                              *)

\* A history that is done.
LEMMA DoneFacts ==
  ASSUME NEW phases, AllDone(phases)
  PROVE  OnlyLast(phases) /\ Status(phases) = "done"
  BY DEF AllDone, OnlyLast, Status

\* A history that is not done: its last phase is open.
LEMMA OpenFacts ==
  ASSUME NEW phases \in Seq(Phase), OnlyLast(phases), ~AllDone(phases)
  PROVE  /\ Len(phases) \in Nat /\ Len(phases) >= 1 /\ ~phases[Len(phases)].completed
         /\ phases[Len(phases)].name = FinalName => Status(phases) = "final"
         /\ phases[Len(phases)].name # FinalName => Status(phases) = "work"
<1>1. Len(phases) \in Nat
  BY LenProperties
<1>2. PICK k \in 1 .. Len(phases) : ~phases[k].completed
  BY DEF AllDone
<1>3. k = Len(phases)
  BY <1>2 DEF OnlyLast
<1> QED
  BY <1>1, <1>2, <1>3 DEF Status

\* implementPhase on the open phase leaves the history done.
LEMMA Finishes ==
  ASSUME NEW phases \in Seq(Phase), OnlyLast(phases), ~AllDone(phases),
         NEW name, name = phases[Len(phases)].name
  PROVE  /\ Completed(phases, name) \in Seq(Phase) /\ AllDone(Completed(phases, name))
         /\ Len(Completed(phases, name)) = Len(phases)
  BY CompletedFacts DEF OnlyLast, AllDone

\* A phase planned when the history is done becomes its open phase.
LEMMA Appended ==
  ASSUME NEW phases \in Seq(Phase), AllDone(phases), NEW phase \in Phase, ~phase.completed
  PROVE  /\ Append(phases, phase) \in Seq(Phase)
         /\ Len(phases) \in Nat /\ Len(Append(phases, phase)) = Len(phases) + 1
         /\ OnlyLast(Append(phases, phase)) /\ ~AllDone(Append(phases, phase))
         /\ Append(phases, phase)[Len(Append(phases, phase))].name = phase.name
         /\ phase.name = FinalName => Status(Append(phases, phase)) = "final"
         /\ phase.name # FinalName => Status(Append(phases, phase)) = "work"
<1> DEFINE longer == Append(phases, phase)
<1>1. /\ longer \in Seq(Phase) /\ Len(longer) = Len(phases) + 1 /\ Len(phases) \in Nat
      /\ \A k \in 1 .. Len(phases) : longer[k] = phases[k]
      /\ longer[Len(phases) + 1] = phase
  BY AppendProperties, LenProperties
<1> HIDE DEF longer
<1>2. OnlyLast(longer)
  <2> SUFFICES ASSUME NEW k \in 1 .. Len(longer), k # Len(longer) PROVE longer[k].completed
    BY DEF OnlyLast
  <2>1. k \in 1 .. Len(phases)
    BY <1>1
  <2> QED
    BY <1>1, <2>1 DEF AllDone
<1>3. Len(longer) \in 1 .. Len(longer) /\ longer[Len(longer)] = phase
  BY <1>1
<1>4. ~AllDone(longer) /\ longer[Len(longer)].name = phase.name
  BY <1>3 DEF AllDone
<1>5. (phase.name = FinalName => Status(longer) = "final") /\ (phase.name # FinalName => Status(longer) = "work")
  BY <1>4 DEF Status
<1> QED
  BY <1>1, <1>2, <1>4, <1>5 DEF longer

\* The finalization is open only after mvpGenerated was set.
LEMMA FinalStatus ==
  ASSUME TypeOK, OneFinal, OnlyLast(generatedPhases), Status(generatedPhases) = "final"
  PROVE  mvpGenerated
<1>1. ~AllDone(generatedPhases) /\ generatedPhases[Len(generatedPhases)].name = FinalName
  BY DEF Status
<1>2. Len(generatedPhases) \in Nat /\ Len(generatedPhases) >= 1
  BY <1>1, OpenFacts DEF TypeOK
<1>3. Len(generatedPhases) \in 1 .. Len(generatedPhases)
  BY <1>2
<1> QED
  BY <1>1, <1>3 DEF OneFinal, TypeOK

-----------------------------------------------------------------------------
(* The account.                                                            *)

Statuses == {"done", "work", "final"}

\* What each kind of step does to the account: a phase implemented, the
\* finalization begun and ended, a request accepted.
LEMMA Accounts ==
  ASSUME NEW n \in Nat, NEW s \in Statuses, NEW v \in {0, 1}, NEW p \in {0, 1},
         NEW c \in Int, NEW paid \in Nat, Within(n, s, v, p, c, paid)
  PROVE  /\ n >= 1 /\ c >= 1 /\ s # "done" /\ (s = "final" => v = 1)
              => Within(n, "done", v, p, c - 1, paid)
         /\ s = "done" /\ v = 0 => Within(n + 1, "final", 1, p, c, paid)
         /\ s = "final" /\ n >= 1 /\ v = 1 => Within(n, "done", v, p, c, paid)
         /\ Within(n, s, v, 1, IF c <= Recharge THEN Recharge ELSE c, paid + Recharge)
         /\ p = 1 => c >= 1
         /\ c >= 0 /\ (p = 1 => c >= Recharge - 2) /\ n <= MAX_PHASES + 1 + paid
<1> USE CountersAssumption DEF Statuses
<1>1. n >= 1 /\ c >= 1 /\ s # "done" /\ (s = "final" => v = 1) => Within(n, "done", v, p, c - 1, paid)
  BY DEF Within
<1>2. s = "done" /\ v = 0 => Within(n + 1, "final", 1, p, c, paid)
  BY DEF Within
<1>3. s = "final" /\ n >= 1 /\ v = 1 => Within(n, "done", v, p, c, paid)
  BY DEF Within
<1>4. Within(n, s, v, 1, IF c <= Recharge THEN Recharge ELSE c, paid + Recharge)
  BY DEF Within
<1>5. p = 1 => c >= 1
  BY DEF Within
<1>6. c >= 0 /\ (p = 1 => c >= Recharge - 2) /\ n <= MAX_PHASES + 1 + paid
  BY DEF Within
<1> QED
  BY <1>1, <1>2, <1>3, <1>4, <1>5, <1>6

\* The arguments that Budget gives to the account are of these types.
LEMMA BudgetTyped ==
  ASSUME TypeOK, RequestsOnce
  PROVE  /\ Len(generatedPhases) \in Nat /\ Status(generatedPhases) \in Statuses
         /\ Bit(mvpGenerated) \in {0, 1} /\ Bit(pendingUserInputs # {}) \in {0, 1}
         /\ phasesCounter \in Int /\ Cardinality(accepted) \in Nat
         /\ Recharge * Cardinality(accepted) \in Nat
         /\ (mvpGenerated <=> Bit(mvpGenerated) = 1) /\ (~mvpGenerated <=> Bit(mvpGenerated) = 0)
         /\ pendingUserInputs # {} <=> Bit(pendingUserInputs # {}) = 1
<1>1. Len(generatedPhases) \in Nat /\ phasesCounter \in Int /\ mvpGenerated \in BOOLEAN
  BY LenProperties DEF TypeOK
<1>2. Status(generatedPhases) \in Statuses
  BY DEF Status, Statuses
<1>3. Cardinality(accepted) \in Nat
  BY FS_CardinalityType DEF RequestsOnce
<1>4. \A a, b \in Nat : a * b \in Nat
  OBVIOUS
<1>5. Recharge * Cardinality(accepted) \in Nat
  BY <1>3, <1>4, CountersAssumption
<1>6. /\ Bit(mvpGenerated) \in {0, 1} /\ Bit(pendingUserInputs # {}) \in {0, 1}
      /\ (mvpGenerated <=> Bit(mvpGenerated) = 1) /\ (~mvpGenerated <=> Bit(mvpGenerated) = 0)
      /\ pendingUserInputs # {} <=> Bit(pendingUserInputs # {}) = 1
  BY <1>1 DEF Bit
<1> QED
  BY <1>1, <1>2, <1>3, <1>5, <1>6

-----------------------------------------------------------------------------
(* The steps of the one loop, and of those that start it.                  *)

\* executeFinalizing on a history that is done.
LEMMA FinalizingKeeps ==
  ASSUME TypeOK, TypeOK', RequestsOnce, NEW l \in Loop, NEW phases \in Seq(Phase), AllDone(phases),
         Finalizing(l, phases), phasesCounter' \in Int,
         Within(Len(phases), "done", Bit(mvpGenerated), Bit(pendingUserInputs # {}),
                phasesCounter', Recharge * Cardinality(accepted)),
         UNCHANGED <<pendingUserInputs, accepted>>
  PROVE  /\ OnlyLast(generatedPhases)' /\ AtWork(l)' /\ Budget'
         /\ \A m \in Loop : m # l => loop'[m] = loop[m]
<1> DEFINE paid == Recharge * Cardinality(accepted)
<1> DEFINE p == Bit(pendingUserInputs # {})
<1>1. /\ \A m \in Loop : m # l => loop'[m] = loop[m]
      /\ \/ /\ mvpGenerated /\ mvpGenerated' /\ generatedPhases' = phases
            /\ loop'[l].pc \in {"gen_issues", "review", "closing"}
            /\ loop'[l].pc = "gen_issues" => pendingUserInputs # {}
         \/ /\ ~mvpGenerated /\ mvpGenerated'
            /\ generatedPhases' = Append(phases, NewPhase(FinalName, TRUE))
            /\ loop'[l].pc = "final" /\ loop'[l].name = FinalName
  BY Finalized
<1>2. /\ paid \in Nat /\ p \in {0, 1} /\ Bit(mvpGenerated) \in {0, 1} /\ Len(phases) \in Nat
      /\ (~mvpGenerated <=> Bit(mvpGenerated) = 0) /\ (mvpGenerated <=> Bit(mvpGenerated) = 1)
      /\ (pendingUserInputs # {} <=> p = 1) /\ "done" \in Statuses
  BY BudgetTyped, LenProperties DEF Statuses
<1>3. paid = Recharge * Cardinality(accepted)' /\ p = Bit(pendingUserInputs # {})'
  OBVIOUS
<1> HIDE DEF paid, p
<1>4. Within(Len(phases), "done", Bit(mvpGenerated), p, phasesCounter', paid)
  BY DEF paid, p
<1>5. CASE /\ mvpGenerated /\ mvpGenerated' /\ generatedPhases' = phases
           /\ loop'[l].pc \in {"gen_issues", "review", "closing"}
           /\ loop'[l].pc = "gen_issues" => pendingUserInputs # {}
  <2>1. OnlyLast(generatedPhases)' /\ Status(generatedPhases)' = "done"
    BY <1>5, DoneFacts
  <2>2. p = 1 => phasesCounter' >= 1
    BY <1>2, <1>4, Accounts
  <2>3. AtWork(l)'
    BY <1>2, <1>5, <2>2 DEF AtWork
  <2>4. Bit(mvpGenerated)' = Bit(mvpGenerated)
    BY <1>5 DEF Bit
  <2>5. Budget'
    BY <1>3, <1>4, <1>5, <2>1, <2>4 DEF Budget
  <2> QED
    BY <1>1, <2>1, <2>3, <2>5
<1>6. CASE /\ ~mvpGenerated /\ mvpGenerated'
           /\ generatedPhases' = Append(phases, NewPhase(FinalName, TRUE))
           /\ loop'[l].pc = "final" /\ loop'[l].name = FinalName
  <2> DEFINE phase == NewPhase(FinalName, TRUE)
  <2>1. phase \in Phase /\ phase.name = FinalName /\ ~phase.completed
    BY DEF NewPhase, Phase, Names
  <2> HIDE DEF phase
  <2>2. /\ Len(generatedPhases)' = Len(phases) + 1 /\ OnlyLast(generatedPhases)'
        /\ ~AllDone(generatedPhases)' /\ generatedPhases'[Len(generatedPhases')].name = FinalName
        /\ Status(generatedPhases)' = "final"
    <3>1. generatedPhases' = Append(phases, phase)
      BY <1>6 DEF phase
    <3> QED
      BY <2>1, <3>1, Appended
  <2>3. Within(Len(phases) + 1, "final", 1, p, phasesCounter', paid)
    BY <1>2, <1>4, <1>6, Accounts
  <2>4. Bit(mvpGenerated)' = 1
    BY <1>6 DEF Bit
  <2>5. Budget'
    BY <1>3, <1>6, <2>2, <2>3, <2>4 DEF Budget
  <2>6. AtWork(l)'
    BY <1>6, <2>2 DEF AtWork
  <2> QED
    BY <1>1, <2>2, <2>5, <2>6
<1> QED
  BY <1>1, <1>5, <1>6

\* A step of the running loop.
LEMMA LoopKeeps ==
  ASSUME GenerationInv, NEW l \in Loop, LoopStep(l), TypeOK', OneFinal'
  PROVE  GenerationInv'
<1> DEFINE paid == Recharge * Cardinality(accepted)
<1> DEFINE p == Bit(pendingUserInputs # {})
<1> DEFINE n == Len(generatedPhases)
<1> DEFINE s == Status(generatedPhases)
<1> DEFINE v == Bit(mvpGenerated)
<1> USE CountersAssumption
<1>1. /\ TypeOK /\ OneFinal /\ Solo /\ OnlyLast(generatedPhases) /\ AtWork(l) /\ RequestsOnce /\ Budget
      /\ loop \in [Loop -> LoopRecord] /\ loop[l] \in LoopRecord /\ generatedPhases \in Seq(Phase)
  BY DEF GenerationInv, TypeOK
<1>2. /\ n \in Nat /\ s \in Statuses /\ v \in {0, 1} /\ p \in {0, 1} /\ phasesCounter \in Int /\ paid \in Nat
      /\ (mvpGenerated <=> v = 1) /\ (~mvpGenerated <=> v = 0) /\ (pendingUserInputs # {} <=> p = 1)
  BY <1>1, BudgetTyped
<1>3. Within(n, s, v, p, phasesCounter, paid) /\ (~mvpGenerated => phasesCounter >= 1)
  BY <1>1 DEF Budget
<1>4. p = 1 => phasesCounter >= 1
  BY <1>2, <1>3, Accounts
<1>5. Live(l)
  BY DEF LoopStep, Live, IssuesFetched, PhasePlanned, NothingPlanned, PhaseImplemented,
         FinalPhaseImplemented, ReviewClean, ReviewFoundIssues, FixesDeployed, StateFailed,
         GenerationComplete
<1>6. \A m \in Loop : m # l => loop[m].pc = "idle"
  BY <1>1, <1>5 DEF Solo, Live
<1>7. ASSUME isGenerating' = isGenerating, \A m \in Loop : m # l => loop'[m] = loop[m],
             AtWork(l)', OnlyLast(generatedPhases)', Budget', UNCHANGED <<conversing, sent, accepted>>
      PROVE  GenerationInv'
  <2>1. Solo'
    BY <1>1, <1>5, <1>6, <1>7 DEF Solo, Live
  <2>2. \A m \in Loop : AtWork(m)'
    BY <1>6, <1>7 DEF AtWork
  <2>3. RequestsOnce'
    BY <1>1, <1>7 DEF RequestsOnce
  <2> QED
    BY <1>7, <2>1, <2>2, <2>3 DEF GenerationInv
<1>8. ASSUME NEW rec, loop' = [loop EXCEPT ![l] = rec],
             UNCHANGED <<persisted, isGenerating, conversing, history>>,
             \/ rec.pc = "closing"
             \/ /\ AllDone(generatedPhases) /\ rec.pc \in {"gen_issues", "gen_llm", "review", "fix"}
                /\ rec.pc \in {"gen_issues", "gen_llm"} => phasesCounter >= 1
      PROVE  GenerationInv'
  <2>1. /\ loop'[l] = rec /\ \A m \in Loop : m # l => loop'[m] = loop[m]
        /\ isGenerating' = isGenerating /\ UNCHANGED <<generatedPhases, pendingUserInputs, phasesCounter>>
        /\ mvpGenerated' = mvpGenerated /\ UNCHANGED <<conversing, sent, accepted>>
    BY <1>1, <1>8 DEF persisted, history
  <2>2. AtWork(l)'
    BY <1>8, <2>1 DEF AtWork
  <2>3. OnlyLast(generatedPhases)'
    BY <1>1, <2>1 DEF OnlyLast
  <2>4. Budget'
    BY <1>1, <2>1 DEF Budget, Status, AllDone
  <2> QED
    BY <1>7, <2>1, <2>2, <2>3, <2>4
<1>9. ASSUME NEW i \in Nat, AllDone(generatedPhases), loop' = [loop EXCEPT ![l] = Reviewing(loop[l], i)],
             UNCHANGED <<persisted, isGenerating, conversing, history>>
      PROVE  GenerationInv'
  <2>1. /\ Reviewing(loop[l], i).pc \in {"gen_issues", "review", "closing"}
        /\ Reviewing(loop[l], i).pc = "gen_issues" => pendingUserInputs # {}
    BY <1>1, Reviewed
  <2>2. Reviewing(loop[l], i).pc = "gen_issues" => phasesCounter >= 1
    BY <1>2, <1>4, <2>1
  <2> QED
    BY <1>8, <1>9, <2>1, <2>2
<1> HIDE DEF paid, p, n, s, v
<1>10. CASE IssuesFetched(l)
  <2> DEFINE rec == [loop[l] EXCEPT !.pc = "gen_llm", !.suggestions = pendingUserInputs]
  <2>1. loop' = [loop EXCEPT ![l] = rec] /\ rec.pc = "gen_llm"
    BY <1>1, <1>10 DEF IssuesFetched, LoopRecord
  <2>2. AllDone(generatedPhases) /\ phasesCounter >= 1
    BY <1>1, <1>10 DEF IssuesFetched, AtWork
  <2> HIDE DEF rec
  <2> QED
    BY <1>8, <1>10, <2>1, <2>2 DEF IssuesFetched
<1>11. ASSUME NEW name \in PhaseName, NEW last \in BOOLEAN, PhasePlanned(l, name, last)
       PROVE  GenerationInv'
  <2>1. /\ loop[l].pc = "gen_llm"
        /\ generatedPhases' = Append(generatedPhases, NewPhase(name, last))
        /\ pendingUserInputs' = {}
        /\ loop' = [loop EXCEPT ![l] = Implementing(loop[l], name, last)]
        /\ isGenerating' = isGenerating /\ mvpGenerated' = mvpGenerated
        /\ UNCHANGED phasesCounter /\ UNCHANGED <<conversing, sent, accepted>>
    BY <1>11 DEF PhasePlanned
  <2>2. name \in Names /\ name # FinalName
    BY NamesAssumption DEF Names
  <2>3. Implementing(loop[l], name, last).pc = "impl" /\ Implementing(loop[l], name, last).name = name
    <3>1. loop[l] \in LoopRecord
      BY <1>1
    <3> QED
      BY <1>11, <2>2, <3>1, Entered
  <2>4. loop'[l].pc = "impl" /\ loop'[l].name = name /\ \A m \in Loop : m # l => loop'[m] = loop[m]
    BY <1>1, <2>1, <2>3
  <2>5. AllDone(generatedPhases) /\ phasesCounter >= 1
    BY <1>1, <2>1 DEF AtWork
  <2>6. /\ Len(generatedPhases)' = n + 1 /\ OnlyLast(generatedPhases)' /\ ~AllDone(generatedPhases)'
        /\ generatedPhases'[Len(generatedPhases')].name = name /\ Status(generatedPhases)' = "work"
    <3> DEFINE phase == NewPhase(name, last)
    <3>1. phase \in Phase /\ phase.name = name /\ ~phase.completed
      BY <2>2, NewPhaseFacts
    <3>2. generatedPhases' = Append(generatedPhases, phase)
      BY <2>1
    <3> HIDE DEF phase
    <3> QED
      BY <1>1, <2>2, <2>5, <3>1, <3>2, Appended DEF n
  <2>7. AtWork(l)'
    BY <2>1, <2>4, <2>5, <2>6 DEF AtWork
  <2>8. s = "done"
    BY <2>5, DoneFacts DEF s
  <2>9. Within(n + 1, "work", v, 0, phasesCounter, paid)
    <3>1. \A x \in Nat, b \in {0, 1}, q \in {0, 1}, c \in Int, t \in Nat :
            Within(x, "done", b, q, c, t) /\ c >= 1 => Within(x + 1, "work", b, 0, c, t)
      BY DEF Within
    <3> QED
      BY <1>2, <1>3, <2>5, <2>8, <3>1
  <2>10. /\ Bit(mvpGenerated)' = v /\ Bit(pendingUserInputs # {})' = 0
         /\ Recharge * Cardinality(accepted)' = paid
    BY <2>1 DEF Bit, v, paid
  <2>11. Budget'
    BY <1>3, <2>1, <2>6, <2>9, <2>10 DEF Budget
  <2> QED
    BY <1>7, <2>1, <2>4, <2>6, <2>7, <2>11
<1>12. CASE NothingPlanned(l)
  <2>1. /\ loop[l].pc = "gen_llm" /\ Finalizing(l, generatedPhases) /\ isGenerating' = isGenerating
        /\ UNCHANGED <<pendingUserInputs, phasesCounter, conversing, sent, accepted>>
    BY <1>12 DEF NothingPlanned, history
  <2>2. AllDone(generatedPhases)
    BY <1>1, <2>1 DEF AtWork
  <2>3. s = "done"
    BY <2>2, DoneFacts DEF s
  <2>4. Within(Len(generatedPhases), "done", Bit(mvpGenerated), Bit(pendingUserInputs # {}),
               phasesCounter', Recharge * Cardinality(accepted)) /\ phasesCounter' \in Int
    BY <1>2, <1>3, <2>1, <2>3 DEF n, v, p, paid
  <2>5. /\ OnlyLast(generatedPhases)' /\ AtWork(l)' /\ Budget'
        /\ \A m \in Loop : m # l => loop'[m] = loop[m]
    BY <1>1, <2>1, <2>2, <2>4, FinalizingKeeps
  <2> QED
    BY <1>7, <2>1, <2>5
<1>13. CASE PhaseImplemented(l)
  <2> DEFINE phases == Completed(generatedPhases, loop[l].name)
  <2>1. /\ loop[l].pc = "impl" /\ phasesCounter' = phasesCounter - 1 /\ isGenerating' = isGenerating
        /\ UNCHANGED <<pendingUserInputs, conversing, sent, accepted>>
    BY <1>13 DEF PhaseImplemented, history
  <2>2. \/ Finalizing(l, phases)
        \/ /\ ~(phasesCounter' <= 0) /\ generatedPhases' = phases /\ mvpGenerated' = mvpGenerated
           /\ loop' = [loop EXCEPT ![l] = Generating(loop[l])]
    BY <1>13 DEF PhaseImplemented
  <2>3. /\ ~AllDone(generatedPhases) /\ loop[l].name = generatedPhases[Len(generatedPhases)].name
        /\ phasesCounter >= 1
    BY <1>1, <2>1 DEF AtWork
  <2>4. phases \in Seq(Phase) /\ AllDone(phases) /\ Len(phases) = n
    BY <1>1, <2>3, Finishes DEF n
  <2> HIDE DEF phases
  <2>5. n >= 1 /\ s # "done" /\ (s = "final" => v = 1)
    <3>1. n >= 1 /\ s # "done"
      BY <1>1, <2>3, OpenFacts DEF n, s
    <3>2. s = "final" => mvpGenerated
      BY <1>1, FinalStatus DEF s
    <3> QED
      BY <1>2, <3>1, <3>2
  <2>6. Within(n, "done", v, p, phasesCounter - 1, paid) /\ phasesCounter' \in Int
    BY <1>2, <1>3, <2>1, <2>3, <2>5, Accounts
  <2>7. CASE Finalizing(l, phases)
    <3>1. Within(Len(phases), "done", Bit(mvpGenerated), Bit(pendingUserInputs # {}),
                 phasesCounter', Recharge * Cardinality(accepted))
      BY <2>1, <2>4, <2>6 DEF v, p, paid
    <3>2. /\ OnlyLast(generatedPhases)' /\ AtWork(l)' /\ Budget'
          /\ \A m \in Loop : m # l => loop'[m] = loop[m]
      BY <1>1, <2>1, <2>4, <2>6, <2>7, <3>1, FinalizingKeeps
    <3> QED
      BY <1>7, <2>1, <3>2
  <2>8. CASE /\ ~(phasesCounter' <= 0) /\ generatedPhases' = phases /\ mvpGenerated' = mvpGenerated
             /\ loop' = [loop EXCEPT ![l] = Generating(loop[l])]
    <3>1. loop'[l].pc = "gen_issues" /\ \A m \in Loop : m # l => loop'[m] = loop[m]
      BY <1>1, <2>8, Entered
    <3>2. phasesCounter' >= 1
      BY <2>6, <2>8
    <3>3. AllDone(generatedPhases)' /\ OnlyLast(generatedPhases)' /\ Status(generatedPhases)' = "done"
      BY <2>4, <2>8, DoneFacts
    <3>4. AtWork(l)'
      BY <3>1, <3>2, <3>3 DEF AtWork
    <3>5. /\ Bit(mvpGenerated)' = v /\ Bit(pendingUserInputs # {})' = p
          /\ Recharge * Cardinality(accepted)' = paid /\ Len(generatedPhases)' = n
      BY <2>1, <2>4, <2>8 DEF Bit, v, p, paid
    <3>6. Budget'
      BY <2>1, <2>6, <3>2, <3>3, <3>5 DEF Budget
    <3> QED
      BY <1>7, <2>1, <3>1, <3>3, <3>4, <3>6
  <2> QED
    BY <2>2, <2>7, <2>8
<1>14. CASE FinalPhaseImplemented(l)
  <2>1. /\ loop[l].pc = "final" /\ generatedPhases' = Completed(generatedPhases, FinalName)
        /\ loop' = [loop EXCEPT ![l] = Reviewing(loop[l], 0)]
        /\ isGenerating' = isGenerating /\ mvpGenerated' = mvpGenerated
        /\ UNCHANGED <<pendingUserInputs, phasesCounter, conversing, sent, accepted>>
    BY <1>14 DEF FinalPhaseImplemented, history
  <2>2. ~AllDone(generatedPhases) /\ generatedPhases[Len(generatedPhases)].name = FinalName
    BY <1>1, <2>1 DEF AtWork
  <2>3. AllDone(generatedPhases)' /\ Len(generatedPhases)' = n
    BY <1>1, <2>1, <2>2, Finishes DEF n
  <2>4. n >= 1 /\ s = "final"
    BY <1>1, <2>2, OpenFacts DEF n, s
  <2>5. v = 1 /\ mvpGenerated
    BY <1>1, <1>2, <2>4, FinalStatus DEF s
  <2>6. Within(n, "done", v, p, phasesCounter, paid)
    BY <1>2, <1>3, <2>4, <2>5, Accounts
  <2>7. OnlyLast(generatedPhases)' /\ Status(generatedPhases)' = "done"
    BY <2>3, DoneFacts
  <2>8. /\ Reviewing(loop[l], 0).pc \in {"gen_issues", "review", "closing"}
        /\ Reviewing(loop[l], 0).pc = "gen_issues" => pendingUserInputs # {}
    BY <1>1, Reviewed
  <2>9. /\ loop'[l] = Reviewing(loop[l], 0) /\ \A m \in Loop : m # l => loop'[m] = loop[m]
    BY <1>1, <2>1
  <2>10. AtWork(l)'
    BY <1>2, <1>4, <2>1, <2>3, <2>8, <2>9 DEF AtWork
  <2>11. /\ Bit(mvpGenerated)' = v /\ Bit(pendingUserInputs # {})' = p
         /\ Recharge * Cardinality(accepted)' = paid
    BY <2>1 DEF Bit, v, p, paid
  <2>12. Budget'
    BY <1>3, <2>1, <2>3, <2>6, <2>7, <2>11 DEF Budget
  <2> QED
    BY <1>7, <2>1, <2>7, <2>9, <2>10, <2>12
<1>15. CASE ReviewClean(l)
  <2>1. AllDone(generatedPhases)
    BY <1>1, <1>15 DEF ReviewClean, AtWork
  <2> QED
    BY <1>9, <1>15, <2>1 DEF ReviewClean
<1>16. CASE ReviewFoundIssues(l)
  <2> DEFINE rec == [loop[l] EXCEPT !.pc = "fix"]
  <2>1. loop' = [loop EXCEPT ![l] = rec] /\ rec.pc = "fix" /\ AllDone(generatedPhases)
    BY <1>1, <1>16 DEF ReviewFoundIssues, LoopRecord, AtWork
  <2> HIDE DEF rec
  <2> QED
    BY <1>8, <1>16, <2>1 DEF ReviewFoundIssues
<1>17. CASE FixesDeployed(l)
  <2>1. loop[l].cycle + 1 \in Nat /\ AllDone(generatedPhases)
    BY <1>1, <1>17 DEF LoopRecord, FixesDeployed, AtWork
  <2> QED
    BY <1>9, <1>17, <2>1 DEF FixesDeployed
<1>18. CASE StateFailed(l)
  <2>1. Closing(loop[l]).pc = "closing"
    BY <1>1, Entered
  <2> QED
    BY <1>8, <1>18, <2>1 DEF StateFailed
<1>19. CASE GenerationComplete(l)
  <2>1. /\ loop' = [loop EXCEPT ![l] = IdleLoop] /\ mvpGenerated' = mvpGenerated
        /\ UNCHANGED <<generatedPhases, pendingUserInputs, phasesCounter, conversing, sent, accepted>>
    BY <1>19 DEF GenerationComplete, history
  <2>2. \A m \in Loop : loop'[m].pc = "idle"
    BY <1>1, <1>6, <2>1 DEF IdleLoop
  <2>3. Solo' /\ \A m \in Loop : AtWork(m)'
    BY <2>2 DEF Solo, Live, AtWork
  <2>4. OnlyLast(generatedPhases)' /\ RequestsOnce'
    BY <1>1, <2>1 DEF OnlyLast, RequestsOnce
  <2>5. Budget'
    BY <1>1, <2>1 DEF Budget, Status, AllDone
  <2> QED
    BY <2>3, <2>4, <2>5 DEF GenerationInv
<1> QED
  BY <1>10, <1>11, <1>12, <1>13, <1>14, <1>15, <1>16, <1>17, <1>18, <1>19 DEF LoopStep

\* generateAllFiles called, or refused, with the counter and the requests that
\* the handler has just written.
LEMMA StartKeeps ==
  ASSUME TypeOK, TypeOK', OneFinal, Solo, OnlyLast(generatedPhases), \A l \in Loop : AtWork(l),
         NEW l \in Loop, NEW clears \in BOOLEAN, NEW paid \in Nat, mvpGenerated' = mvpGenerated,
         \/ MayStart(pendingUserInputs') /\ GenerateAllFiles(l, clears)
         \/ UNCHANGED <<isGenerating, loop, generatedPhases>>,
         phasesCounter' >= phasesCounter, ~mvpGenerated => phasesCounter' >= 1,
         Within(Len(generatedPhases), Status(generatedPhases), Bit(mvpGenerated),
                Bit(pendingUserInputs' # {}), phasesCounter', paid)
  PROVE  /\ Solo' /\ OnlyLast(generatedPhases)' /\ \A m \in Loop : AtWork(m)'
         /\ Within(Len(generatedPhases'), Status(generatedPhases'), Bit(mvpGenerated'),
                   Bit(pendingUserInputs' # {}), phasesCounter', paid)
<1> DEFINE n == Len(generatedPhases)
<1> DEFINE s == Status(generatedPhases)
<1> DEFINE v == Bit(mvpGenerated)
<1> DEFINE p == Bit(pendingUserInputs' # {})
<1>1. /\ phasesCounter \in Int /\ phasesCounter' \in Int /\ generatedPhases \in Seq(Phase)
      /\ mvpGenerated \in BOOLEAN /\ loop \in [Loop -> LoopRecord]
  BY DEF TypeOK
<1>2. CASE UNCHANGED <<isGenerating, loop, generatedPhases>>
  <2>1. Solo'
    BY <1>2 DEF Solo, Live
  <2>2. OnlyLast(generatedPhases)' /\ Status(generatedPhases') = Status(generatedPhases)
    BY <1>2 DEF OnlyLast
  <2>3. ASSUME NEW m \in Loop PROVE AtWork(m)'
    <3>1. AtWork(m)
      OBVIOUS
    <3>2. loop'[m] = loop[m] /\ generatedPhases' = generatedPhases
      BY <1>2
    <3> QED
      BY <1>1, <3>1, <3>2 DEF AtWork, AllDone
  <2> QED
    BY <1>2, <2>1, <2>2, <2>3
<1>3. CASE MayStart(pendingUserInputs') /\ GenerateAllFiles(l, clears)
  <2>1. /\ isGenerating' /\ \A m \in Loop : m # l => loop'[m] = loop[m]
        /\ \/ /\ generatedPhases' = generatedPhases /\ loop'[l].pc = "impl"
              /\ \E k \in OpenPhases(generatedPhases) : loop'[l].name = generatedPhases[k].name
           \/ /\ generatedPhases' = generatedPhases /\ loop'[l].pc = "gen_issues"
              /\ OpenPhases(generatedPhases) = {}
           \/ /\ generatedPhases = <<>> /\ loop'[l].pc = "impl"
              /\ \E name \in PhaseName, last \in BOOLEAN :
                   /\ generatedPhases' = Append(generatedPhases, NewPhase(name, last))
                   /\ loop'[l].name = name
    BY <1>3, Started
  <2>2. ~isGenerating /\ (mvpGenerated => pendingUserInputs' # {})
    BY <1>3 DEF MayStart
  <2>3. \A m \in Loop : m # l => loop'[m].pc = "idle"
    BY <2>1, <2>2 DEF Solo, Live
  <2>4. Solo'
    BY <2>1, <2>3 DEF Solo, Live
  <2>5. AtWork(l)' => \A m \in Loop : AtWork(m)'
    BY <2>3 DEF AtWork
  <2>6. /\ n \in Nat /\ s \in Statuses /\ v \in {0, 1} /\ p \in {0, 1}
        /\ (~mvpGenerated <=> v = 0) /\ (mvpGenerated <=> v = 1) /\ (pendingUserInputs' # {} <=> p = 1)
    <3>1. n \in Nat
      BY <1>1, LenProperties
    <3>2. s \in Statuses
      BY DEF Status, Statuses
    <3> QED
      BY <1>1, <3>1, <3>2 DEF Bit
  <2>7. Within(n, s, v, p, phasesCounter', paid) /\ v = Bit(mvpGenerated')
    OBVIOUS
  <2>8. DOMAIN generatedPhases = 1 .. n
    BY <1>1, LenProperties
  <2>9. phasesCounter' >= 1
    <3> HIDE DEF n, s, v, p
    <3>1. p = 1 => phasesCounter' >= 1
      BY <1>1, <2>6, <2>7, Accounts
    <3> QED
      BY <1>1, <2>2, <2>6, <3>1
  <2>10. CASE /\ generatedPhases' = generatedPhases /\ loop'[l].pc = "impl"
              /\ \E k \in OpenPhases(generatedPhases) : loop'[l].name = generatedPhases[k].name
    <3>1. PICK k \in OpenPhases(generatedPhases) : loop'[l].name = generatedPhases[k].name
      BY <2>10
    <3>2. k \in 1 .. n /\ ~generatedPhases[k].completed
      BY <2>8 DEF OpenPhases
    <3>3. k = n /\ ~AllDone(generatedPhases)
      BY <3>2 DEF OnlyLast, AllDone
    <3>4. ~AllDone(generatedPhases)' /\ loop'[l].name = generatedPhases'[Len(generatedPhases')].name
      BY <2>10, <3>1, <3>3
    <3>5. AtWork(l)'
      BY <2>9, <2>10, <3>4 DEF AtWork
    <3>6. OnlyLast(generatedPhases)'
      BY <2>10 DEF OnlyLast
    <3> QED
      BY <2>4, <2>5, <2>7, <2>10, <3>5, <3>6
  <2>11. CASE /\ generatedPhases' = generatedPhases /\ loop'[l].pc = "gen_issues"
              /\ OpenPhases(generatedPhases) = {}
    <3>1. AllDone(generatedPhases)
      BY <2>8, <2>11 DEF OpenPhases, AllDone
    <3>2. AllDone(generatedPhases)' /\ OnlyLast(generatedPhases)'
      BY <2>11, <3>1, DoneFacts
    <3>3. AtWork(l)'
      BY <2>9, <2>11, <3>2 DEF AtWork
    <3> QED
      BY <2>4, <2>5, <2>7, <2>11, <3>2, <3>3
  <2>12. CASE /\ generatedPhases = <<>> /\ loop'[l].pc = "impl"
              /\ \E name \in PhaseName, last \in BOOLEAN :
                   /\ generatedPhases' = Append(generatedPhases, NewPhase(name, last))
                   /\ loop'[l].name = name
    <3>1. PICK name \in PhaseName, last \in BOOLEAN :
                 /\ generatedPhases' = Append(generatedPhases, NewPhase(name, last))
                 /\ loop'[l].name = name
      BY <2>12
    <3> DEFINE phase == NewPhase(name, last)
    <3>2. name \in Names /\ name # FinalName
      BY NamesAssumption DEF Names
    <3>3. phase \in Phase /\ phase.name = name /\ ~phase.completed
      BY <3>2, NewPhaseFacts
    <3>4. generatedPhases' = Append(generatedPhases, phase)
      BY <3>1
    <3> HIDE DEF phase
    <3>5. n = 0 /\ AllDone(generatedPhases)
      BY <2>12 DEF AllDone
    <3>6. s = "done"
      BY <3>5, DoneFacts
    <3>7. /\ Len(generatedPhases') = n + 1 /\ OnlyLast(generatedPhases)' /\ ~AllDone(generatedPhases)'
          /\ generatedPhases'[Len(generatedPhases')].name = name /\ Status(generatedPhases') = "work"
      BY <1>1, <3>2, <3>3, <3>4, <3>5, Appended
    <3>8. AtWork(l)'
      BY <2>9, <2>12, <3>1, <3>7 DEF AtWork
    <3>9. Within(n + 1, "work", v, p, phasesCounter', paid)
      <4>1. \A b \in {0, 1}, q \in {0, 1}, c \in Int, t \in Nat :
              Within(0, "done", b, q, c, t) /\ c >= 1 => Within(1, "work", b, q, c, t)
        BY CountersAssumption DEF Within
      <4> HIDE DEF n, s, v, p
      <4>2. n + 1 = 1 /\ Within(0, "done", v, p, phasesCounter', paid)
        BY <2>7, <3>5, <3>6
      <4> QED
        BY <1>1, <2>6, <2>9, <4>1, <4>2
    <3> QED
      BY <2>4, <2>5, <2>7, <3>7, <3>8, <3>9
  <2> QED
    BY <2>1, <2>10, <2>11, <2>12
<1> QED
  BY <1>2, <1>3

\* A message, a request or an eviction, when nobody stops the generation.
LEMMA OthersKeep ==
  ASSUME GenerationInv, "stop" \notin Faults, Message \/ InputStep \/ Evict \/ UNCHANGED vars,
         TypeOK', OneFinal'
  PROVE  GenerationInv'
<1> DEFINE paid == Recharge * Cardinality(accepted)
<1> USE CountersAssumption
<1>1. /\ TypeOK /\ OneFinal /\ Solo /\ OnlyLast(generatedPhases) /\ (\A l \in Loop : AtWork(l))
      /\ RequestsOnce /\ Budget /\ phasesCounter \in Int /\ mvpGenerated \in BOOLEAN
  BY DEF GenerationInv, TypeOK
<1>2. /\ Len(generatedPhases) \in Nat /\ Status(generatedPhases) \in Statuses
      /\ Bit(mvpGenerated) \in {0, 1} /\ Bit(pendingUserInputs # {}) \in {0, 1} /\ paid \in Nat
      /\ Cardinality(accepted) \in Nat
  BY <1>1, BudgetTyped
<1>3. /\ Within(Len(generatedPhases), Status(generatedPhases), Bit(mvpGenerated),
                Bit(pendingUserInputs # {}), phasesCounter, paid)
      /\ ~mvpGenerated => phasesCounter >= 1
  BY <1>1 DEF Budget
<1>4. TRUE \in BOOLEAN /\ FALSE \in BOOLEAN
  OBVIOUS
<1> HIDE DEF paid
<1>5. ASSUME NEW l \in Loop, NEW clears \in BOOLEAN, mvpGenerated' = mvpGenerated,
             UNCHANGED <<pendingUserInputs, phasesCounter, conversing, sent, accepted>>,
             \/ MayStart(pendingUserInputs) /\ GenerateAllFiles(l, clears)
             \/ UNCHANGED <<isGenerating, loop, generatedPhases>>
      PROVE  GenerationInv'
  <2>1. \/ MayStart(pendingUserInputs') /\ GenerateAllFiles(l, clears)
        \/ UNCHANGED <<isGenerating, loop, generatedPhases>>
    BY <1>5
  <2>2. phasesCounter' >= phasesCounter /\ (~mvpGenerated => phasesCounter' >= 1)
    BY <1>1, <1>3, <1>5
  <2>3. Within(Len(generatedPhases), Status(generatedPhases), Bit(mvpGenerated),
               Bit(pendingUserInputs' # {}), phasesCounter', paid)
    BY <1>3, <1>5
  <2>4. /\ Solo' /\ OnlyLast(generatedPhases)' /\ \A m \in Loop : AtWork(m)'
        /\ Within(Len(generatedPhases'), Status(generatedPhases'), Bit(mvpGenerated'),
                  Bit(pendingUserInputs' # {}), phasesCounter', paid)
    BY <1>1, <1>2, <1>5, <2>1, <2>2, <2>3, StartKeeps
  <2>5. Budget'
    BY <1>5, <2>2, <2>4 DEF Budget, paid
  <2>6. RequestsOnce'
    BY <1>1, <1>5 DEF RequestsOnce
  <2> QED
    BY <2>4, <2>5, <2>6 DEF GenerationInv
<1>6. ASSUME NEW l \in Loop, GenerateAllMessage(l) PROVE GenerationInv'
  <2>1. mvpGenerated' = mvpGenerated /\ UNCHANGED <<pendingUserInputs, phasesCounter, conversing, sent, accepted>>
    BY <1>6 DEF GenerateAllMessage, history
  <2>2. \/ MayStart(pendingUserInputs) /\ GenerateAllFiles(l, TRUE)
        \/ UNCHANGED <<isGenerating, loop, generatedPhases>>
    BY <1>6 DEF GenerateAllMessage
  <2> QED
    BY <1>4, <1>5, <2>1, <2>2
<1>7. ASSUME NEW l \in Loop, ResumeMessage(l) PROVE GenerationInv'
  <2>1. mvpGenerated' = mvpGenerated /\ UNCHANGED <<pendingUserInputs, phasesCounter, conversing, sent, accepted>>
    BY <1>7 DEF ResumeMessage, history
  <2>2. \/ MayStart(pendingUserInputs) /\ GenerateAllFiles(l, FALSE)
        \/ UNCHANGED <<isGenerating, loop, generatedPhases>>
    BY <1>7 DEF ResumeMessage
  <2> QED
    BY <1>4, <1>5, <2>1, <2>2
<1>8. ~StopMessage
  BY DEF StopMessage
<1>9. ASSUME NEW m \in Input, UserSuggestion(m) PROVE GenerationInv'
  <2>1. /\ m \notin sent /\ sent' = sent \cup {m} /\ conversing' = conversing \cup {m}
        /\ UNCHANGED <<generatedPhases, pendingUserInputs, phasesCounter, loop, accepted>>
        /\ mvpGenerated' = mvpGenerated /\ isGenerating' = isGenerating
    BY <1>9 DEF UserSuggestion, persisted
  <2>2. RequestsOnce'
    BY <1>1, <2>1 DEF RequestsOnce
  <2>3. Solo' /\ OnlyLast(generatedPhases)'
    BY <1>1, <2>1 DEF Solo, Live, OnlyLast
  <2>4. \A l \in Loop : AtWork(l)'
    BY <1>1, <2>1 DEF AtWork, AllDone
  <2>5. Budget'
    BY <1>1, <2>1 DEF Budget, Status, AllDone
  <2> QED
    BY <2>2, <2>3, <2>4, <2>5 DEF GenerationInv
<1>10. ASSUME NEW m \in Input, NEW l \in Loop, UserInputAccepted(m, l) PROVE GenerationInv'
  <2>1. /\ m \in conversing /\ conversing' = conversing \ {m} /\ accepted' = accepted \cup {m}
        /\ phasesCounter' = IF phasesCounter <= Recharge THEN Recharge ELSE phasesCounter
        /\ pendingUserInputs' = pendingUserInputs \cup {m} /\ UNCHANGED sent
        /\ mvpGenerated' = mvpGenerated
    BY <1>10 DEF UserInputAccepted
  <2>2. \/ MayStart(pendingUserInputs') /\ GenerateAllFiles(l, FALSE)
        \/ UNCHANGED <<isGenerating, loop, generatedPhases>>
    BY <1>10 DEF UserInputAccepted
  <2>3. RequestsOnce' /\ m \notin accepted /\ IsFiniteSet(accepted)
    BY <1>1, <2>1, FS_AddElement DEF RequestsOnce
  <2>4. Cardinality(accepted') = Cardinality(accepted) + 1
    BY <2>1, <2>3, FS_AddElement
  <2>5. paid + Recharge \in Nat
    BY <1>2
  <2>6. \A a, b \in Nat : a * (b + 1) = a * b + a
    OBVIOUS
  <2>7. Recharge * Cardinality(accepted') = paid + Recharge
    BY <1>2, <2>4, <2>6 DEF paid
  <2>8. Within(Len(generatedPhases), Status(generatedPhases), Bit(mvpGenerated), 1,
               IF phasesCounter <= Recharge THEN Recharge ELSE phasesCounter, paid + Recharge)
    BY <1>1, <1>2, <1>3, Accounts
  <2>9. Bit(pendingUserInputs' # {}) = 1
    BY <2>1 DEF Bit
  <2>10. Within(Len(generatedPhases), Status(generatedPhases), Bit(mvpGenerated),
                Bit(pendingUserInputs' # {}), phasesCounter', paid + Recharge)
    BY <2>1, <2>8, <2>9
  <2>11. phasesCounter' >= phasesCounter /\ phasesCounter' >= 1
    BY <1>1, <2>1
  <2>12. /\ Solo' /\ OnlyLast(generatedPhases)' /\ \A k \in Loop : AtWork(k)'
         /\ Within(Len(generatedPhases'), Status(generatedPhases'), Bit(mvpGenerated'),
                   Bit(pendingUserInputs' # {}), phasesCounter', paid + Recharge)
    BY <1>1, <1>4, <2>1, <2>2, <2>5, <2>10, <2>11, StartKeeps
  <2>13. Budget'
    BY <2>7, <2>11, <2>12 DEF Budget
  <2> QED
    BY <2>3, <2>12, <2>13 DEF GenerationInv
<1>11. CASE Evict
  <2>1. /\ loop' = [l \in Loop |-> IdleLoop] /\ conversing' = {} /\ mvpGenerated' = mvpGenerated
        /\ UNCHANGED <<generatedPhases, pendingUserInputs, phasesCounter, sent, accepted>>
    BY <1>11 DEF Evict, persisted, history
  <2>2. \A l \in Loop : loop'[l].pc = "idle"
    BY <2>1 DEF IdleLoop
  <2>3. Solo' /\ \A l \in Loop : AtWork(l)'
    BY <2>2 DEF Solo, Live, AtWork
  <2>4. OnlyLast(generatedPhases)' /\ RequestsOnce'
    BY <1>1, <2>1 DEF OnlyLast, RequestsOnce
  <2>5. Budget'
    BY <1>1, <2>1 DEF Budget, Status, AllDone
  <2> QED
    BY <2>3, <2>4, <2>5 DEF GenerationInv
<1>12. CASE UNCHANGED vars
  <2>1. /\ UNCHANGED <<generatedPhases, pendingUserInputs, phasesCounter, loop, conversing, sent, accepted>>
        /\ mvpGenerated' = mvpGenerated /\ isGenerating' = isGenerating
    BY <1>12 DEF vars, persisted, history
  <2>2. Solo' /\ OnlyLast(generatedPhases)' /\ RequestsOnce'
    BY <1>1, <2>1 DEF Solo, Live, OnlyLast, RequestsOnce
  <2>3. \A l \in Loop : AtWork(l)'
    BY <1>1, <2>1 DEF AtWork, AllDone
  <2>4. Budget'
    BY <1>1, <2>1 DEF Budget, Status, AllDone
  <2> QED
    BY <2>2, <2>3, <2>4 DEF GenerationInv
<1> QED
  BY <1>6, <1>7, <1>8, <1>9, <1>10, <1>11, <1>12 DEF Message, InputStep

\* A new project has its whole budget.
LEMMA InitiallyWithin == Init => GenerationInv
<1> SUFFICES ASSUME Init PROVE GenerationInv
  OBVIOUS
<1> USE CountersAssumption
<1>1. TypeOK /\ OneFinal
  BY InitiallyTyped
<1>2. /\ generatedPhases = <<>> /\ pendingUserInputs = {} /\ phasesCounter = MAX_PHASES
      /\ loop = [l \in Loop |-> IdleLoop] /\ conversing = {} /\ sent = {} /\ accepted = {}
  BY DEF Init
<1>3. ~mvpGenerated
  BY Zenon DEF Init
<1>4. Solo /\ \A l \in Loop : AtWork(l)
  BY <1>2 DEF Solo, Live, AtWork, IdleLoop
<1>5. AllDone(generatedPhases) /\ Len(generatedPhases) = 0
  BY <1>2 DEF AllDone
<1>6. OnlyLast(generatedPhases) /\ Status(generatedPhases) = "done"
  BY <1>5, DoneFacts
<1>7. RequestsOnce /\ Recharge * Cardinality(accepted) = 0
  BY <1>2, FS_EmptySet DEF RequestsOnce
<1>8. Bit(mvpGenerated) = 0 /\ Bit(pendingUserInputs # {}) = 0
  BY <1>2, <1>3 DEF Bit
<1>9. Within(0, "done", 0, 0, MAX_PHASES, 0)
  BY DEF Within
<1>10. Budget
  BY <1>2, <1>5, <1>6, <1>7, <1>8, <1>9 DEF Budget
<1> QED
  BY <1>1, <1>4, <1>6, <1>7, <1>10 DEF GenerationInv

\* The invariant of the machine when nobody stops it.
LEMMA AlwaysWithin ==
  ASSUME "stop" \notin Faults
  PROVE  Spec => []GenerationInv
<1>1. GenerationInv /\ [Next]_vars => GenerationInv'
  <2> SUFFICES ASSUME GenerationInv, [Next]_vars PROVE GenerationInv'
    OBVIOUS
  <2>1. TypeOK' /\ OneFinal'
    BY AnyStep DEF GenerationInv
  <2> QED
    BY <2>1, LoopKeeps, OthersKeep DEF Next
<1> QED
  BY <1>1, InitiallyWithin, PTL DEF Spec

\* Unless STOP_GENERATION is used, no two generateAllFiles run at once.
THEOREM LoopsNeverOverlap ==
  ASSUME "stop" \notin Faults
  PROVE  Spec => []NoDuplicateLoops
<1>1. GenerationInv => NoDuplicateLoops
  BY DEF GenerationInv, Solo, NoDuplicateLoops
<1> QED
  BY <1>1, AlwaysWithin, PTL

\* Unless STOP_GENERATION is used, only the last phase can be open, across any
\* sequence of errors, evictions and restarts: resuming it loses nothing.
THEOREM ResumeLosesNothing ==
  ASSUME "stop" \notin Faults
  PROVE  Spec => []OnlyLastPhaseOpen
<1>1. GenerationInv => OnlyLastPhaseOpen
  <2> SUFFICES ASSUME GenerationInv PROVE OnlyLastPhaseOpen
    OBVIOUS
  <2>1. DOMAIN generatedPhases = 1 .. Len(generatedPhases)
    BY LenProperties DEF GenerationInv, TypeOK
  <2> QED
    BY <2>1 DEF GenerationInv, OnlyLast, OnlyLastPhaseOpen, OpenPhases
<1> QED
  BY <1>1, AlwaysWithin, PTL

\* Unless STOP_GENERATION is used, phasesCounter never falls below zero and a
\* pending request keeps Recharge - 2 phases.
THEOREM BudgetKept ==
  ASSUME "stop" \notin Faults
  PROVE  Spec => []PhaseBudget
<1>1. GenerationInv => PhaseBudget
  <2> SUFFICES ASSUME GenerationInv PROVE PhaseBudget
    OBVIOUS
  <2> QED
    BY BudgetTyped, Accounts DEF GenerationInv, Budget, PhaseBudget
<1> QED
  BY <1>1, AlwaysWithin, PTL

\* Unless STOP_GENERATION is used, the project has no more phases than the
\* blueprint's budget, one finalization, and what each request paid for.
THEOREM PhasesPaidFor ==
  ASSUME "stop" \notin Faults
  PROVE  Spec => []PhasesBounded
<1>1. GenerationInv => PhasesBounded
  <2> SUFFICES ASSUME GenerationInv PROVE PhasesBounded
    OBVIOUS
  <2> QED
    BY BudgetTyped, Accounts DEF GenerationInv, Budget, PhasesBounded
<1> QED
  BY <1>1, AlwaysWithin, PTL
=============================================================================
