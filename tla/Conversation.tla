---------------------------- MODULE Conversation ----------------------------
(***************************************************************************)
(* The conversation kept in the agent's state (conversationMessages).      *)
(* handleUserInput hands the list it finds to UserConversationProcessor    *)
(* and, when the model has answered, replaces the list by that snapshot    *)
(* followed by the user's message and the answer.  Meanwhile broadcast     *)
(* appends internal memos, other turns come and go, and                    *)
(* migrateStateIfNeeded tidies the list.                                   *)
(*                                                                         *)
(* A message is its conversationId, whose time stamp grows with every id   *)
(* generated, its role, the turn it belongs to (0 for a memo) and whether  *)
(* its text contains one of the texts by which the tidying tells a memo,   *)
(* as what a user or the model writes may: an answer that repeats a memo   *)
(* it was given, a user who asks about "Project Updates:".                 *)
(***************************************************************************)
EXTENDS Integers, Sequences, SequencesExt, FiniteSets

CONSTANTS
    Turn,                       \* calls of handleUserInput
    Quoting,                    \* those whose message contains the text of a memo
    MIN_MESSAGES_FOR_CLEANUP,
    MaxMemos                    \* bound: memos in a behaviour

ASSUME ConversationAssumption ==
    IsFiniteSet(Turn) /\ 0 \notin Turn /\ Quoting \subseteq Turn
    /\ MIN_MESSAGES_FOR_CLEANUP \in Nat /\ MaxMemos \in Nat

VARIABLES
    conversationMessages,
    turn,
    ids,            \* conversation ids generated so far
    memos,          \* memos so far, for the bound MaxMemos
    said,           \* history: messages that have been in the list
    exposed         \* history: those that entered it while another turn was being
                    \* answered, and those a cleanup removed for memos

conversationVars == <<conversationMessages, turn, ids, memos, said, exposed>>

-----------------------------------------------------------------------------
Message == [id : Nat, role : {"user", "assistant"}, turn : Turn \cup {0}, memoText : BOOLEAN]
Memo(id) == [id |-> id, role |-> "assistant", turn |-> 0, memoText |-> TRUE]

\* The user's message and the answer, which quotes a memo or does not.
Exchange(t, asked, answered, quotes) ==
    <<[id |-> asked, role |-> "user", turn |-> t, memoText |-> t \in Quoting],
      [id |-> answered, role |-> "assistant", turn |-> t, memoText |-> quotes]>>

\* past is the list the model is given; asked the id of the user's message.
TurnRecord == [pc : {"idle", "asking", "answered", "lost"}, asked : Nat, past : Seq(Message)]

ConversationInit ==
    /\ conversationMessages = <<>>
    /\ turn = [t \in Turn |-> [pc |-> "idle", asked |-> 0, past |-> <<>>]]
    /\ ids = 0 /\ memos = 0
    /\ said = {} /\ exposed = {}

Asking == {t \in Turn : turn[t].pc = "asking"}

\* The messages M enter the list while the turns in T go on.
Enter(M, T) ==
    /\ said' = said \cup M
    /\ exposed' = IF T = {} THEN exposed ELSE exposed \cup M

-----------------------------------------------------------------------------
\* handleUserInput up to the model call, for which an id is taken as well.
HandleUserInput(t) ==
    /\ turn[t].pc = "idle"
    /\ turn' = [turn EXCEPT ![t] = [pc |-> "asking", asked |-> ids + 1, past |-> conversationMessages]]
    /\ ids' = ids + 2
    /\ UNCHANGED <<conversationMessages, memos, said, exposed>>

\* Mutant of Answered: the exchange is added to the list as it is now.
AnsweredInPlace(t) ==
    /\ turn[t].pc = "asking"
    /\ \E quotes \in BOOLEAN : LET exchange == Exchange(t, turn[t].asked, ids + 1, quotes) IN
       /\ conversationMessages' = conversationMessages \o exchange
       /\ Enter(Range(exchange), Asking \ {t})
    /\ turn' = [turn EXCEPT ![t].pc = "answered"]
    /\ ids' = ids + 1
    /\ UNCHANGED memos

\* The model has answered: the list is replaced.
Answered(t) ==
    /\ turn[t].pc = "asking"
    /\ \E quotes \in BOOLEAN : LET exchange == Exchange(t, turn[t].asked, ids + 1, quotes) IN
       /\ conversationMessages' = turn[t].past \o exchange
       /\ Enter(Range(exchange), Asking \ {t})
    /\ turn' = [turn EXCEPT ![t].pc = "answered"]
    /\ ids' = ids + 1
    /\ UNCHANGED memos

\* Mutant of AnswerFailed: the fallback forgets the past.
AnswerFailedForgetting(t) ==
    /\ turn[t].pc = "asking"
    /\ LET exchange == Exchange(t, ids + 1, ids + 2, FALSE) IN
       /\ conversationMessages' = exchange
       /\ Enter(Range(exchange), Asking \ {t})
    /\ turn' = [turn EXCEPT ![t].pc = "answered", ![t].asked = ids + 1]
    /\ ids' = ids + 2
    /\ UNCHANGED memos

\* The model call has failed: a fallback answer, and new ids for both messages.
AnswerFailed(t) ==
    /\ turn[t].pc = "asking"
    /\ LET exchange == Exchange(t, ids + 1, ids + 2, FALSE) IN
       /\ conversationMessages' = turn[t].past \o exchange
       /\ Enter(Range(exchange), Asking \ {t})
    /\ turn' = [turn EXCEPT ![t] = [pc |-> "answered", asked |-> ids + 1, past |-> turn[t].past]]
    /\ ids' = ids + 2
    /\ UNCHANGED memos

\* broadcast of a project update.
Broadcast ==
    /\ memos < MaxMemos
    /\ memos' = memos + 1
    /\ ids' = ids + 1
    /\ conversationMessages' = Append(conversationMessages, Memo(ids + 1))
    /\ Enter({Memo(ids + 1)}, Asking)
    /\ UNCHANGED turn

\* The list without duplicates, without what reads like a memo when it is long all
\* the same, and in the order of the ids.
Tidied ==
    LET unique == Range(conversationMessages)
        kept == IF Cardinality(unique) > MIN_MESSAGES_FOR_CLEANUP
                THEN {m \in unique : ~m.memoText} ELSE unique
    IN  [k \in 1 .. Cardinality(kept) |->
           CHOOSE m \in kept : Cardinality({n \in kept : n.id < m.id}) = k - 1]

\* getSummary or getFullState: the tidied list is stored when it is shorter.
MigrateStateIfNeeded ==
    /\ Len(Tidied) # Len(conversationMessages)
    /\ conversationMessages' = Tidied
    /\ exposed' = exposed \cup {m \in Range(conversationMessages) \ Range(Tidied) : m.memoText}
    /\ UNCHANGED <<turn, ids, memos, said>>

\* The Durable Object is evicted: the turns being answered are gone, the list
\* is kept.
EvictTurns ==
    /\ Asking # {}
    /\ turn' = [t \in Turn |-> IF t \in Asking THEN [turn[t] EXCEPT !.pc = "lost"] ELSE turn[t]]
    /\ UNCHANGED <<conversationMessages, ids, memos, said, exposed>>

ConversationNext ==
    \/ \E t \in Turn : HandleUserInput(t) \/ Answered(t) \/ AnswerFailed(t)
    \/ Broadcast
    \/ MigrateStateIfNeeded
    \/ EvictTurns

ConversationSpec == ConversationInit /\ [][ConversationNext]_conversationVars

-----------------------------------------------------------------------------
(* Properties.                                                             *)

ConversationTypeOK ==
    /\ conversationMessages \in Seq(Message)
    /\ turn \in [Turn -> TurnRecord]
    /\ ids \in Nat /\ memos \in 0 .. MaxMemos
    /\ said \subseteq Message /\ exposed \subseteq Message

\* The messages of a list that a clean-up leaves there.
Dialogue(s) == {m \in Range(s) : ~m.memoText}

InOrder(s) == \A i, j \in DOMAIN s : i < j => s[i].id < s[j].id

\* The user message s[i] has its answer right behind it.
AnsweredBehind(s, i) ==
    i < Len(s) /\ s[i + 1].role = "assistant" /\ s[i + 1].turn = s[i].turn

\* The answer to message m was given and reads like a memo.
AnswerQuotes(m) == \E o \in said : o.role = "assistant" /\ o.turn = m.turn /\ o.memoText

\* Whatever has overwritten whatever, the list is in the order in which its
\* messages were written, every user message in it has its answer right behind
\* it, unless a clean-up could take that answer for a memo, and the
\* conversation before it is the one the model was given when it wrote that
\* answer, what reads like a memo excepted.
AnswersInContext ==
    /\ InOrder(conversationMessages)
    /\ \A i \in DOMAIN conversationMessages :
        LET m == conversationMessages[i] IN
        m.role = "user" =>
            /\ AnsweredBehind(conversationMessages, i) \/ AnswerQuotes(m)
            /\ Dialogue(SubSeq(conversationMessages, 1, i - 1)) = Dialogue(turn[m.turn].past)

\* A message gets lost only by overlap or by its text: one that entered the list
\* while no other turn was being answered stays there, unless a clean-up took it
\* for a memo.
LostOnlyByOverlap == said \subseteq Range(conversationMessages) \cup exposed
=============================================================================
