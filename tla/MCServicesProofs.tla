-------------------------- MODULE MCServicesProofs --------------------------
(***************************************************************************)
(* What is proved of each component holds of the components put together:  *)
(* a step of MCServices is a step of the component it is about and leaves  *)
(* the others alone, so that every behaviour of the composition is one of  *)
(* each component's specification.                                         *)
(***************************************************************************)
EXTENDS MCServices, IssuesProofs, SandboxProofs, ServicesProofs, FileStreamProofs

\* A behaviour of the composition is one of every component: what it does is a step
\* of that component or leaves its state as it is.
THEOREM ServicesImplementComponents ==
  ServicesSpec => /\ IssuesSpec /\ ConversationSpec /\ CommandsSpec /\ SandboxSpec
                  /\ SessionsSpec /\ ChatSpec /\ StreamSpec /\ ProcessLogSpec
<1>1. ServicesInit => /\ IssuesInit /\ ConversationInit /\ CommandsInit /\ SandboxInit
                      /\ SessionsInit /\ ChatInit /\ StreamInit /\ ProcessLogInit
  BY DEF ServicesInit
<1>2. [ServicesNext]_servicesVars =>
        /\ [IssuesNext]_issuesVars /\ [ConversationNext]_conversationVars
        /\ [CommandsNext]_commandVars /\ [SandboxNext]_sandboxVars
        /\ [SessionsNext]_sessionVars /\ [ChatNext]_chatVars
        /\ [StreamNext]_streamVars /\ [ProcessLogNext]_logVars
  BY Zenon DEF ServicesNext, About, servicesVars
<1> QED
  BY <1>1, <1>2, PTL DEF ServicesSpec, IssuesSpec, ConversationSpec, CommandsSpec, SandboxSpec,
                         SessionsSpec, ChatSpec, StreamSpec, ProcessLogSpec

\* Whichever component a behaviour is about, all of them stay within their types,
\* for any number of their actors and any of their bounds.
THEOREM ServicesTypesCorrect == ServicesSpec => []ServicesTypeOK
<1>1. ServicesInit => subject \in Subject
  BY DEF ServicesInit
<1>2. subject \in Subject /\ [ServicesNext]_servicesVars => (subject \in Subject)'
  BY Zenon DEF ServicesNext, About, servicesVars
<1>3. ServicesSpec => [](subject \in Subject)
  BY <1>1, <1>2, PTL DEF ServicesSpec
<1>4. /\ subject \in Subject /\ IssuesTypeOK /\ ConversationTypeOK /\ CommandsTypeOK
      /\ SandboxTypeOK /\ SessionsTypeOK /\ ChatTypeOK /\ StreamTypeOK /\ ProcessLogTypeOK
      => ServicesTypeOK
  BY DEF ServicesTypeOK
<1> QED
  BY <1>3, <1>4, ServicesImplementComponents, IssuesTypeCorrect, ConversationTypeCorrect,
     CommandsTypeCorrect, SandboxTypeCorrect, SessionsTypeCorrect, ChatTypeCorrect,
     StreamTypeCorrect, ProcessLogTypeCorrect, PTL

\* Every safety property that the services run checks, the one about the clean-up
\* of sessions being about steps, holds of the composition for every value of the
\* constants.
THEOREM ServicesSafe ==
  ServicesSpec => /\ [](ErrorsAccounted /\ AnswersInContext /\ LostOnlyByOverlap /\ HistoryInstalled)
                  /\ [](CreatedComplete /\ PreviewShowsOwnApp /\ NoFalseAlarm)
                  /\ [](SessionsLimited /\ RetriesBounded /\ NeverStranded /\ OnlyOwnSocket)
                  /\ [](AnswerAsWritten /\ LogLinesAccounted /\ LockGivenBack)
                  /\ MostRecentKept
<1>1. ServicesSpec => [](ErrorsAccounted /\ AnswersInContext /\ LostOnlyByOverlap /\ HistoryInstalled)
  BY ServicesImplementComponents, NoErrorLost, AnswersStayInContext, ConversationKept,
     HistoryReplayed, PTL
<1>2. ServicesSpec => [](CreatedComplete /\ PreviewShowsOwnApp /\ NoFalseAlarm)
  BY ServicesImplementComponents, InstancesComplete, PreviewsSeparate, StatusReliable, PTL
<1>3. ServicesSpec => [](SessionsLimited /\ RetriesBounded /\ NeverStranded /\ OnlyOwnSocket)
  BY ServicesImplementComponents, SessionsStayLimited, RetriesStayBounded, PageNeverStranded,
     SocketsCleanedUp, PTL
<1>4. ServicesSpec => [](AnswerAsWritten /\ LogLinesAccounted /\ LockGivenBack)
  BY ServicesImplementComponents, AnswersSaved, NoLineLost, LockReturned, PTL
<1>5. ServicesSpec => MostRecentKept
  BY ServicesImplementComponents, RecentSessionsKept, PTL
<1> QED
  BY <1>1, <1>2, <1>3, <1>4, <1>5, PTL
=============================================================================
