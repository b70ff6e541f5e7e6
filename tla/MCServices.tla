----------------------------- MODULE MCServices -----------------------------
(***************************************************************************)
(* Small instances, for TLC, of the components that keep no state in       *)
(* common: the issues and the conversation of the agent, its setup         *)
(* commands, the files it makes of an answer, the sandbox client, the log  *)
(* of a process, the sessions and the chat page.  A behaviour is about one *)
(* of them, the subject, picked at the start; the others stay in their     *)
(* initial state.                                                          *)
(***************************************************************************)
EXTENDS Issues, Conversation, Commands, Sandbox, Sessions, ChatClient, FileStream, ProcessLog

VARIABLE subject

Subject == {"issues", "conversation", "commands", "sandbox", "sessions", "chat", "stream", "log"}

servicesVars == <<subject, issuesVars, conversationVars, commandVars, sandboxVars, sessionVars,
                  chatVars, streamVars, logVars>>

ServicesInit ==
    /\ subject \in Subject
    /\ IssuesInit /\ (subject # "issues" => \A r \in Reader : reader[r].kind = "plan")
    /\ ConversationInit
    /\ CommandsInit
    /\ SandboxInit /\ (subject # "sandbox" => template = None)
    /\ SessionsInit
    /\ ChatInit
    /\ StreamInit
    /\ ProcessLogInit

(* A step of the component `s', the variables `others' of the other components being left alone. *)
About(s, Next, others) == subject = s /\ Next /\ UNCHANGED <<subject, others>>

ServicesNext ==
    \/ About("issues", IssuesNext,
             <<conversationVars, commandVars, sandboxVars, sessionVars, chatVars, streamVars, logVars>>)
    \/ About("conversation", ConversationNext,
             <<issuesVars, commandVars, sandboxVars, sessionVars, chatVars, streamVars, logVars>>)
    \/ About("commands", CommandsNext,
             <<issuesVars, conversationVars, sandboxVars, sessionVars, chatVars, streamVars, logVars>>)
    \/ About("sandbox", SandboxNext,
             <<issuesVars, conversationVars, commandVars, sessionVars, chatVars, streamVars, logVars>>)
    \/ About("sessions", SessionsNext,
             <<issuesVars, conversationVars, commandVars, sandboxVars, chatVars, streamVars, logVars>>)
    \/ About("chat", ChatNext,
             <<issuesVars, conversationVars, commandVars, sandboxVars, sessionVars, streamVars, logVars>>)
    \/ About("stream", StreamNext,
             <<issuesVars, conversationVars, commandVars, sandboxVars, sessionVars, chatVars, logVars>>)
    \/ About("log", ProcessLogNext,
             <<issuesVars, conversationVars, commandVars, sandboxVars, sessionVars, chatVars, streamVars>>)

(* CommandsFairness and SandboxFairness, asked of the behaviours that are about them. *)
ServicesFairness ==
    /\ \A r \in CommandRun : WF_commandVars(subject = "commands" /\ RunStep(r))
    /\ \A c \in Create : WF_sandboxVars(subject = "sandbox" /\ (TemplateStep(c) \/ CreateStep(c)))

ServicesSpec == ServicesInit /\ [][ServicesNext]_servicesVars /\ ServicesFairness

\* Every component stays within its types: each operation of the issues, the
\* conversation, the commands, the answers, the sandbox, the log, the sessions and the
\* chat page leaves the records the next one expects.
ServicesTypeOK ==
    /\ subject \in Subject
    /\ IssuesTypeOK
    /\ ConversationTypeOK
    /\ CommandsTypeOK
    /\ SandboxTypeOK
    /\ SessionsTypeOK
    /\ ChatTypeOK
    /\ StreamTypeOK
    /\ ProcessLogTypeOK

\* CreatesAnswer, of the behaviours that are about the sandbox.
CreatesAnswered == subject = "sandbox" => CreatesAnswer
=============================================================================
