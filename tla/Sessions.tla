------------------------------ MODULE Sessions ------------------------------
(***************************************************************************)
(* The login sessions of one user (sessionService.ts).  A login first      *)
(* deletes the sessions beyond the maxSessions most recently used, one by  *)
(* one from a list it has read, and then inserts its own; logins on        *)
(* several devices, refreshes and revocations run at the same time on the  *)
(* same table.  Tokens and request metadata are left out, and so are the   *)
(* operations nothing calls (validateSession, revokeAllUserSessions, the   *)
(* clean-up service).                                                      *)
(***************************************************************************)
EXTENDS Integers, Sequences, SequencesExt, FiniteSets

CONSTANTS
    Login,          \* requests that may be logging the user in at a time
    Refresh,        \* requests that may be refreshing a session at a time
    maxSessions,    \* config.maxSessions
    MaxLogins,      \* bound: logins in a behaviour
    MaxUses         \* bound: refreshes and failed clean-ups in a behaviour

ASSUME SessionsAssumption ==
    /\ IsFiniteSet(Login) /\ IsFiniteSet(Refresh)
    /\ maxSessions \in Nat \ {0} /\ MaxLogins \in Nat /\ MaxUses \in Nat

VARIABLES
    sessions,       \* the user's rows, the least recently used first
    login,
    refresh,        \* the session each refresh has found, 0 for none
    logins,
    uses,
    failures,       \* history: clean-ups that failed half-way
    overtaken       \* history: a session on a list of sessions to delete was used

sessionVars == <<sessions, login, refresh, logins, uses, failures, overtaken>>

-----------------------------------------------------------------------------
LoginRecord == [pc : {"idle", "cleaning", "inserting"}, toDelete : Seq(1 .. MaxLogins),
                id : 0 .. MaxLogins]

SessionsInit ==
    /\ sessions = <<>>
    /\ login = [l \in Login |-> [pc |-> "idle", toDelete |-> <<>>, id |-> 0]]
    /\ refresh = [f \in Refresh |-> 0]
    /\ logins = 0 /\ uses = 0
    /\ failures = 0 /\ overtaken = FALSE

\* The rows without session s.
Without(s) ==
    IF s \in Range(sessions) THEN RemoveAt(sessions, CHOOSE i \in DOMAIN sessions : sessions[i] = s)
    ELSE sessions

-----------------------------------------------------------------------------
\* Mutant of CleanupUserSessions: the list is cut one too early.
CleanupUserSessionsOneMore(l) ==
    /\ login[l].pc = "idle" /\ logins < MaxLogins
    /\ logins' = logins + 1
    /\ login' = [login EXCEPT ![l] =
                   [pc |-> "cleaning",
                    toDelete |-> Reverse(SubSeq(sessions, 1, Len(sessions) - (maxSessions - 1))),
                    id |-> logins + 1]]
    /\ UNCHANGED <<sessions, refresh, uses, failures, overtaken>>

\* createSession begins: cleanupUserSessions reads which sessions, revoked ones
\* included, are beyond the maxSessions most recently used.
CleanupUserSessions(l) ==
    /\ login[l].pc = "idle" /\ logins < MaxLogins
    /\ logins' = logins + 1
    /\ login' = [login EXCEPT ![l] =
                   [pc |-> "cleaning",
                    toDelete |-> Reverse(SubSeq(sessions, 1, Len(sessions) - maxSessions)),
                    id |-> logins + 1]]
    /\ UNCHANGED <<sessions, refresh, uses, failures, overtaken>>

\* One of the sessions is deleted by its id, unless it is gone already.
DeleteSession(l) ==
    /\ login[l].pc = "cleaning" /\ login[l].toDelete # <<>>
    /\ sessions' = Without(Head(login[l].toDelete))
    /\ login' = [login EXCEPT ![l].toDelete = Tail(@)]
    /\ UNCHANGED <<refresh, logins, uses, failures, overtaken>>

\* The database fails: cleanupUserSessions logs it and the login goes on.
CleanupFails(l) ==
    /\ login[l].pc = "cleaning" /\ uses < MaxUses
    /\ login' = [login EXCEPT ![l] = [pc |-> "inserting", toDelete |-> <<>>, id |-> login[l].id]]
    /\ uses' = uses + 1
    /\ failures' = failures + 1
    /\ UNCHANGED <<sessions, refresh, logins, overtaken>>

\* Nothing is left to delete.
CleanupDone(l) ==
    /\ login[l].pc = "cleaning" /\ login[l].toDelete = <<>>
    /\ login' = [login EXCEPT ![l].pc = "inserting"]
    /\ UNCHANGED <<sessions, refresh, logins, uses, failures, overtaken>>

\* The new session is inserted, used just now; or createSession fails.
InsertSession(l) ==
    /\ login[l].pc = "inserting"
    /\ login' = [login EXCEPT ![l].pc = "idle"]
    /\ \/ sessions' = Append(sessions, login[l].id)
       \/ UNCHANGED sessions
    /\ UNCHANGED <<refresh, logins, uses, failures, overtaken>>

\* refreshSession finds the session of a refresh token.
FindSession(f, s) ==
    /\ refresh[f] = 0 /\ uses < MaxUses
    /\ uses' = uses + 1
    /\ refresh' = [refresh EXCEPT ![f] = s]
    /\ UNCHANGED <<sessions, login, logins, failures, overtaken>>

\* Mutant of UpdateSession: the row is written back whole.
UpdateSessionWriteBack(f) ==
    /\ refresh[f] # 0
    /\ sessions' = Append(Without(refresh[f]), refresh[f])
    /\ refresh' = [refresh EXCEPT ![f] = 0]
    /\ overtaken' = (overtaken \/ \E l \in Login : refresh[f] \in Range(login[l].toDelete))
    /\ UNCHANGED <<login, logins, uses, failures>>

\* ... and sets its lastActivity, if it is still there.
UpdateSession(f) ==
    /\ refresh[f] # 0
    /\ sessions' = IF refresh[f] \in Range(sessions) THEN Append(Without(refresh[f]), refresh[f])
                   ELSE sessions
    /\ refresh' = [refresh EXCEPT ![f] = 0]
    /\ overtaken' = (overtaken \/ \E l \in Login : refresh[f] \in Range(login[l].toDelete))
    /\ UNCHANGED <<login, logins, uses, failures>>

SessionsNext ==
    \/ \E l \in Login : \/ CleanupUserSessions(l) \/ DeleteSession(l) \/ CleanupFails(l)
                        \/ CleanupDone(l) \/ InsertSession(l)
    \/ \E f \in Refresh : UpdateSession(f) \/ \E s \in Range(sessions) : FindSession(f, s)

SessionsSpec == SessionsInit /\ [][SessionsNext]_sessionVars

-----------------------------------------------------------------------------
(* Properties.                                                             *)

\* The types, and the key of the table: no session has two rows.
SessionsTypeOK ==
    /\ sessions \in Seq(1 .. MaxLogins)
    /\ \A i, j \in DOMAIN sessions : sessions[i] = sessions[j] => i = j
    /\ login \in [Login -> LoginRecord] /\ refresh \in [Refresh -> 0 .. MaxLogins]
    /\ logins \in 0 .. MaxLogins /\ uses \in 0 .. MaxUses
    /\ failures \in 0 .. MaxUses /\ overtaken \in BOOLEAN

\* The table of a user stays small, though not as small as maxSessions: a login
\* makes the table fit and inserts afterwards, so that one login at a time leaves
\* maxSessions + 1, and nothing excludes the others.  Beyond maxSessions there is
\* at most one session per request that may be logging in at a time and one per
\* clean-up that failed, however logins and refreshes interleave.
SessionsLimited == Len(sessions) <= maxSessions + Cardinality(Login) + failures

\* Clean-ups that run at the same time do not delete more than they should:
\* maxSessions sessions are always left, unless a session that was on a list
\* to be deleted was used in the meantime.
MostRecentKept ==
    [][Len(sessions') < Len(sessions) => overtaken \/ Len(sessions') >= maxSessions]_sessionVars
=============================================================================
