----------------------------- MODULE ChatClient -----------------------------
(***************************************************************************)
(* The WebSocket connection of the chat page (use-chat.ts): connecting,    *)
(* retrying with a growing delay, giving up, and closing the socket when   *)
(* the page shows another one or is left.  Failures are reported by three  *)
(* handlers of every socket that has ever been created, and each of them   *)
(* acts on the same three refs: connectionStatus, retryCount and           *)
(* retryTimeouts.                                                          *)
(*                                                                         *)
(* Delays carry no durations, but a pending render is committed before the *)
(* next retry timer, which is seconds away.  The messages sent and         *)
(* received, and the API call that yields the URL, are left out.           *)
(***************************************************************************)
EXTENDS Integers, FiniteSets

CONSTANTS
    maxRetries,
    MaxSockets      \* bound: sockets in a behaviour

ASSUME ChatAssumption == maxRetries \in Nat /\ MaxSockets \in Nat \ {0}

VARIABLES
    connectionStatus,
    retryCount,
    retryTimeouts,  \* retry timers pending
    socket,         \* the readyState of every socket
    websocket,      \* the socket in the React state, 0 for none
    rendered,       \* the one the clean-up of the last effect will close
    mounted,
    dismissed,      \* history: a NormalClosure since the last attempt
    attempts        \* history: retries since a connection was last open

chatVars == <<connectionStatus, retryCount, retryTimeouts, socket, websocket, rendered, mounted,
              dismissed, attempts>>
page == <<websocket, rendered, mounted>>

-----------------------------------------------------------------------------
Socket == 1 .. MaxSockets

\* failing: close() was called before the connection was open; closing: after.
ReadyState == {"none", "connecting", "open", "failing", "closing", "closed"}

\* The codes of a close event: the server said so, or nothing was said.
NormalClosure == 1000
NoStatus == 1005

ChatInit ==
    /\ connectionStatus = "idle"
    /\ retryCount = 0 /\ retryTimeouts = 0
    /\ socket = [s \in Socket |-> "none"]
    /\ websocket = 0 /\ rendered = 0
    /\ mounted = TRUE
    /\ dismissed = FALSE /\ attempts = 0

\* close() of a WebSocket.
Closed(s) == [socket EXCEPT ![s] = CASE @ = "connecting" -> "failing"
                                     [] @ = "open" -> "closing"
                                     [] OTHER -> @]

NewSocket(s) == socket[s] = "none" /\ \A t \in Socket : t < s => socket[t] # "none"

-----------------------------------------------------------------------------
(* connectWithRetry                                                        *)

\* A socket is created and handed to the React state, which no longer takes it
\* once the page is left.
Attempt(s, status) ==
    /\ NewSocket(s)
    /\ socket' = [socket EXCEPT ![s] = "connecting"]
    /\ connectionStatus' = status
    /\ websocket' = IF mounted THEN s ELSE websocket
    /\ dismissed' = FALSE
    /\ UNCHANGED <<rendered, mounted>>

\* connect, called once when the page has learned the URL; without one it does
\* nothing.
Connect(s) ==
    /\ connectionStatus = "idle"
    /\ Attempt(s, "connecting")
    /\ retryCount' = 0
    /\ UNCHANGED <<retryTimeouts, attempts>>

\* A retry timer is due: a pending render has been committed.
RetryDue == retryTimeouts > 0 /\ (rendered = websocket \/ ~mounted)

\* Mutant of RetryFires: a retry counts as a new connection.
RetryFiresAfresh(s) ==
    /\ RetryDue
    /\ Attempt(s, "retrying")
    /\ retryTimeouts' = retryTimeouts - 1
    /\ attempts' = attempts + 1
    /\ retryCount' = 0

\* A retry timer fires.
RetryFires(s) ==
    /\ RetryDue
    /\ Attempt(s, "retrying")
    /\ retryTimeouts' = retryTimeouts - 1
    /\ attempts' = attempts + 1
    /\ UNCHANGED retryCount

\* Every report of a failure adds one more retry to the pending ones, until
\* maxRetries.
FailureReported(pending) ==
    /\ connectionStatus' = "failed"
    /\ IF retryCount >= maxRetries
       THEN retryCount' = retryCount /\ retryTimeouts' = pending
       ELSE retryCount' = retryCount + 1 /\ retryTimeouts' = pending + 1
HandleConnectionFailure == FailureReported(retryTimeouts)

\* The WebSocket cannot even be created, for connect or for a retry: there is no
\* socket, and the failure is reported at once.
SetupFails ==
    /\ \/ connectionStatus = "idle" /\ HandleConnectionFailure /\ UNCHANGED attempts
       \/ RetryDue /\ FailureReported(retryTimeouts - 1) /\ attempts' = attempts + 1
    /\ dismissed' = FALSE
    /\ UNCHANGED <<socket, page>>

\* The open event of a socket, whichever socket the page shows.
Open(s) ==
    /\ socket[s] = "connecting"
    /\ socket' = [socket EXCEPT ![s] = "open"]
    /\ connectionStatus' = "connected"
    /\ retryCount' = 0 /\ retryTimeouts' = 0 /\ attempts' = 0
    /\ UNCHANGED <<page, dismissed>>

\* The connection is not open in time: the socket is closed, which will be
\* reported once more by the error event of the closed socket.
ConnectionTimeout(s) ==
    /\ socket[s] = "connecting"
    /\ socket' = Closed(s)
    /\ HandleConnectionFailure
    /\ UNCHANGED <<page, dismissed, attempts>>

\* A connection fails, or its establishment does: the error event reports it and
\* the close event that follows finds the status "failed".
ErrorEvent(s) ==
    /\ socket[s] \in {"connecting", "failing", "open", "closing"}
    /\ socket' = [socket EXCEPT ![s] = "closed"]
    /\ HandleConnectionFailure
    /\ UNCHANGED <<page, dismissed, attempts>>

\* Mutant of CloseEvent: a close the page did not ask for is not retried.
CloseEventIgnored(s, code) ==
    /\ socket[s] \in {"open", "closing"}
    /\ socket' = [socket EXCEPT ![s] = "closed"]
    /\ dismissed' = (dismissed \/ code = NormalClosure)
    /\ UNCHANGED <<connectionStatus, retryCount, retryTimeouts, page, attempts>>

\* The close event of an open connection, which either side has closed.
CloseEvent(s, code) ==
    /\ socket[s] \in {"open", "closing"}
    /\ socket' = [socket EXCEPT ![s] = "closed"]
    /\ dismissed' = (dismissed \/ code = NormalClosure)
    /\ IF code # NormalClosure /\ connectionStatus = "connected"
       THEN HandleConnectionFailure
       ELSE UNCHANGED <<connectionStatus, retryCount, retryTimeouts>>
    /\ UNCHANGED <<page, attempts>>

-----------------------------------------------------------------------------
(* The effect that depends on websocket.                                   *)

\* Mutant of Commit: the socket shown before is left alone.
CommitWithoutCleanup ==
    /\ mounted /\ rendered # websocket
    /\ rendered' = websocket
    /\ UNCHANGED <<connectionStatus, retryCount, retryTimeouts, socket, websocket, mounted,
                   dismissed, attempts>>

\* A new socket is rendered: the clean-up of the effect closes the one before.
Commit ==
    /\ mounted /\ rendered # websocket
    /\ socket' = IF rendered = 0 THEN socket ELSE Closed(rendered)
    /\ rendered' = websocket
    /\ UNCHANGED <<connectionStatus, retryCount, retryTimeouts, websocket, mounted, dismissed, attempts>>

\* The page is left: the clean-up runs; nothing clears the retry timers.
Unmount ==
    /\ mounted
    /\ mounted' = FALSE
    /\ socket' = IF rendered = 0 THEN socket ELSE Closed(rendered)
    /\ UNCHANGED <<connectionStatus, retryCount, retryTimeouts, websocket, rendered, dismissed, attempts>>

-----------------------------------------------------------------------------
SocketEvent(s) == \/ Open(s) \/ ConnectionTimeout(s)
                  \/ \E code \in {NormalClosure, NoStatus} : CloseEvent(s, code)
                  \/ ErrorEvent(s)

ChatNext ==
    \/ \E s \in Socket : Connect(s) \/ RetryFires(s) \/ SocketEvent(s)
    \/ SetupFails
    \/ Commit
    \/ Unmount

ChatSpec == ChatInit /\ [][ChatNext]_chatVars

-----------------------------------------------------------------------------
(* Properties.                                                             *)

ChatTypeOK ==
    /\ connectionStatus \in {"idle", "connecting", "connected", "failed", "retrying"}
    /\ retryCount \in 0 .. maxRetries /\ retryTimeouts \in 0 .. maxRetries
    /\ socket \in [Socket -> ReadyState]
    /\ websocket \in 0 .. MaxSockets /\ rendered \in 0 .. MaxSockets
    /\ mounted \in BOOLEAN /\ dismissed \in BOOLEAN
    /\ attempts \in 0 .. maxRetries

\* However many handlers report the same failure, and whatever old sockets
\* report late, no more than maxRetries retries are made or pending before a
\* connection is open again.
RetriesBounded == attempts + retryTimeouts <= maxRetries

\* Nothing will happen any more unless the server does something.
Quiet ==
    /\ rendered = websocket /\ retryTimeouts = 0
    /\ \A s \in Socket : socket[s] \in {"none", "open", "closed"}

\* The page is never left waiting for nothing: when all events have been
\* handled its own socket is open, or the retries are used up, or the server
\* itself ended the conversation.  Late events of sockets that were replaced
\* may fail a good connection, but then a retry follows, and so it does when no
\* socket could be created.
NeverStranded ==
    mounted /\ Quiet /\ connectionStatus # "idle" =>
        \/ websocket # 0 /\ socket[websocket] = "open"
        \/ connectionStatus = "failed" /\ retryCount = maxRetries
        \/ dismissed

\* Retries that overlap do not leave connections behind: once rendered, the
\* page's own socket is the only one that is open or may still open.
OnlyOwnSocket ==
    mounted /\ rendered = websocket =>
        \A s \in Socket : socket[s] \in {"connecting", "open"} => s = websocket
=============================================================================
