------------------------------ MODULE Sandbox -------------------------------
(***************************************************************************)
(* Instances in one sandbox container (sandboxSdkClient.ts).  Sessions are *)
(* hashed onto a small pool of containers, so several agents create their  *)
(* instances in the same file system: a template is unpacked under its own *)
(* name, moved to the name of the instance, given a port, installed and    *)
(* started.  None of these steps excludes the other agents.                *)
(*                                                                         *)
(* A Create is a call of createInstance(wait = true) and the instance it   *)
(* makes, a Lookup a call of getTemplateDetails; both make sure that the   *)
(* one template exists.  Tokens, environment variables, git and the        *)
(* provisioning of resources are left out: a failure there fails the       *)
(* creation like a failed installation, or is only logged.                 *)
(***************************************************************************)
EXTENDS Integers, FiniteSets

CONSTANTS
    Create, Lookup,
    PackageJson, Rest,  \* the files of the template
    NoOne,
    MaxPort,            \* ports are 1 .. MaxPort
    MaxLosses           \* bound: times the container is lost

ASSUME SandboxAssumption ==
    /\ IsFiniteSet(Create) /\ IsFiniteSet(Lookup) /\ Create \cap Lookup = {}
    /\ PackageJson # Rest /\ NoOne \notin Create \cup {PackageJson, Rest}
    /\ MaxPort \in Nat /\ MaxLosses \in Nat

VARIABLES
    template,       \* the files in the template's directory, None when there is none
    extracting,     \* files each call has still to unpack
    step,           \* where each call is
    directory,      \* the files in each instance's directory
    port,           \* allocatedPort of each instance, 0 for none
    listening,      \* the instance whose server listens on each port
    process,        \* instances whose monitor process is running
    metadata,       \* instances with a metadata file
    metadataCache,  \* instances in the cache of the client that created them
    status,         \* the last answer of getInstanceStatus, "unknown" at first
    misread,        \* history: instances whose metadata file was there when a client
                    \* without a cached copy failed to read it
    losses,
    spoiled,        \* history: the template's directory may lack files that no call is
                    \* about to write
    disturbed,      \* history: calls whose unpacking or moving of the template met the
                    \* unpacking or moving of another, a spoiled template or a loss
    clashed         \* history: instances that have had to share their port

disk == <<template, extracting, directory>>
network == <<port, listening, process>>
bookkeeping == <<metadata, metadataCache, status, misread>>
sandboxVars == <<disk, network, bookkeeping, step, losses, spoiled, disturbed, clashed>>

-----------------------------------------------------------------------------
TemplateFiles == {PackageJson, Rest}
Port == 1 .. MaxPort
None == {NoOne}     \* no directory: not a set of template files
Call == Create \cup Lookup

Step == {"check", "extract", "move", "allocate", "install", "start", "expose", "ready", "failed", "found"}

SandboxInit ==
    /\ template \in {None, TemplateFiles}    \* an earlier call may have unpacked it
    /\ extracting = [c \in Call |-> {}]
    /\ step = [c \in Call |-> "check"]
    /\ directory = [c \in Create |-> None]
    /\ port = [c \in Create |-> 0]
    /\ listening = [p \in Port |-> NoOne]
    /\ process = {} /\ metadata = {} /\ metadataCache = {}
    /\ status = "unknown" /\ misread = {}
    /\ losses = 0
    /\ spoiled = FALSE /\ disturbed = {} /\ clashed = {}

Goto(c, s) == step' = [step EXCEPT ![c] = s]

-----------------------------------------------------------------------------
(* ensureTemplateExists                                                    *)

\* The step that follows when the template is there.
HaveTemplate(c) == IF c \in Create THEN "move" ELSE "found"

\* checkTemplateExists looks for package.json only.
CheckTemplateExists(c) ==
    /\ step[c] = "check"
    /\ IF PackageJson \in template
       THEN Goto(c, HaveTemplate(c)) /\ UNCHANGED extracting
       ELSE /\ Goto(c, "extract")
            /\ extracting' = [extracting EXCEPT ![c] = TemplateFiles]
    /\ UNCHANGED <<template, directory, network, bookkeeping, losses, spoiled, disturbed, clashed>>

\* unzip writes one more file, making the directory when it is not there.
Unzip(c, f) ==
    /\ step[c] = "extract" /\ f \in extracting[c]
    /\ template' = (template \ None) \cup {f}
    /\ extracting' = [extracting EXCEPT ![c] = @ \ {f}]
    /\ IF extracting[c] = {f} THEN Goto(c, HaveTemplate(c)) ELSE UNCHANGED step
    /\ UNCHANGED <<directory, network, bookkeeping, losses, spoiled, disturbed, clashed>>

\* Mutant of ExtractFails: the exit code of unzip is not looked at.
ExtractFailsUnnoticed(c) ==
    /\ step[c] = "extract"
    /\ Goto(c, HaveTemplate(c))
    /\ extracting' = [extracting EXCEPT ![c] = {}]
    /\ UNCHANGED <<template, directory, network, bookkeeping, losses, spoiled, disturbed, clashed>>

\* The download fails, or unzip does, leaving what it has written.
ExtractFails(c) ==
    /\ step[c] = "extract"
    /\ Goto(c, "failed")
    /\ extracting' = [extracting EXCEPT ![c] = {}]
    /\ spoiled' = (spoiled \/ template # None)
    /\ UNCHANGED <<template, directory, network, bookkeeping, losses, disturbed, clashed>>

Extracting == {c \in Call : step[c] = "extract"}

-----------------------------------------------------------------------------
(* createInstance                                                          *)

\* Mutant of MoveTemplate: the call waits for a directory that is not there.
MoveTemplateWaiting(c) ==
    /\ step[c] = "move" /\ template # None
    /\ directory' = [directory EXCEPT ![c] = template]
    /\ template' = None
    /\ Goto(c, "allocate")
    /\ spoiled' = (Extracting # {})
    /\ disturbed' = IF Extracting # {} \/ spoiled THEN disturbed \cup Extracting \cup {c} ELSE disturbed
    /\ UNCHANGED <<extracting, network, bookkeeping, losses, clashed>>

\* mv of the template: the instance gets what the directory holds now, and a
\* call that is unpacking goes on to fill a new one.
MoveTemplate(c) ==
    /\ step[c] = "move"
    /\ IF template = None
       THEN Goto(c, "failed") /\ UNCHANGED <<template, directory, spoiled, disturbed>>
       ELSE /\ directory' = [directory EXCEPT ![c] = template]
            /\ template' = None
            /\ Goto(c, "allocate")
            /\ spoiled' = (Extracting # {})
            /\ disturbed' = IF Extracting # {} \/ spoiled
                            THEN disturbed \cup Extracting \cup {c} ELSE disturbed
    /\ UNCHANGED <<extracting, network, bookkeeping, losses, clashed>>

FreePorts == {p \in Port : listening[p] = NoOne}

\* Mutant of AllocateAvailablePort: the port is taken without looking.
AllocateAnyPort(c) ==
    /\ step[c] = "allocate"
    /\ port' = [port EXCEPT ![c] = 1]
    /\ LET sharing == {d \in Create : port[d] = 1} IN
       clashed' = IF sharing = {} \/ 1 \notin FreePorts THEN clashed ELSE clashed \cup sharing \cup {c}
    /\ Goto(c, "install")
    /\ UNCHANGED <<disk, listening, process, bookkeeping, losses, spoiled, disturbed>>

\* The first port nobody listens on, whether or not it was given to an instance
\* whose server is not up.
AllocateAvailablePort(c) ==
    /\ step[c] = "allocate"
    /\ IF FreePorts = {}
       THEN Goto(c, "failed") /\ UNCHANGED <<port, clashed>>
       ELSE \E p \in FreePorts :
              /\ \A q \in FreePorts : p <= q
              /\ port' = [port EXCEPT ![c] = p]
              /\ LET sharing == {d \in Create : port[d] = p} IN
                 clashed' = IF sharing = {} THEN clashed ELSE clashed \cup sharing \cup {c}
              /\ Goto(c, "install")
    /\ UNCHANGED <<disk, listening, process, bookkeeping, losses, spoiled, disturbed>>

\* bun install in the instance's directory, which needs a package.json.
Install(c) ==
    /\ step[c] = "install"
    /\ \/ PackageJson \in directory[c] /\ Goto(c, "start")
       \/ Goto(c, "failed")
    /\ UNCHANGED <<disk, network, bookkeeping, losses, spoiled, disturbed, clashed>>

\* startDevServer starts the monitor process, unless that is refused.
StartDevServer(c) ==
    /\ step[c] = "start"
    /\ \/ directory[c] # None /\ process' = process \cup {c} /\ Goto(c, "expose")
       \/ UNCHANGED process /\ Goto(c, "failed")
    /\ UNCHANGED <<disk, port, listening, bookkeeping, losses, spoiled, disturbed, clashed>>

\* The server was seen to be ready, or ten seconds are over: the port is exposed
\* and the metadata written to disk and to the client's cache.  When exposing the
\* port or the writing fails the creation does, though the file may be there.
ExposePort(c) ==
    /\ step[c] = "expose"
    /\ \/ /\ metadata' = metadata \cup {c} /\ metadataCache' = metadataCache \cup {c}
          /\ Goto(c, "ready")
       \/ /\ metadata' \in {metadata, metadata \cup {c}} /\ UNCHANGED metadataCache
          /\ Goto(c, "failed")
    /\ UNCHANGED <<disk, network, status, misread, losses, spoiled, disturbed, clashed>>

-----------------------------------------------------------------------------
(* The servers, the container and the agents.                              *)

\* The server of instance c binds its port, if that is free: at its start or
\* after a restart by its monitor.
ServerListens(c) ==
    /\ c \in process /\ listening[port[c]] = NoOne
    /\ listening' = [listening EXCEPT ![port[c]] = c]
    /\ UNCHANGED <<disk, port, process, bookkeeping, step, losses, spoiled, disturbed, clashed>>

\* The server of instance c is down: it has crashed and its monitor will
\* restart it, or the monitor has ended too.
ServerDown(c) ==
    /\ c \in process
    /\ listening' = [p \in Port |-> IF listening[p] = c THEN NoOne ELSE listening[p]]
    /\ process' \in {process, process \ {c}}
    /\ UNCHANGED <<disk, port, bookkeeping, step, losses, spoiled, disturbed, clashed>>

\* The container is replaced by an empty one.
ContainerLost ==
    /\ losses < MaxLosses
    /\ losses' = losses + 1
    /\ template' = None /\ directory' = [c \in Create |-> None]
    /\ listening' = [p \in Port |-> NoOne] /\ process' = {} /\ metadata' = {}
    /\ spoiled' = (Extracting # {})
    /\ disturbed' = Call
    /\ UNCHANGED <<extracting, step, port, metadataCache, status, misread, clashed>>

\* An agent is evicted once its instance is up: its next client has an empty cache.
EvictClient(c) ==
    /\ step[c] = "ready" /\ c \in metadataCache
    /\ metadataCache' = metadataCache \ {c}
    /\ UNCHANGED <<disk, network, metadata, status, misread, step, losses, spoiled, disturbed, clashed>>

\* Mutant of GetInstanceStatus: an instance not in the cache is not looked for.
GetInstanceStatusCached(c) ==
    /\ step[c] = "ready"
    /\ status' = IF c \in metadataCache THEN "success" ELSE "failure"
    /\ UNCHANGED <<disk, network, metadata, metadataCache, misread, step, losses, spoiled, disturbed, clashed>>

\* getInstanceStatus, asked by the health check of the agent: the instance is
\* found in the cache or, when its file can be read, on disk; any failure to read
\* the file is answered as an instance that is not there.  Whether its process
\* runs only changes the wording of the answer.
GetInstanceStatus(c) ==
    /\ step[c] = "ready"
    /\ \E found \in IF c \in metadataCache THEN {TRUE} ELSE {FALSE, (c \in metadata)} :
         /\ status' = IF found THEN "success" ELSE "failure"
         /\ metadataCache' = IF found THEN metadataCache \cup {c} ELSE metadataCache
         /\ misread' = IF c \in metadata /\ ~found THEN misread \cup {c} ELSE misread
    /\ UNCHANGED <<disk, network, metadata, step, losses, spoiled, disturbed, clashed>>

-----------------------------------------------------------------------------
CreateStep(c) == MoveTemplate(c) \/ AllocateAvailablePort(c) \/ Install(c) \/ StartDevServer(c)
                    \/ ExposePort(c)
TemplateStep(c) == CheckTemplateExists(c) \/ ExtractFails(c) \/ \E f \in TemplateFiles : Unzip(c, f)

SandboxNext ==
    \/ \E c \in Call : TemplateStep(c)
    \/ \E c \in Create : CreateStep(c) \/ ServerListens(c) \/ ServerDown(c) \/ EvictClient(c)
                            \/ GetInstanceStatus(c)
    \/ ContainerLost

SandboxSpec == SandboxInit /\ [][SandboxNext]_sandboxVars

\* Commands in the container end and their callers go on.
SandboxFairness == \A c \in Create : WF_sandboxVars(TemplateStep(c) \/ CreateStep(c))

-----------------------------------------------------------------------------
(* Properties.                                                             *)

SandboxTypeOK ==
    /\ template \in (SUBSET TemplateFiles) \cup {None}
    /\ extracting \in [Call -> SUBSET TemplateFiles]
    /\ step \in [Call -> Step]
    /\ directory \in [Create -> (SUBSET TemplateFiles) \cup {None}]
    /\ port \in [Create -> 0 .. MaxPort] /\ listening \in [Port -> Create \cup {NoOne}]
    /\ process \subseteq Create /\ metadata \subseteq Create /\ metadataCache \subseteq Create
    /\ status \in {"unknown", "success", "failure"} /\ misread \subseteq Create
    /\ losses \in 0 .. MaxLosses
    /\ spoiled \in BOOLEAN /\ disturbed \subseteq Call /\ clashed \subseteq Create

\* An instance that createInstance reports as made has the whole template, even
\* when other agents look at, unpack and take the same directory, as long as no
\* unpacking met a move, was cut short before or was lost with the container.
CreatedComplete ==
    \A c \in Create : step[c] = "ready" /\ c \notin disturbed => directory[c] = TemplateFiles

\* The preview of an instance never shows the app of another one, whatever
\* servers go down and come back, unless the port was given to an instance
\* while its holder's server was not listening.
PreviewShowsOwnApp ==
    \A c \in Create : step[c] = "ready" /\ c \notin clashed => listening[port[c]] \in {c, NoOne}

\* Every createInstance is answered.
CreatesAnswer == <>(\A c \in Create : step[c] \in {"ready", "failed"})

\* The health check gives up no instance that is there: whatever clients come
\* and go, a status check fails only after the container was lost, or when a
\* client that did not have the metadata in its cache could not read the file.
NoFalseAlarm == status = "failure" => losses > 0 \/ misread # {}
=============================================================================
