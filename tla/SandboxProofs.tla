---------------------------- MODULE SandboxProofs ---------------------------
(***************************************************************************)
(* Instances in one container, for any number of agents, ports and losses. *)
(* The invariant says what the steps leave true although none of them      *)
(* excludes another: which file the template's directory still lacks and   *)
(* who is about to write it, and who was given which port.                 *)
(***************************************************************************)
EXTENDS Sandbox, TLAPS

\* The steps before and after the allocation of a port that may end with an instance.
Early == {"check", "extract", "move", "allocate"}
Late == {"install", "start", "expose", "ready"}

\* A port is given once, and only instances that were started have a server.
PortsGiven ==
    \A c \in Create : /\ step[c] \in Early => port[c] = 0
                      /\ step[c] \in Late => port[c] \in Port
                      /\ c \in process => step[c] \in {"expose", "ready", "failed"} /\ port[c] \in Port

\* A server listens on the port of its instance.
PortsHeld == \A p \in Port : listening[p] # NoOne => port[listening[p]] = p

\* Instances with the same port are known to clash.
SharersClash ==
    \A c, d \in Create : c # d /\ port[c] = port[d] /\ port[c] # 0 => c \in clashed

\* Unless it was spoiled, a template's directory lacks only what each call that
\* is unpacking has still to write.
TemplateWhole ==
    ~spoiled =>
        /\ \A c \in Call : step[c] = "extract" => TemplateFiles \subseteq template \cup extracting[c]
        /\ template # None /\ Extracting = {} => template = TemplateFiles

\* CreatedComplete, from the move on.
DirectoriesWhole ==
    \A c \in Create : step[c] \in Late \cup {"allocate"} /\ c \notin disturbed =>
        directory[c] = TemplateFiles

\* Until the container is lost, the metadata of an instance that is ready is there, and
\* a client finds it unless it fails to read it.
MetadataKept ==
    losses = 0 => /\ (status = "failure" => misread # {})
                  /\ \A c \in Create : step[c] = "ready" => c \in metadata

PortInv == PortsGiven /\ PortsHeld /\ SharersClash
DiskInv == TemplateWhole /\ DirectoriesWhole
SandboxInv == SandboxTypeOK /\ PortInv /\ DiskInv /\ MetadataKept

-----------------------------------------------------------------------------
\* What the invariant is for.
LEMMA SandboxInvImplies ==
  ASSUME SandboxInv
  PROVE  SandboxTypeOK /\ CreatedComplete /\ PreviewShowsOwnApp /\ NoFalseAlarm
<1> USE SandboxAssumption
<1>1. SandboxTypeOK
  BY DEF SandboxInv
<1>2. CreatedComplete
  BY DEF SandboxInv, DiskInv, DirectoriesWhole, CreatedComplete, Late
<1>3. PreviewShowsOwnApp
  <2> SUFFICES ASSUME NEW c \in Create, step[c] = "ready", c \notin clashed,
                      listening[port[c]] # NoOne
               PROVE  listening[port[c]] = c
    BY DEF PreviewShowsOwnApp
  <2>1. port[c] \in Port /\ port[c] # 0
    BY DEF SandboxInv, PortInv, PortsGiven, Late, Port
  <2>2. listening[port[c]] \in Create
    BY <1>1, <2>1 DEF SandboxTypeOK
  <2>3. port[listening[port[c]]] = port[c]
    BY <2>1 DEF SandboxInv, PortInv, PortsHeld
  <2> QED
    BY <2>1, <2>2, <2>3 DEF SandboxInv, PortInv, SharersClash
<1>4. NoFalseAlarm
  BY DEF SandboxInv, MetadataKept, NoFalseAlarm, SandboxTypeOK
<1> QED
  BY <1>1, <1>2, <1>3, <1>4

\* An empty container.
LEMMA SandboxInitially == SandboxInit => SandboxInv
<1> SUFFICES ASSUME SandboxInit PROVE SandboxInv
  OBVIOUS
<1> USE SandboxAssumption
<1>1. spoiled \in BOOLEAN
  BY Zenon DEF SandboxInit
<1>2. SandboxTypeOK
  BY <1>1 DEF SandboxInit, SandboxTypeOK, Step
<1>3. PortInv
  BY DEF SandboxInit, PortInv, PortsGiven, PortsHeld, SharersClash, Late, Call
<1>4. DiskInv
  BY DEF SandboxInit, DiskInv, TemplateWhole, DirectoriesWhole, Late, Call
<1>5. MetadataKept
  BY DEF SandboxInit, MetadataKept, Call
<1> QED
  BY <1>2, <1>3, <1>4, <1>5 DEF SandboxInv

-----------------------------------------------------------------------------
\* A call goes on.
LEMMA Goes ==
  ASSUME SandboxTypeOK, NEW c \in Call, NEW s \in Step, Goto(c, s)
  PROVE  /\ step' \in [Call -> Step] /\ step'[c] = s
         /\ \A d \in Call : d # c => step'[d] = step[d]
  BY DEF SandboxTypeOK, Goto

\* A step of a call that gives no port, and starts a server only for an instance that has one.
LEMMA PortsKept ==
  ASSUME SandboxInv, NEW c \in Call, NEW s \in Step, Goto(c, s),
         UNCHANGED <<port, listening, clashed>>,
         s \in Early => step[c] \in Early, s \in Late => step[c] \in Late,
         process' = process \/ process' = process \cup {c},
         c \in process' => s \in {"expose", "ready", "failed"} /\ (c \in process \/ s \in Late)
  PROVE  PortInv'
<1>1. /\ step'[c] = s /\ \A d \in Call : d # c => step'[d] = step[d]
  BY Goes DEF SandboxInv
<1>2. Create \subseteq Call
  BY DEF Call
<1>3. PortsGiven'
  BY <1>1, <1>2 DEF SandboxInv, PortInv, PortsGiven
<1>4. PortsHeld' /\ SharersClash'
  BY DEF SandboxInv, PortInv, PortsHeld, SharersClash
<1> QED
  BY <1>3, <1>4 DEF PortInv

\* A step of an instance that has its directory.
LEMMA DiskKept ==
  ASSUME SandboxInv, NEW c \in Call, NEW s \in Late \cup {"failed"}, Goto(c, s),
         step[c] \in Late \cup {"allocate"}, UNCHANGED <<disk, spoiled, disturbed>>
  PROVE  DiskInv'
<1>1. s \in Step
  BY DEF Late, Step
<1>2. /\ step'[c] = s /\ \A d \in Call : d # c => step'[d] = step[d]
  BY <1>1, Goes DEF SandboxInv
<1>3. \A d \in Call : step'[d] = "extract" <=> step[d] = "extract"
  BY <1>2 DEF Late
<1>4. Extracting' = Extracting
  BY <1>3 DEF Extracting
<1>5. /\ template' = template /\ extracting' = extracting /\ directory' = directory
      /\ disturbed' = disturbed /\ (spoiled' <=> spoiled)
  BY DEF disk
<1>6. TemplateWhole'
  BY <1>3, <1>4, <1>5 DEF SandboxInv, DiskInv, TemplateWhole
<1>7. \A d \in Create : d \in Call
  BY DEF Call
<1>8. DirectoriesWhole'
  BY <1>2, <1>5, <1>7 DEF SandboxInv, DiskInv, DirectoriesWhole
<1> QED
  BY <1>6, <1>8 DEF DiskInv

\* A step before the metadata is written.
LEMMA MetadataStays ==
  ASSUME SandboxInv, NEW c \in Call, NEW s \in Step, Goto(c, s), s # "ready",
         UNCHANGED <<bookkeeping, losses>>
  PROVE  MetadataKept'
<1>1. /\ step'[c] = s /\ \A d \in Call : d # c => step'[d] = step[d]
  BY Goes DEF SandboxInv
<1> QED
  BY <1>1 DEF SandboxInv, MetadataKept, bookkeeping, Call

-----------------------------------------------------------------------------
\* checkTemplateExists: a template with a package.json is taken for complete, and is so
\* unless it was spoiled.
LEMMA CheckKeeps ==
  ASSUME SandboxInv, NEW c \in Call, CheckTemplateExists(c)
  PROVE  SandboxInv'
<1> USE SandboxAssumption
<1>1. SandboxTypeOK /\ step[c] = "check"
  BY DEF SandboxInv, CheckTemplateExists
<1>2. PICK s \in {"move", "found", "extract"} :
        /\ Goto(c, s)
        /\ \/ s # "extract" /\ extracting' = extracting
           \/ s = "extract" /\ extracting' = [extracting EXCEPT ![c] = TemplateFiles]
  BY DEF CheckTemplateExists, HaveTemplate
<1>3. /\ UNCHANGED <<template, directory, port, listening, process, metadata, metadataCache, status, misread,
                     losses, disturbed, clashed>>
      /\ spoiled' = spoiled
  BY DEF CheckTemplateExists, network, bookkeeping
<1>4. s \in Step
  BY DEF Step
<1>5. /\ step' \in [Call -> Step] /\ step'[c] = s
      /\ \A d \in Call : d # c => step'[d] = step[d]
  BY <1>1, <1>2, <1>4, Goes
<1>6. /\ extracting' \in [Call -> SUBSET TemplateFiles]
      /\ \A d \in Call : d # c => extracting'[d] = extracting[d]
      /\ s = "extract" => extracting'[c] = TemplateFiles
  BY <1>1, <1>2 DEF SandboxTypeOK
<1>7. SandboxTypeOK'
  BY <1>1, <1>3, <1>5, <1>6 DEF SandboxTypeOK
<1>8. PortInv'
  <2>1. c \notin process
    BY <1>1 DEF SandboxInv, PortInv, PortsGiven, SandboxTypeOK
  <2> QED
    BY <1>1, <1>2, <1>3, <1>4, <2>1, PortsKept DEF Early, Late
<1>9. TemplateWhole'
  <2> SUFFICES ASSUME ~spoiled PROVE TemplateWhole'
    BY <1>3 DEF TemplateWhole
  <2>1. \A d \in Call : step'[d] = "extract" => TemplateFiles \subseteq template' \cup extracting'[d]
    BY <1>3, <1>5, <1>6 DEF SandboxInv, DiskInv, TemplateWhole
  <2>2. Extracting \subseteq Extracting'
    BY <1>1, <1>5 DEF Extracting
  <2>3. template' # None /\ Extracting' = {} => template' = TemplateFiles
    BY <1>3, <2>2 DEF SandboxInv, DiskInv, TemplateWhole
  <2> QED
    BY <2>1, <2>3 DEF TemplateWhole
<1>10. DirectoriesWhole'
  BY <1>3, <1>5 DEF SandboxInv, DiskInv, DirectoriesWhole, Call, Late
<1>11. MetadataKept'
  BY <1>2, <1>3, <1>4, MetadataStays DEF bookkeeping
<1> QED
  BY <1>7, <1>8, <1>9, <1>10, <1>11 DEF SandboxInv, DiskInv

\* unzip writes a file: what the call had still to write is now in the directory.
LEMMA UnzipKeeps ==
  ASSUME SandboxInv, NEW c \in Call, NEW f \in TemplateFiles, Unzip(c, f)
  PROVE  SandboxInv'
<1> USE SandboxAssumption
<1>1. SandboxTypeOK /\ step[c] = "extract" /\ f \in extracting[c]
  BY DEF SandboxInv, Unzip
<1>2. PICK s \in {"move", "found", "extract"} :
        Goto(c, s) /\ (s = "extract" \/ extracting[c] = {f})
  <2>1. CASE extracting[c] = {f}
    BY <2>1 DEF Unzip, HaveTemplate
  <2>2. CASE extracting[c] # {f}
    <3>1. step' = [step EXCEPT ![c] = "extract"]
      BY <1>1, <2>2 DEF Unzip, SandboxTypeOK
    <3> QED
      BY <3>1 DEF Goto
  <2> QED
    BY <2>1, <2>2
<1>3. /\ template' = (template \ None) \cup {f}
      /\ extracting' = [extracting EXCEPT ![c] = @ \ {f}]
      /\ UNCHANGED <<directory, port, listening, process, metadata, metadataCache, status, misread,
                     losses, disturbed, clashed>>
      /\ spoiled' = spoiled
  BY DEF Unzip, network, bookkeeping
<1>4. s \in Step
  BY DEF Step
<1>5. /\ step' \in [Call -> Step] /\ step'[c] = s
      /\ \A d \in Call : d # c => step'[d] = step[d]
  BY <1>1, <1>2, <1>4, Goes
<1>6. /\ extracting' \in [Call -> SUBSET TemplateFiles]
      /\ \A d \in Call : d # c => extracting'[d] = extracting[d]
      /\ extracting'[c] = extracting[c] \ {f}
  BY <1>1, <1>3 DEF SandboxTypeOK
<1>7. template' \in SUBSET TemplateFiles /\ template \cap TemplateFiles \subseteq template' /\ f \in template'
  BY <1>1, <1>3 DEF SandboxTypeOK, None, TemplateFiles
<1>8. SandboxTypeOK'
  BY <1>1, <1>3, <1>5, <1>6, <1>7 DEF SandboxTypeOK
<1>9. PortInv'
  <2>1. c \notin process
    BY <1>1 DEF SandboxInv, PortInv, PortsGiven, SandboxTypeOK
  <2> QED
    BY <1>1, <1>2, <1>3, <1>4, <2>1, PortsKept DEF Early, Late
<1>10. TemplateWhole'
  <2> SUFFICES ASSUME ~spoiled PROVE TemplateWhole'
    BY <1>3 DEF TemplateWhole
  <2>1. \A d \in Call : step[d] = "extract" => TemplateFiles \subseteq template \cup extracting[d]
    BY DEF SandboxInv, DiskInv, TemplateWhole
  <2>2. \A d \in Call : step[d] = "extract" => TemplateFiles \subseteq template' \cup extracting'[d]
    BY <1>6, <1>7, <2>1
  <2>3. \A d \in Call : step'[d] = "extract" => TemplateFiles \subseteq template' \cup extracting'[d]
    BY <1>1, <1>5, <2>2
  <2>4. Extracting' = {} => template' = TemplateFiles
    <3>1. Extracting' = {} => extracting'[c] = {}
      BY <1>2, <1>5, <1>6 DEF Extracting
    <3> QED
      BY <1>1, <1>7, <2>2, <3>1
  <2> QED
    BY <2>3, <2>4 DEF TemplateWhole
<1>11. DirectoriesWhole'
  BY <1>3, <1>5 DEF SandboxInv, DiskInv, DirectoriesWhole, Call, Late
<1>12. MetadataKept'
  BY <1>2, <1>3, <1>4, MetadataStays DEF bookkeeping
<1> QED
  BY <1>8, <1>9, <1>10, <1>11, <1>12 DEF SandboxInv, DiskInv

\* unzip is cut short: what it leaves behind is marked as spoiled.
LEMMA ExtractFailsKeeps ==
  ASSUME SandboxInv, NEW c \in Call, ExtractFails(c)
  PROVE  SandboxInv'
<1> USE SandboxAssumption
<1>1. SandboxTypeOK /\ step[c] = "extract" /\ Goto(c, "failed") /\ "failed" \in Step
  BY DEF SandboxInv, ExtractFails, Step
<1>2. /\ extracting' = [extracting EXCEPT ![c] = {}]
      /\ UNCHANGED <<template, directory, port, listening, process, metadata, metadataCache, status, misread,
                     losses, disturbed, clashed>>
  BY DEF ExtractFails, network, bookkeeping
<1>3. spoiled' \in BOOLEAN /\ (~spoiled' => ~spoiled /\ template = None)
  BY Zenon DEF ExtractFails
<1>4. /\ step' \in [Call -> Step] /\ step'[c] = "failed"
      /\ \A d \in Call : d # c => step'[d] = step[d]
  BY <1>1, Goes
<1>5. /\ extracting' \in [Call -> SUBSET TemplateFiles]
      /\ \A d \in Call : d # c => extracting'[d] = extracting[d]
  BY <1>1, <1>2 DEF SandboxTypeOK
<1>6. SandboxTypeOK'
  BY <1>1, <1>2, <1>3, <1>4, <1>5 DEF SandboxTypeOK
<1>7. PortInv'
  <2>1. c \notin process
    BY <1>1 DEF SandboxInv, PortInv, PortsGiven, SandboxTypeOK
  <2> QED
    BY <1>1, <1>2, <2>1, PortsKept DEF Early, Late
<1>8. TemplateWhole'
  BY <1>2, <1>3, <1>4, <1>5 DEF SandboxInv, DiskInv, TemplateWhole
<1>9. DirectoriesWhole'
  BY <1>2, <1>4 DEF SandboxInv, DiskInv, DirectoriesWhole, Call, Late
<1>10. MetadataKept'
  BY <1>1, <1>2, MetadataStays DEF bookkeeping
<1> QED
  BY <1>6, <1>7, <1>8, <1>9, <1>10 DEF SandboxInv, DiskInv

-----------------------------------------------------------------------------
\* mv of the template: an instance that meets no unpacking takes a whole template.
LEMMA MoveKeeps ==
  ASSUME SandboxInv, NEW c \in Create, MoveTemplate(c)
  PROVE  SandboxInv'
<1> USE SandboxAssumption
<1>1. SandboxTypeOK /\ step[c] = "move" /\ c \in Call
  BY DEF SandboxInv, MoveTemplate, Call
<1>2. UNCHANGED <<extracting, port, listening, process, metadata, metadataCache, status, misread, losses,
                  clashed>>
  BY DEF MoveTemplate, network, bookkeeping
<1>3. c \notin process
  BY <1>1 DEF SandboxInv, PortInv, PortsGiven
<1>4. CASE template = None
  <2>1. Goto(c, "failed") /\ "failed" \in Step
    BY <1>4 DEF MoveTemplate, Step
  <2>2. UNCHANGED <<template, directory, disturbed>> /\ spoiled' = spoiled
    BY <1>4 DEF MoveTemplate
  <2>3. /\ step' \in [Call -> Step] /\ step'[c] = "failed"
        /\ \A d \in Call : d # c => step'[d] = step[d]
    BY <1>1, <2>1, Goes
  <2>4. SandboxTypeOK'
    BY <1>1, <1>2, <2>2, <2>3 DEF SandboxTypeOK
  <2>5. PortInv' /\ MetadataKept'
    BY <1>1, <1>2, <1>3, <2>1, PortsKept, MetadataStays DEF Early, Late, bookkeeping
  <2>6. TemplateWhole'
    BY <1>2, <1>4, <2>2, <2>3 DEF SandboxInv, DiskInv, TemplateWhole
  <2>7. DirectoriesWhole'
    BY <2>2, <2>3 DEF SandboxInv, DiskInv, DirectoriesWhole, Call, Late
  <2> QED
    BY <2>4, <2>5, <2>6, <2>7 DEF SandboxInv, DiskInv
<1>5. CASE template # None
  <2>1. /\ Goto(c, "allocate") /\ "allocate" \in Step
        /\ directory' = [directory EXCEPT ![c] = template] /\ template' = None
    BY <1>5 DEF MoveTemplate, Step
  <2>2. /\ disturbed' = IF Extracting # {} \/ spoiled
                        THEN disturbed \cup Extracting \cup {c} ELSE disturbed
    BY <1>5 DEF MoveTemplate
  <2>3. spoiled' \in BOOLEAN /\ (spoiled' <=> Extracting # {})
    BY <1>5, Zenon DEF MoveTemplate
  <2>4. /\ step' \in [Call -> Step] /\ step'[c] = "allocate"
        /\ \A d \in Call : d # c => step'[d] = step[d]
    BY <1>1, <2>1, Goes
  <2>5. Extracting \subseteq Call /\ Extracting' = Extracting
    BY <1>1, <2>4 DEF Extracting
  <2>6. /\ directory' \in [Create -> (SUBSET TemplateFiles) \cup {None}] /\ directory'[c] = template
        /\ \A d \in Create : d # c => directory'[d] = directory[d]
    BY <1>1, <1>5, <2>1 DEF SandboxTypeOK
  <2>7. disturbed' \subseteq Call /\ disturbed \subseteq disturbed'
    BY <1>1, <2>2, <2>5 DEF SandboxTypeOK
  <2>8. SandboxTypeOK'
    BY <1>1, <1>2, <2>1, <2>3, <2>4, <2>6, <2>7 DEF SandboxTypeOK
  <2>9. PortInv' /\ MetadataKept'
    BY <1>1, <1>2, <1>3, <2>1, PortsKept, MetadataStays DEF Early, Late, bookkeeping
  <2>10. TemplateWhole'
    <3>1. ~spoiled' => \A d \in Call : step'[d] # "extract"
      BY <2>3, <2>5 DEF Extracting
    <3> QED
      BY <2>1, <3>1 DEF TemplateWhole
  <2>11. c \notin disturbed' => directory'[c] = TemplateFiles
    BY <1>5, <2>2, <2>6 DEF SandboxInv, DiskInv, TemplateWhole
  <2>12. DirectoriesWhole'
    BY <2>4, <2>6, <2>7, <2>11 DEF SandboxInv, DiskInv, DirectoriesWhole, Call
  <2> QED
    BY <2>8, <2>9, <2>10, <2>12 DEF SandboxInv, DiskInv
<1> QED
  BY <1>4, <1>5

\* A port is given: to an instance that had none, and whoever shares it is marked.
LEMMA AllocateKeeps ==
  ASSUME SandboxInv, NEW c \in Create, AllocateAvailablePort(c)
  PROVE  SandboxInv'
<1> USE SandboxAssumption
<1>1. SandboxTypeOK /\ step[c] = "allocate" /\ c \in Call
  BY DEF SandboxInv, AllocateAvailablePort, Call
<1>2. /\ UNCHANGED <<template, extracting, directory, listening, process, metadata, metadataCache,
                     status, misread, losses, disturbed>>
      /\ spoiled' = spoiled
  BY DEF AllocateAvailablePort, disk, bookkeeping
<1>3. c \notin process /\ port[c] = 0
  BY <1>1 DEF SandboxInv, PortInv, PortsGiven, Early
<1>4. CASE FreePorts = {}
  <2>1. Goto(c, "failed") /\ UNCHANGED <<port, clashed>> /\ "failed" \in Step
    BY <1>4 DEF AllocateAvailablePort, Step
  <2>2. step' \in [Call -> Step]
    BY <1>1, <2>1, Goes
  <2>3. SandboxTypeOK'
    BY <1>1, <1>2, <2>1, <2>2 DEF SandboxTypeOK
  <2>4. PortInv' /\ MetadataKept'
    BY <1>1, <1>2, <1>3, <2>1, PortsKept, MetadataStays DEF Early, Late, bookkeeping
  <2>5. DiskInv'
    BY <1>1, <1>2, <2>1, DiskKept DEF disk
  <2> QED
    BY <2>3, <2>4, <2>5 DEF SandboxInv
<1>5. CASE FreePorts # {}
  <2>1. PICK p \in FreePorts :
          /\ port' = [port EXCEPT ![c] = p]
          /\ clashed' = IF {d \in Create : port[d] = p} = {} THEN clashed
                        ELSE clashed \cup {d \in Create : port[d] = p} \cup {c}
          /\ Goto(c, "install")
    BY <1>5 DEF AllocateAvailablePort
  <2>2. p \in Port /\ p # 0 /\ listening[p] = NoOne
    BY <2>1 DEF FreePorts, Port
  <2>3. "install" \in Step /\ "install" \in Late
    BY DEF Step, Late
  <2>4. /\ step' \in [Call -> Step] /\ step'[c] = "install"
        /\ \A d \in Call : d # c => step'[d] = step[d]
    BY <1>1, <2>1, <2>3, Goes
  <2>5. /\ port' \in [Create -> 0 .. MaxPort] /\ port'[c] = p
        /\ \A d \in Create : d # c => port'[d] = port[d]
    BY <1>1, <2>1, <2>2 DEF SandboxTypeOK, Port
  <2>6. /\ clashed' \subseteq Create /\ clashed \subseteq clashed'
        /\ \A d \in Create : port[d] = p => d \in clashed' /\ c \in clashed'
    BY <1>1, <2>1 DEF SandboxTypeOK
  <2>7. SandboxTypeOK'
    BY <1>1, <1>2, <2>4, <2>5, <2>6 DEF SandboxTypeOK
  <2>8. PortsGiven'
    BY <1>2, <1>3, <2>2, <2>4, <2>5 DEF SandboxInv, PortInv, PortsGiven, Call, Early, Late
  <2>9. PortsHeld'
    <3> SUFFICES ASSUME NEW q \in Port, listening[q] # NoOne PROVE port'[listening[q]] = q
      BY <1>2 DEF PortsHeld
    <3>1. listening[q] \in Create /\ port[listening[q]] = q
      BY <1>1 DEF SandboxInv, PortInv, PortsHeld, SandboxTypeOK
    <3>2. listening[q] # c
      BY <1>3, <3>1 DEF Port
    <3> QED
      BY <2>5, <3>1, <3>2
  <2>10. SharersClash'
    <3> SUFFICES ASSUME NEW a \in Create, NEW b \in Create, a # b, port'[a] = port'[b], port'[a] # 0
                 PROVE  a \in clashed'
      BY DEF SharersClash
    <3>1. CASE a # c /\ b # c
      BY <2>5, <2>6, <3>1 DEF SandboxInv, PortInv, SharersClash
    <3>2. CASE a = c \/ b = c
      BY <2>5, <2>6, <3>2
    <3> QED
      BY <3>1, <3>2
  <2>11. DiskInv'
    BY <1>1, <1>2, <2>1, <2>3, DiskKept DEF disk
  <2>12. MetadataKept'
    BY <1>1, <1>2, <2>1, <2>3, MetadataStays DEF bookkeeping
  <2> QED
    BY <2>7, <2>8, <2>9, <2>10, <2>11, <2>12 DEF SandboxInv, PortInv
<1> QED
  BY <1>4, <1>5

\* Installation, start and exposure of an instance that has its directory and its port.
LEMMA StartKeeps ==
  ASSUME SandboxInv, NEW c \in Create, Install(c) \/ StartDevServer(c) \/ ExposePort(c)
  PROVE  SandboxInv'
<1> USE SandboxAssumption
<1>1. SandboxTypeOK /\ c \in Call /\ step[c] \in {"install", "start", "expose"} /\ step[c] \in Late
  BY DEF SandboxInv, Call, Install, StartDevServer, ExposePort, Late
<1>2. PICK s \in {"start", "expose", "ready", "failed"} : Goto(c, s)
  BY DEF Install, StartDevServer, ExposePort
<1>3. s \in Step /\ s \in Late \cup {"failed"} /\ (s \in Early => step[c] \in Early)
  BY DEF Step, Late, Early
<1>4. /\ step' \in [Call -> Step] /\ step'[c] = s
      /\ \A d \in Call : d # c => step'[d] = step[d]
  BY <1>1, <1>2, <1>3, Goes
<1>5. /\ UNCHANGED <<disk, port, listening, status, misread, losses, disturbed, clashed>>
      /\ spoiled' = spoiled
  BY DEF Install, StartDevServer, ExposePort, network, bookkeeping
<1>6. /\ process' = process \/ process' = process \cup {c}
      /\ c \in process' => s \in {"expose", "ready", "failed"} /\ (c \in process \/ s \in Late)
  <2>1. c \in process => step[c] = "expose"
    BY <1>1 DEF SandboxInv, PortInv, PortsGiven
  <2>2. CASE Install(c) \/ ExposePort(c)
    <3>1. process' = process /\ (step[c] = "expose" => s \in {"ready", "failed"})
      BY <1>4, <2>2, <1>1 DEF Install, ExposePort, network, Goto, SandboxTypeOK
    <3> QED
      BY <2>1, <3>1
  <2>3. CASE StartDevServer(c)
    <3>1. c \notin process
      BY <2>1, <2>3 DEF StartDevServer
    <3>2. \/ process' = process
          \/ process' = process \cup {c} /\ Goto(c, "expose")
      BY <2>3 DEF StartDevServer
    <3>3. Goto(c, "expose") => s = "expose"
      BY <1>1, <1>4 DEF Goto, SandboxTypeOK
    <3> QED
      BY <3>1, <3>2, <3>3 DEF Late
  <2> QED
    BY <2>2, <2>3 DEF Late
<1>7. /\ metadata \subseteq metadata' /\ metadata' \subseteq Create /\ metadataCache' \subseteq Create
      /\ s = "ready" => c \in metadata'
  <2>1. CASE Install(c) \/ StartDevServer(c)
    <3>1. metadata' = metadata /\ metadataCache' = metadataCache
      BY <2>1 DEF Install, StartDevServer, bookkeeping
    <3>2. s # "ready"
      BY <1>1, <1>4, <2>1 DEF Install, StartDevServer, Goto, SandboxTypeOK
    <3> QED
      BY <1>1, <3>1, <3>2 DEF SandboxTypeOK
  <2>2. CASE ExposePort(c)
    <3>1. Goto(c, "failed") => s # "ready"
      BY <1>1, <1>4 DEF Goto, SandboxTypeOK
    <3> QED
      BY <1>1, <2>2, <3>1 DEF ExposePort, SandboxTypeOK
  <2> QED
    BY <2>1, <2>2
<1>8. SandboxTypeOK'
  BY <1>1, <1>4, <1>5, <1>6, <1>7 DEF SandboxTypeOK, disk
<1>9. PortInv'
  BY <1>1, <1>2, <1>3, <1>5, <1>6, PortsKept
<1>10. DiskInv'
  BY <1>1, <1>2, <1>3, <1>5, DiskKept
<1>11. MetadataKept'
  BY <1>4, <1>5, <1>7 DEF SandboxInv, MetadataKept, Call
<1> QED
  BY <1>8, <1>9, <1>10, <1>11 DEF SandboxInv

-----------------------------------------------------------------------------
\* Servers come up and go down on the port of their own instance.
LEMMA ServersKeep ==
  ASSUME SandboxInv, NEW c \in Create, ServerListens(c) \/ ServerDown(c)
  PROVE  SandboxInv'
<1> USE SandboxAssumption
<1>1. /\ SandboxTypeOK /\ c \in process
      /\ UNCHANGED <<template, extracting, directory, port, metadata, metadataCache, status, misread, step,
                     losses, disturbed, clashed>>
      /\ spoiled' = spoiled
  BY DEF SandboxInv, ServerListens, ServerDown, disk, bookkeeping
<1>2. port[c] \in Port
  BY <1>1 DEF SandboxInv, PortInv, PortsGiven, Late
<1>3. process' \subseteq process
  BY DEF ServerListens, ServerDown
<1>4. /\ listening' \in [Port -> Create \cup {NoOne}]
      /\ \A p \in Port : listening'[p] \in {listening[p], NoOne} \/ (p = port[c] /\ listening'[p] = c)
  <2>1. CASE ServerListens(c)
    BY <1>1, <1>2, <2>1 DEF ServerListens, SandboxTypeOK
  <2>2. CASE ServerDown(c)
    BY <1>1, <2>2 DEF ServerDown, SandboxTypeOK
  <2> QED
    BY <2>1, <2>2
<1>5. SandboxTypeOK'
  BY <1>1, <1>3, <1>4 DEF SandboxTypeOK
<1>6. PortInv'
  <2>1. PortsGiven' /\ SharersClash'
    BY <1>1, <1>3 DEF SandboxInv, PortInv, PortsGiven, SharersClash
  <2>2. PortsHeld'
    BY <1>1, <1>4 DEF SandboxInv, PortInv, PortsHeld
  <2> QED
    BY <2>1, <2>2 DEF PortInv
<1>7. DiskInv' /\ MetadataKept'
  BY <1>1 DEF SandboxInv, DiskInv, TemplateWhole, DirectoriesWhole, MetadataKept, Extracting
<1> QED
  BY <1>5, <1>6, <1>7 DEF SandboxInv

\* Everything in the container is gone.
LEMMA LossKeeps ==
  ASSUME SandboxInv, ContainerLost
  PROVE  SandboxInv'
<1> USE SandboxAssumption
<1>1. /\ SandboxTypeOK /\ losses < MaxLosses /\ losses' = losses + 1
      /\ template' = None /\ directory' = [c \in Create |-> None]
      /\ listening' = [p \in Port |-> NoOne] /\ process' = {} /\ metadata' = {}
      /\ disturbed' = Call
      /\ UNCHANGED <<extracting, step, port, metadataCache, status, misread, clashed>>
  BY DEF SandboxInv, ContainerLost
<1>2. spoiled' \in BOOLEAN /\ (spoiled' <=> Extracting # {})
  BY Zenon DEF ContainerLost
<1>3. losses' \in 0 .. MaxLosses /\ losses' # 0
  BY <1>1 DEF SandboxTypeOK
<1>4. SandboxTypeOK'
  BY <1>1, <1>2, <1>3 DEF SandboxTypeOK
<1>5. PortInv'
  BY <1>1 DEF SandboxInv, PortInv, PortsGiven, PortsHeld, SharersClash
<1>6. TemplateWhole'
  <2>1. ~spoiled' => \A d \in Call : step'[d] # "extract"
    BY <1>1, <1>2 DEF Extracting
  <2> QED
    BY <1>1, <2>1 DEF TemplateWhole
<1>7. DirectoriesWhole' /\ MetadataKept'
  BY <1>1, <1>3 DEF DirectoriesWhole, MetadataKept, Call
<1> QED
  BY <1>4, <1>5, <1>6, <1>7 DEF SandboxInv, DiskInv

\* Clients come, go and ask for the status.
LEMMA ClientsKeep ==
  ASSUME SandboxInv, NEW c \in Create, EvictClient(c) \/ GetInstanceStatus(c)
  PROVE  SandboxInv'
<1> USE SandboxAssumption
<1>1. /\ SandboxTypeOK /\ step[c] = "ready"
      /\ UNCHANGED <<template, extracting, directory, port, listening, process, metadata, step,
                     losses, disturbed, clashed>>
      /\ spoiled' = spoiled
  BY DEF SandboxInv, EvictClient, GetInstanceStatus, disk, network
<1>2. /\ metadataCache' \subseteq Create /\ status' \in {"unknown", "success", "failure"} /\ misread' \subseteq Create
      /\ misread \subseteq misread'
      /\ c \in metadata => status' \in {"success", status} \/ misread' # {}
  <2>1. CASE EvictClient(c)
    BY <1>1, <2>1 DEF EvictClient, SandboxTypeOK
  <2>2. CASE GetInstanceStatus(c)
    <3> DEFINE Answers == IF c \in metadataCache THEN {TRUE} ELSE {FALSE, (c \in metadata)}
    <3>1. PICK found \in Answers :
            /\ status' = IF found THEN "success" ELSE "failure"
            /\ metadataCache' = IF found THEN metadataCache \cup {c} ELSE metadataCache
            /\ misread' = IF c \in metadata /\ ~found THEN misread \cup {c} ELSE misread
      BY <2>2 DEF GetInstanceStatus
    <3>2. CASE found
      BY <1>1, <3>1, <3>2 DEF SandboxTypeOK
    <3>3. CASE ~found
      BY <1>1, <3>1, <3>3 DEF SandboxTypeOK
    <3> QED
      BY <3>2, <3>3
  <2> QED
    BY <2>1, <2>2
<1>3. SandboxTypeOK'
  BY <1>1, <1>2 DEF SandboxTypeOK
<1>4. PortInv' /\ DiskInv'
  BY <1>1 DEF SandboxInv, PortInv, PortsGiven, PortsHeld, SharersClash,
              DiskInv, TemplateWhole, DirectoriesWhole, Extracting
<1>5. MetadataKept'
  BY <1>1, <1>2 DEF SandboxInv, MetadataKept
<1> QED
  BY <1>3, <1>4, <1>5 DEF SandboxInv

-----------------------------------------------------------------------------
\* Every step of the agents, the servers and the container keeps the invariant.
LEMMA SandboxStep == SandboxInv /\ [SandboxNext]_sandboxVars => SandboxInv'
<1> SUFFICES ASSUME SandboxInv, [SandboxNext]_sandboxVars PROVE SandboxInv'
  OBVIOUS
<1>1. CASE UNCHANGED sandboxVars
  <2>1. /\ UNCHANGED <<template, extracting, directory, port, listening, process, metadata,
                       metadataCache, status, misread, step, losses, disturbed, clashed>>
        /\ spoiled' = spoiled
    BY <1>1 DEF sandboxVars, disk, network, bookkeeping
  <2>2. SandboxTypeOK' /\ PortInv'
    BY <2>1 DEF SandboxInv, SandboxTypeOK, PortInv, PortsGiven, PortsHeld, SharersClash
  <2>3. DiskInv' /\ MetadataKept'
    BY <2>1 DEF SandboxInv, DiskInv, TemplateWhole, DirectoriesWhole, Extracting, MetadataKept
  <2> QED
    BY <2>2, <2>3 DEF SandboxInv
<1>2. ASSUME NEW c \in Call, TemplateStep(c) PROVE SandboxInv'
  BY <1>2, CheckKeeps, UnzipKeeps, ExtractFailsKeeps DEF TemplateStep
<1>3. ASSUME NEW c \in Create, CreateStep(c) PROVE SandboxInv'
  BY <1>3, MoveKeeps, AllocateKeeps, StartKeeps DEF CreateStep
<1> QED
  BY <1>1, <1>2, <1>3, ServersKeep, ClientsKeep, LossKeeps DEF SandboxNext

\* The invariant holds throughout.
LEMMA SandboxInvariant == SandboxSpec => []SandboxInv
  BY SandboxInitially, SandboxStep, PTL DEF SandboxSpec

\* The container's files, ports and processes and the clients' records stay within
\* their types; in particular no server is ever bound to a port that was not given.
THEOREM SandboxTypeCorrect == SandboxSpec => []SandboxTypeOK
  BY SandboxInvariant, SandboxInvImplies, PTL

\* An instance whose unpacking and moving met no other has the whole template.
THEOREM InstancesComplete == SandboxSpec => []CreatedComplete
  BY SandboxInvariant, SandboxInvImplies, PTL

\* An instance that never had to share its port is never shown another one's app.
THEOREM PreviewsSeparate == SandboxSpec => []PreviewShowsOwnApp
  BY SandboxInvariant, SandboxInvImplies, PTL

\* For any number of instances, clients and evictions a status check fails only after
\* the container was lost, or when a client without a cached copy could not read the
\* metadata although it was there.
THEOREM StatusReliable == SandboxSpec => []NoFalseAlarm
  BY SandboxInvariant, SandboxInvImplies, PTL
=============================================================================
