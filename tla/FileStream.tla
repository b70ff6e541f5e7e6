----------------------------- MODULE FileStream -----------------------------
(***************************************************************************)
(* How the files of a phase come out of the model's answer.  The answer    *)
(* arrives as a stream of tokens; infer() hands it on in chunks cut        *)
(* anywhere, the SCOF parser puts lines together again and recognises the  *)
(* "cat > file << 'EOF'" blocks, and every closed block becomes a file of  *)
(* the phase.  When the stream breaks, executeInference starts the answer  *)
(* again and the parser carries on from the state it was left in.          *)
(*                                                                         *)
(* A line is a sequence of tokens; the tokens are the pieces of a line     *)
(* that the parser tells apart.  A diff is made of added lines.            *)
(***************************************************************************)
EXTENDS Integers, Sequences, SequencesExt, FiniteSets, Lists

CONSTANTS
    File,
    OldFiles,       \* files that exist before the phase
    Garbled,        \* a file name run together with the text that follows it
    NoFile,
    retryLimit,
    chunk_size,     \* in tokens: an upper bound, tokens being of any length
    MaxLines        \* bound: lines the model writes

ASSUME StreamAssumption ==
    /\ IsFiniteSet(File) /\ OldFiles \subseteq File
    /\ Garbled \notin File /\ NoFile \notin File \cup {Garbled}
    /\ retryLimit \in Nat \ {0} /\ chunk_size \in Nat \ {0} /\ MaxLines \in Nat

VARIABLES
    parser,         \* scofState, and the files it has completed
    slice,          \* received and not yet handed on by infer()
    writing,        \* the line being written, and how much of it was received
    lines,          \* lines begun, for the bound MaxLines
    attempt,
    streaming,      \* executeInference has not returned
    generatedFilesMap,
    script,         \* history: what was handed on of the answer, read line by line
    ahead           \* history: what was received of it, read line by line

streamVars == <<parser, slice, writing, lines, attempt, streaming, generatedFilesMap, script, ahead>>

-----------------------------------------------------------------------------
(* Tokens and lines. *)

Word(k) == [kind |-> k, file |-> NoFile]
NewLine == Word("newline")
Pad == Word("pad")                  \* white space
Marker == Word("EOF")
Text == Word("text")
Added == Word("added")              \* a line of a diff, "+text"
InstallCommand == Word("install")
Here == Word("here")
CatHere == Word("cathere")       \* the first half of "cat << 'EOF' | patch f"
Cat(f) == [kind |-> "cat", file |-> f]        \* the first half of "cat > f << 'EOF'"
Patch(f) == [kind |-> "patch", file |-> f]

Token == {NewLine, Pad, Marker, Text, Added, InstallCommand, Here, CatHere}
         \cup {Cat(f) : f \in File} \cup {Patch(f) : f \in File}
Heads == {CatHere} \cup {Cat(f) : f \in File}
Names(l) == {t.file : t \in Range(l)} \ {NoFile}

(* trim() *)
Trimmed(l) ==
    LET said == {k \in DOMAIN l : l[k] # Pad}
    IN  IF said = {} THEN <<>> ELSE SubSeq(l, Min(said), Max(said))
IsBlank(l) == Trimmed(l) = <<>>

(* What the model may write next, outside a block and in a block of each kind. *)
Creations == {<<Cat(f), Here, NewLine>> : f \in File} \cup {<<Cat(f), NewLine, Here, NewLine>> : f \in File}
Patches == {<<CatHere, Patch(f), NewLine>> : f \in File}
Endings == {<<Marker, NewLine>>, <<Marker, Pad, NewLine>>}
Lookalikes == {<<Marker, Text, NewLine>>}   \* content that begins like the marker: "EOFError"
Lines(mode) == CASE mode = "idle"          -> Creations \cup Patches \cup {<<InstallCommand, NewLine>>}
                 [] mode = "file_creation" -> Endings \cup Lookalikes \cup {<<Text, NewLine>>, <<Pad, NewLine>>}
                 [] mode = "diff_patch"    -> Endings \cup {<<Added, NewLine>>}

-----------------------------------------------------------------------------
(* Files. *)

(* applyDiff: added lines go to the end; text without change markers leaves the file as it is. *)
ApplyDiff(original, diff) ==
    LET added == Picked(diff, {k \in DOMAIN diff : diff[k][1] = Added})
    IN  original \o [k \in DOMAIN added |-> [added[k] EXCEPT ![1] = Text]]

OriginalContents(f) == IF f \in OldFiles THEN <<<<Text>>>> ELSE <<>>

(* What onFileClose makes of a block the parser has completed. *)
ProcessGeneratedFileContents(f, mode, contents) ==
    IF mode = "diff_patch" THEN ApplyDiff(OriginalContents(f), contents) ELSE contents

-----------------------------------------------------------------------------
(* The parser.  insideEofBlock is currentFile # NoFile, parsingMultiLineCommand is
   commandBuffer # <<>>, and of betweenFilesBuffer only the install commands matter.  openedFiles
   and closedFiles never keep a callback from being called: a block is opened only when none is
   open, and opening a file takes it off the closed ones. *)

ScofState == [currentMode          : {"idle", "file_creation", "diff_patch"},
              currentFile          : File \cup {Garbled, NoFile},
              contentBuffer        : Seq(Seq(Token)),
              partialLineBuffer    : Seq(Token),
              commandBuffer        : Seq(Token),
              betweenFilesBuffer   : SUBSET {InstallCommand},
              extractedInstallCommands : SUBSET {InstallCommand},
              completedFiles       : [File \cup {Garbled} -> Seq(Seq(Token)) \cup {NoFile}],
              fixedFilePromises    : Seq([file : File \cup {Garbled}, contents : Seq(Seq(Token))])]

InitializeSCOFState ==
    [currentMode |-> "idle", currentFile |-> NoFile, contentBuffer |-> <<>>,
     partialLineBuffer |-> <<>>, commandBuffer |-> <<>>,
     betweenFilesBuffer |-> {}, extractedInstallCommands |-> {},
     completedFiles |-> [f \in File \cup {Garbled} |-> NoFile], fixedFilePromises |-> <<>>]

(* The commands a line holds.  The patterns are not anchored, file creation is tried first, and a
   name goes on to the next white space. *)
CreationsIn(l) == {k \in 1 .. Len(l) - 1 : l[k].kind = "cat" /\ l[k + 1] \in {Here, CatHere}}
PatchesIn(l) == {k \in 1 .. Len(l) - 1 : l[k] = CatHere /\ l[k + 1].kind = "patch"}
IsCommand(l) == CreationsIn(l) # {} \/ PatchesIn(l) # {}
TryParseCommand(l) ==
    IF CreationsIn(l) # {}
    THEN LET k == Min(CreationsIn(l))
         IN  [type |-> "file_creation", filePath |-> IF l[k + 1] = Here THEN l[k].file ELSE Garbled]
    ELSE LET k == Min(PatchesIn(l))
         IN  [type |-> "diff_patch", filePath |-> IF k + 1 = Len(l) THEN l[k + 1].file ELSE Garbled]

HandleCommand(p, command) ==
    [p EXCEPT !.currentMode = command.type, !.currentFile = command.filePath,
              !.contentBuffer = <<>>, !.commandBuffer = <<>>]

FinalizeCurrentFile(p) ==
    LET f == p.currentFile
        existing == p.completedFiles[f]
        final == IF p.currentMode = "diff_patch" /\ existing \notin {NoFile, <<>>}
                 THEN ApplyDiff(existing, p.contentBuffer) ELSE p.contentBuffer
        contents == ProcessGeneratedFileContents(f, p.currentMode, final)
    IN  [p EXCEPT !.completedFiles[f] = contents,
                  !.fixedFilePromises = Append(@, [file |-> f, contents |-> contents]),
                  !.currentMode = "idle", !.currentFile = NoFile, !.contentBuffer = <<>>]

(* White space is kept only at the beginning of a file. *)
AddContentLine(p, l) ==
    IF ~IsBlank(l) \/ (p.contentBuffer = <<>> /\ l # <<>>)
    THEN [p EXCEPT !.contentBuffer = Append(@, l)] ELSE p

ProcessAccumulatedBetweenFilesContent(p) ==
    [p EXCEPT !.extractedInstallCommands = @ \cup p.betweenFilesBuffer, !.betweenFilesBuffer = {}]

(* A line outside the blocks: a command, more of one that spans lines, or text that may hold an
   install command. *)
LineBetweenFiles(p, l) ==
    LET more == p.commandBuffer \o l
        q == IF l[1] = InstallCommand THEN [p EXCEPT !.betweenFilesBuffer = {InstallCommand}] ELSE p
    IN  CASE IsCommand(l) -> HandleCommand(p, TryParseCommand(l))
          [] ~IsCommand(l) /\ p.commandBuffer # <<>> /\ IsCommand(more) ->
                HandleCommand(q, TryParseCommand(more))
          [] ~IsCommand(l) /\ p.commandBuffer # <<>> /\ ~IsCommand(more) ->
                [q EXCEPT !.commandBuffer = more]
          [] ~IsCommand(l) /\ p.commandBuffer = <<>> /\ Heads \cap Range(l) # {} ->
                [q EXCEPT !.commandBuffer = l]
          [] OTHER -> q

ProcessLine(p, l) ==
    CASE p.currentFile # NoFile /\ Trimmed(l) = <<Marker>> -> FinalizeCurrentFile(p)
      [] p.currentFile # NoFile /\ Trimmed(l) # <<Marker>> -> AddContentLine(p, l)
      [] p.currentFile = NoFile /\ IsBlank(l) -> p
      [] OTHER -> LineBetweenFiles(ProcessAccumulatedBetweenFilesContent(p), Trimmed(l))

(* split('\n'), a token at a time: a newline completes the line that was begun. *)
ProcessToken(p, t) ==
    IF t = NewLine THEN ProcessLine([p EXCEPT !.partialLineBuffer = <<>>], p.partialLineBuffer)
                   ELSE [p EXCEPT !.partialLineBuffer = Append(@, t)]

ProcessTokens(p, chunk) ==
    LET after[k \in 0 .. Len(chunk)] == IF k = 0 THEN p ELSE ProcessToken(after[k - 1], chunk[k])
    IN  after[Len(chunk)]

(* A line that is not complete is kept for the next chunk, unless it reads like the marker that ends
   the block: then the block is closed, whatever the line goes on with. *)
CloseAtMarker(p) ==
    IF p.currentFile # NoFile /\ Trimmed(p.partialLineBuffer) = <<Marker>>
    THEN ProcessLine([p EXCEPT !.partialLineBuffer = <<>>], p.partialLineBuffer) ELSE p

\* Mutant of ParseStreamingChunks: the broken line is not put together again.
ParseStreamingChunksAfresh(p, chunk) ==
    CloseAtMarker(ProcessTokens([p EXCEPT !.partialLineBuffer = <<>>], chunk))

ParseStreamingChunks(p, chunk) == CloseAtMarker(ProcessTokens(p, chunk))

-----------------------------------------------------------------------------
(* The same answer, read line by line: what the model meant.  lostSync says that the parser takes
   the beginning of a retry for the rest of a block or of a line, or the rest of a block for text
   between the blocks; spoilt are the files of the blocks run together or cut short, repatched the
   files patched after the same answer had written them, and due the install commands that a block
   follows. *)

Script == [mode : {"idle", "file_creation", "diff_patch"}, file : File \cup {NoFile},
           contents : Seq(Seq(Token)), files : [File -> Seq(Seq(Token))], written : SUBSET File,
           installs : SUBSET {InstallCommand}, due : SUBSET {InstallCommand}, lostSync : BOOLEAN,
           spoilt : SUBSET (File \cup {Garbled}), repatched : SUBSET File]

InitialScript == [mode |-> "idle", file |-> NoFile, contents |-> <<>>,
                  files |-> [f \in File |-> OriginalContents(f)], written |-> {},
                  installs |-> {}, due |-> {}, lostSync |-> FALSE, spoilt |-> {}, repatched |-> {}]

ReadOpening(r, mode, f) ==
    [r EXCEPT !.mode = mode, !.file = f, !.contents = <<>>,
              !.spoilt = IF r.lostSync THEN @ \cup {f} ELSE @]

ReadEnding(r) ==
    [r EXCEPT !.mode = "idle", !.file = NoFile, !.lostSync = FALSE,
              !.written = @ \cup {r.file},
              !.due = IF r.lostSync THEN @ ELSE @ \cup r.installs,
              !.files[r.file] = IF r.mode = "diff_patch" THEN ApplyDiff(@, r.contents) ELSE r.contents,
              !.spoilt = IF r.mode = "diff_patch" \/ r.lostSync THEN @ ELSE @ \ {r.file},
              !.repatched = CASE r.mode = "file_creation" -> @ \ {r.file}
                              [] r.mode = "diff_patch" /\ r.file \in r.written -> @ \cup {r.file}
                              [] OTHER -> @]

ReadLine(r, l) ==
    CASE l \in Creations -> ReadOpening(r, "file_creation", l[1].file)
      [] l \in Patches -> ReadOpening(r, "diff_patch", l[2].file)
      [] l \in Endings -> ReadEnding(r)
      [] l[1] = InstallCommand -> [r EXCEPT !.installs = IF r.lostSync THEN @ ELSE {InstallCommand}]
      [] OTHER -> [r EXCEPT !.contents = Append(@, Front(l))]

(* A chunk ended inside a line that begins like the marker: the parser has closed the block. *)
ReadCut(r, line) ==
    IF line.text \in Lookalikes /\ line.sent = 1
    THEN [r EXCEPT !.lostSync = TRUE, !.spoilt = @ \cup {r.file},
                   !.due = @ \cup r.installs, !.installs = {}]
    ELSE r

-----------------------------------------------------------------------------
NoLine == [text |-> <<>>, sent |-> 0]

StreamInit ==
    /\ parser = InitializeSCOFState
    /\ slice = <<>> /\ writing = NoLine /\ lines = 0
    /\ attempt = 0 /\ streaming = TRUE
    /\ generatedFilesMap = [f \in File \cup {Garbled} |-> OriginalContents(f)]
    /\ script = InitialScript /\ ahead = InitialScript

HandOn(chunk) == parser' = ParseStreamingChunks(parser, chunk)

(* The model begins a line. *)
BeginLine(l) ==
    /\ streaming /\ writing.sent = Len(writing.text) /\ lines < MaxLines
    /\ l \in Lines(ahead.mode)
    /\ writing' = [text |-> l, sent |-> 0] /\ lines' = lines + 1
    /\ UNCHANGED <<parser, slice, attempt, streaming, generatedFilesMap, script, ahead>>

SaysMore(k) == writing.text[k] \notin {Pad, NewLine}

(* infer() receives some more of the line; with enough of it, the whole slice is handed on. *)
StreamEvent(handOn) ==
    /\ streaming /\ writing.sent < Len(writing.text)
    /\ LET received == Append(slice, writing.text[writing.sent + 1])
           lineRead == /\ SaysMore(writing.sent + 1)
                       /\ \A k \in writing.sent + 2 .. Len(writing.text) : ~SaysMore(k)
           read == IF lineRead THEN ReadLine(ahead, writing.text) ELSE ahead
       IN  /\ writing' = [writing EXCEPT !.sent = @ + 1]
           /\ \/ handOn /\ HandOn(received) /\ slice' = <<>>
                 /\ ahead' = ReadCut(read, writing') /\ script' = ahead'
              \/ ~handOn /\ Len(received) < chunk_size
                 /\ slice' = received /\ ahead' = read /\ UNCHANGED <<parser, script>>
    /\ UNCHANGED <<lines, attempt, streaming, generatedFilesMap>>

(* executeInference returns: execute() takes the files closed so far, in the order of their
   closing, and implementPhase saves them. *)
Saved(map, files) ==
    [f \in File \cup {Garbled} |->
        LET closings == {k \in DOMAIN files : files[k].file = f}
        IN  IF closings = {} THEN map[f] ELSE files[Max(closings)].contents]
Save(p) ==
    /\ streaming' = FALSE
    /\ generatedFilesMap' = Saved(generatedFilesMap, p.fixedFilePromises)

(* The stream ends, perhaps in the middle of a line. *)
StreamFinished ==
    /\ streaming
    /\ HandOn(slice) /\ slice' = <<>>
    /\ script' = ReadCut(ahead, writing)
    /\ Save(parser')
    /\ UNCHANGED <<writing, lines, attempt, ahead>>

(* The stream breaks, or the call fails: what was not handed on is lost, and the answer begins
   again with the parser as it is, or is given up. *)
OutOfStep == parser.currentFile # NoFile \/ ~IsBlank(parser.partialLineBuffer)
Interrupted == Names(parser.commandBuffer \o parser.partialLineBuffer) \cup ({parser.currentFile} \ {NoFile})
AttemptFails ==
    /\ streaming
    /\ slice' = <<>> /\ writing' = NoLine
    /\ script' = [script EXCEPT !.mode = "idle", !.file = NoFile, !.contents = <<>>,
                                !.installs = {},
                                !.lostSync = OutOfStep,
                                !.spoilt = IF OutOfStep THEN @ \cup Interrupted ELSE @]
    /\ ahead' = script'
    /\ attempt' = attempt + 1
    /\ IF attempt = retryLimit - 1 THEN Save(parser) ELSE UNCHANGED <<streaming, generatedFilesMap>>
    /\ UNCHANGED <<parser, lines>>

StreamNext ==
    \/ \E l \in UNION {Lines(m) : m \in {"idle", "file_creation", "diff_patch"}} : BeginLine(l)
    \/ \E handOn \in BOOLEAN : StreamEvent(handOn)
    \/ StreamFinished
    \/ AttemptFails

StreamSpec == StreamInit /\ [][StreamNext]_streamVars

-----------------------------------------------------------------------------
\* The parser, infer()'s slice and the saved files stay within their types.
StreamTypeOK ==
    /\ parser \in ScofState
    /\ slice \in Seq(Token)
    /\ attempt \in 0 .. retryLimit /\ lines \in 0 .. MaxLines
    /\ generatedFilesMap \in [File \cup {Garbled} -> Seq(Seq(Token))]
    /\ script \in Script /\ ahead \in Script
    /\ writing \in [text : Seq(Token), sent : 0 .. 4] /\ writing.sent <= Len(writing.text)

\* A phase gets what the model wrote, however the answer was cut into chunks and
\* however often it began again.  Blank lines aside, a file holds the last
\* contents written to it and the patches that followed; excepted are the two
\* blocks that a retry runs together, a block one of whose lines begins like the
\* marker and was cut right behind that, and files patched
\* after the same answer had written them (PatchesApplied).  The file written
\* after a block that was cut short, or after the retry, is whole again.  An
\* install command reaches executeCommands once a block that follows it has been
\* closed.
NotBlank(contents) == Picked(contents, {k \in DOMAIN contents : ~IsBlank(contents[k])})
SavedAsWritten(f) == NotBlank(generatedFilesMap[f]) = script.files[f]
AnswerAsWritten ==
    ~streaming => /\ \A f \in File \ (script.spoilt \cup script.repatched) : SavedAsWritten(f)
                  /\ script.due \subseteq parser.extractedInstallCommands

\* "Apply diff if this is a diff patch operation": when the answer came without
\* a failure, a file holds the patches the model wrote for it, those for a file
\* it had written before included.
PatchesApplied == ~streaming /\ attempt = 0 => \A f \in File \ script.spoilt : SavedAsWritten(f)
=============================================================================
