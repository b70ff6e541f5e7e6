----------------------------- MODULE ProcessLog -----------------------------
(***************************************************************************)
(* The log file of a monitored process.  The monitor appends every line of *)
(* output without waiting for the one before (SimpleLogManager of          *)
(* process-monitor.ts) and now and then trims the file; "monitor-cli logs  *)
(* get" (cli-tools.ts), run by the sandbox client under `timeout 10s',     *)
(* reads it and, with --reset, empties it by renaming it.  Readers exclude *)
(* each other with a lock file; the monitor takes no notice of the lock.   *)
(*                                                                         *)
(* The files are inodes with lines in them.  A line is the append that     *)
(* writes it; appends and readers are numbered in the order they begin.    *)
(* writeFile is one step: what is appended while it runs meets the fate of *)
(* what was appended just before.                                          *)
(***************************************************************************)
EXTENDS Integers, Sequences, SequencesExt, FiniteSets

CONSTANTS
    maxLines,
    CHECK_INTERVAL,
    LockAttempts,
    MaxLogLines,        \* bound: calls of appendLog in a behaviour
    MaxLogReads         \* bound: calls of "logs get" in a behaviour

ASSUME ProcessLogAssumption ==
    /\ maxLines \in Nat \ {0} /\ CHECK_INTERVAL \in Nat \ {0} /\ LockAttempts \in Nat \ {0}
    /\ MaxLogLines \in Nat /\ MaxLogReads \in Nat

VARIABLES
    content,        \* the lines in every inode
    inodes,         \* inodes there have been
    logFile,        \* the inode at logFilePath, 0 for none
    appendLog,      \* where each append is
    appendCount,
    logRead,        \* where each reader is
    lockFile,       \* the reader that has written the lock file, as a set
    monitoring,     \* cleanup() has not been called
    late,           \* history: lines whose append overlapped a reset, a trim or the clean-up
    cut             \* history: lines removed by a trim or the clean-up, or unreadable

logVars == <<content, inodes, logFile, appendLog, appendCount, logRead, lockFile, monitoring, late, cut>>

-----------------------------------------------------------------------------
LogLine == 1 .. MaxLogLines
LogRead == 1 .. MaxLogReads
Inode == 1 .. MaxLogReads + 2

AppendRecord == [pc : {"idle", "opened", "checking", "trimming", "writing", "done"},
                 inode : Inode \cup {0}, lines : Seq(LogLine)]

Appending(pc, i, lines) == [pc |-> pc, inode |-> i, lines |-> lines]

ReadRecord == [pc : {"idle", "locking", "locked", "renamed", "created", "unlocking", "done", "failed", "killed"},
               reset : BOOLEAN, tries : 0 .. LockAttempts, temp : Inode \cup {0}, logs : Seq(LogLine)]

ProcessLogInit ==
    /\ content = [i \in Inode |-> <<>>] /\ inodes = 0 /\ logFile = 0
    /\ appendLog = [l \in LogLine |-> Appending("idle", 0, <<>>)]
    /\ appendCount = 0
    /\ logRead = [r \in LogRead |-> [pc |-> "idle", reset |-> FALSE, tries |-> 0, temp |-> 0, logs |-> <<>>]]
    /\ lockFile = {}
    /\ monitoring = TRUE
    /\ late = {} /\ cut = {}

(* The file at logFilePath, made when it is not there. *)
OpenedLog == IF logFile = 0 THEN inodes + 1 ELSE logFile
OpenLogFile == inodes' = (IF logFile = 0 THEN inodes + 1 ELSE inodes) /\ logFile' = OpenedLog

AppendGoto(l, pc) == appendLog' = [appendLog EXCEPT ![l] = Appending(pc, 0, <<>>)]
ReadGoto(r, pc) == logRead' = [logRead EXCEPT ![r].pc = pc]

(* A reset has taken the file away and not yet read it; a trim has read the file and not yet
   written it. *)
Resetting == {r \in LogRead : logRead[r].pc \in {"renamed", "created"}}
Trimming == {l \in LogLine : appendLog[l].pc = "writing"}
Opened == {l \in LogLine : appendLog[l].pc = "opened"}
Disturbed == Resetting # {} \/ Trimming # {} \/ ~monitoring

-----------------------------------------------------------------------------
(* appendLog *)

\* Mutant of OpenLog: the file is opened once and for all.
OpenLogOnce(l) ==
    /\ appendLog[l].pc = "idle" /\ monitoring
    /\ \A k \in LogLine : k < l => appendLog[k].pc # "idle"
    /\ IF inodes = 0 THEN OpenLogFile ELSE UNCHANGED <<inodes, logFile>>
    /\ appendLog' = [appendLog EXCEPT ![l] = Appending("opened", 1, <<>>)]
    /\ late' = IF Disturbed THEN late \cup {l} ELSE late
    /\ UNCHANGED <<content, appendCount, logRead, lockFile, monitoring, cut>>

\* appendFile opens the file.
OpenLog(l) ==
    /\ appendLog[l].pc = "idle" /\ monitoring
    /\ \A k \in LogLine : k < l => appendLog[k].pc # "idle"
    /\ OpenLogFile
    /\ appendLog' = [appendLog EXCEPT ![l] = Appending("opened", OpenedLog, <<>>)]
    /\ late' = IF Disturbed THEN late \cup {l} ELSE late
    /\ UNCHANGED <<content, appendCount, logRead, lockFile, monitoring, cut>>

\* ... and writes to what it has opened, wherever that is now.
WriteLine(l) ==
    /\ appendLog[l].pc = "opened"
    /\ content' = [content EXCEPT ![appendLog[l].inode] = Append(@, l)]
    /\ appendCount' = appendCount + 1
    /\ AppendGoto(l, IF (appendCount + 1) % CHECK_INTERVAL = 0 THEN "checking" ELSE "done")
    /\ UNCHANGED <<inodes, logFile, logRead, lockFile, monitoring, late, cut>>

\* trimLogIfNeeded: the file is too large, or too long; how large it is depends
\* on the lines.
TrimLogIfNeeded(l) ==
    /\ appendLog[l].pc = "checking"
    /\ \/ logFile # 0 /\ AppendGoto(l, "trimming")
       \/ logFile = 0 /\ AppendGoto(l, "done")
       \/ logFile # 0 /\ Len(content[logFile]) + 1 <= maxLines /\ AppendGoto(l, "done")
    /\ UNCHANGED <<content, inodes, logFile, appendCount, logRead, lockFile, monitoring, late, cut>>

\* trimLogFile reads the file, which a reset may have taken away.
ReadForTrim(l) ==
    /\ appendLog[l].pc = "trimming"
    /\ IF logFile = 0
       THEN AppendGoto(l, "done") /\ UNCHANGED late
       ELSE /\ appendLog' = [appendLog EXCEPT ![l] = Appending("writing", 0, content[logFile])]
            /\ late' = late \cup Opened
    /\ UNCHANGED <<content, inodes, logFile, appendCount, logRead, lockFile, monitoring, cut>>

\* The last of the keepLines pieces is what follows the last newline: nothing.
Kept(lines) ==
    LET keepLines == (7 * maxLines) \div 10
    IN  IF keepLines = 0 \/ keepLines > Len(lines) THEN lines
        ELSE SubSeq(lines, Len(lines) - keepLines + 2, Len(lines))

\* ... and writes its end to whatever file is there now.
WriteTrimmed(l) ==
    /\ appendLog[l].pc = "writing"
    /\ OpenLogFile
    /\ content' = [content EXCEPT ![OpenedLog] = Kept(appendLog[l].lines)]
    /\ cut' = cut \cup (Range(appendLog[l].lines) \ Range(Kept(appendLog[l].lines)))
    /\ AppendGoto(l, "done")
    /\ UNCHANGED <<appendCount, logRead, lockFile, monitoring, late>>

\* The process was stopped: cleanup() removes the file.
CleanupLog ==
    /\ monitoring
    /\ monitoring' = FALSE
    /\ logFile' = 0
    /\ cut' = IF logFile = 0 THEN cut ELSE cut \cup Range(content[logFile])
    /\ late' = late \cup Opened
    /\ UNCHANGED <<content, inodes, appendLog, appendCount, logRead, lockFile>>

-----------------------------------------------------------------------------
(* logs get *)

LogsGet(r, reset) ==
    /\ logRead[r].pc = "idle" /\ \A q \in LogRead : q < r => logRead[q].pc # "idle"
    /\ logRead' = [logRead EXCEPT ![r].pc = "locking", ![r].reset = reset]
    /\ UNCHANGED <<content, inodes, logFile, appendLog, appendCount, lockFile, monitoring, late, cut>>

\* One attempt to create the lock file.
AcquireLock(r) ==
    /\ logRead[r].pc = "locking"
    /\ IF lockFile = {}
       THEN lockFile' = {r} /\ ReadGoto(r, "locked")
       ELSE /\ logRead' = [logRead EXCEPT ![r].tries = @ + 1,
                                          ![r].pc = IF logRead[r].tries + 1 = LockAttempts
                                                    THEN "failed" ELSE "locking"]
            /\ UNCHANGED lockFile
    /\ UNCHANGED <<content, inodes, logFile, appendLog, appendCount, monitoring, late, cut>>

\* Without --reset the file is read where it is.
ReadLog(r) ==
    /\ logRead[r].pc = "locked" /\ ~logRead[r].reset
    /\ logRead' = [logRead EXCEPT ![r].pc = "unlocking",
                                  ![r].logs = IF logFile = 0 THEN <<>> ELSE content[logFile]]
    /\ UNCHANGED <<content, inodes, logFile, appendLog, appendCount, lockFile, monitoring, late, cut>>

\* Mutant of RenameLog: there is nothing to return, so the command is over.
RenameLogOrReturn(r) ==
    /\ logRead[r].pc = "locked" /\ logRead[r].reset
    /\ IF logFile = 0
       THEN ReadGoto(r, "done") /\ UNCHANGED <<logFile, late>>
       ELSE /\ logRead' = [logRead EXCEPT ![r].pc = "renamed", ![r].temp = logFile]
            /\ logFile' = 0
            /\ late' = late \cup Opened
    /\ UNCHANGED <<content, inodes, appendLog, appendCount, lockFile, monitoring, cut>>

\* With --reset it is renamed first; appends that have opened it go with it.
RenameLog(r) ==
    /\ logRead[r].pc = "locked" /\ logRead[r].reset
    /\ IF logFile = 0
       THEN ReadGoto(r, "unlocking") /\ UNCHANGED <<logFile, late>>
       ELSE /\ logRead' = [logRead EXCEPT ![r].pc = "renamed", ![r].temp = logFile]
            /\ logFile' = 0
            /\ late' = late \cup Opened
    /\ UNCHANGED <<content, inodes, appendLog, appendCount, lockFile, monitoring, cut>>

\* The new empty file: one that an append has made meanwhile is emptied.
CreateEmptyLog(r) ==
    /\ logRead[r].pc = "renamed"
    /\ OpenLogFile
    /\ content' = [content EXCEPT ![OpenedLog] = <<>>]
    /\ ReadGoto(r, "created")
    /\ UNCHANGED <<appendLog, appendCount, lockFile, monitoring, late, cut>>

\* The renamed file is read and removed, or only removed when it cannot be read.
ReadTemp(r) ==
    /\ logRead[r].pc = "created"
    /\ \/ /\ logRead' = [logRead EXCEPT ![r].pc = "unlocking", ![r].logs = content[logRead[r].temp]]
          /\ UNCHANGED cut
       \/ ReadGoto(r, "unlocking") /\ cut' = cut \cup Range(content[logRead[r].temp])
    /\ UNCHANGED <<content, inodes, logFile, appendLog, appendCount, lockFile, monitoring, late>>

ReleaseLock(r) ==
    /\ logRead[r].pc = "unlocking"
    /\ lockFile' = {}
    /\ ReadGoto(r, "done")
    /\ UNCHANGED <<content, inodes, logFile, appendLog, appendCount, monitoring, late, cut>>

Reading(r) == logRead[r].pc \notin {"idle", "done", "failed", "killed"}

\* The time of the command is up.
Killed(r) ==
    /\ Reading(r)
    /\ ReadGoto(r, "killed")
    /\ late' = IF logRead[r].pc \in {"renamed", "created"} THEN late \cup Opened ELSE late
    /\ UNCHANGED <<content, inodes, logFile, appendLog, appendCount, lockFile, monitoring, cut>>

-----------------------------------------------------------------------------
ReadStep(r) == \/ AcquireLock(r) \/ ReadLog(r) \/ RenameLog(r) \/ CreateEmptyLog(r)
               \/ ReadTemp(r) \/ ReleaseLock(r)

ProcessLogNext ==
    \/ \E l \in LogLine : \/ OpenLog(l) \/ WriteLine(l) \/ TrimLogIfNeeded(l)
                          \/ ReadForTrim(l) \/ WriteTrimmed(l)
    \/ CleanupLog
    \/ \E r \in LogRead : (\E reset \in BOOLEAN : LogsGet(r, reset)) \/ ReadStep(r) \/ Killed(r)

ProcessLogSpec == ProcessLogInit /\ [][ProcessLogNext]_logVars

-----------------------------------------------------------------------------
ProcessLogTypeOK ==
    /\ content \in [Inode -> Seq(LogLine)] /\ inodes \in Inode \cup {0} /\ logFile \in Inode \cup {0}
    /\ appendLog \in [LogLine -> AppendRecord] /\ appendCount \in 0 .. MaxLogLines
    /\ logRead \in [LogRead -> ReadRecord]
    /\ lockFile \subseteq LogRead /\ Cardinality(lockFile) <= 1
    /\ monitoring \in BOOLEAN /\ late \subseteq LogLine /\ cut \subseteq LogLine

\* No line of output is lost to a reset that it did not overlap: a line that was
\* written is in the log, in a file that a reset has taken away and has still to
\* read (or never will, having been killed) or among the lines it returned.
\* Excepted are lines removed by a trim or by the clean-up and lines whose
\* append overlapped a reset, a trim or the clean-up.
Written == {l \in LogLine : appendLog[l].pc \notin {"idle", "opened"}}
LogLinesAccounted ==
    Written \subseteq
        (IF logFile = 0 THEN {} ELSE Range(content[logFile])) \cup late \cup cut
          \cup (UNION {IF logRead[r].pc \in {"renamed", "created", "killed"} /\ logRead[r].temp # 0
                       THEN Range(content[logRead[r].temp]) ELSE {} : r \in LogRead})
          \cup UNION {IF logRead[r].reset THEN Range(logRead[r].logs) ELSE {} : r \in LogRead}

\* A reader that has ended, whatever it found, has removed its lock file, so that
\* the next one gets the logs; only one that was killed leaves the lock behind,
\* and then no later reader gets any.
LockGivenBack == \A r \in lockFile : Reading(r) \/ logRead[r].pc = "killed"
=============================================================================
