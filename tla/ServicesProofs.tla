--------------------------- MODULE ServicesProofs ---------------------------
(***************************************************************************)
(* Theorems about components that keep no state in common, each for any    *)
(* number of its actors: the log of a process, the user's conversation,    *)
(* the login sessions of a user, the agent's setup commands and the chat   *)
(* page's connection.                                                      *)
(***************************************************************************)
EXTENDS ProcessLog, Conversation, Sessions, Commands, ChatClient, SequenceTheorems, FiniteSetTheorems, TLAPS

-----------------------------------------------------------------------------
(* The log of a process.                                                   *)

Holding(r) == logRead[r].pc \in {"locked", "renamed", "created", "unlocking"}

\* The lock file is that of the reader that holds it, or of one that was killed.
LogLocking ==
    /\ lockFile = {} \/ \E r \in LogRead : lockFile = {r}
    /\ \A r \in LogRead : Holding(r) => lockFile = {r}
    /\ \A r \in lockFile : Holding(r) \/ logRead[r].pc = "killed"

WellShaped(rec) ==
    /\ rec.pc \in {"idle", "locking"} => rec.tries < LockAttempts
    /\ rec.pc \in {"idle", "locking", "locked"} => rec.temp = 0
    /\ rec.pc \in {"idle", "locking", "locked", "renamed", "created"} => rec.logs = <<>>
    /\ rec.pc \in {"renamed", "created"} => rec.reset /\ rec.temp # 0
ReadShape == \A r \in LogRead : WellShaped(logRead[r])

Renamed == {r \in LogRead : logRead[r].temp # 0}

\* A file is made only after one was renamed or removed, and never in the
\* place of one that a reader has taken away.
InodesCounted ==
    /\ inodes + (IF logFile = 0 THEN 1 ELSE 0)
         <= 1 + Cardinality(Renamed) + (IF monitoring THEN 0 ELSE 1)
    /\ logFile <= inodes
    /\ \A r \in LogRead : logRead[r].temp <= inodes
                          /\ (logRead[r].temp # 0 => logRead[r].temp # logFile)

AppendsCounted ==
    /\ appendCount = Cardinality(Written)
    /\ \A l \in LogLine : appendLog[l].pc = "opened" => appendLog[l].inode # 0

\* Lines that need not be in the log: late or cut, in a file taken away, returned.
HeldBy(r) ==
    (IF logRead[r].pc \in {"renamed", "created", "killed"} /\ logRead[r].temp # 0
     THEN Range(content[logRead[r].temp]) ELSE {})
    \cup (IF logRead[r].reset THEN Range(logRead[r].logs) ELSE {})
Elsewhere == late \cup cut \cup UNION {HeldBy(r) : r \in LogRead}
InLog == IF logFile = 0 THEN {} ELSE Range(content[logFile])

(***************************************************************************)
(* What a step may do away with is accounted for before it is taken: a     *)
(* trim that will overwrite the file knows every line but those that are   *)
(* elsewhere, a reset that will empty it needs none of its lines, and an   *)
(* append that has the wrong file open is late.                            *)
(***************************************************************************)
LinesSafe ==
    /\ \A l \in Opened : l \notin late => logFile # 0 /\ appendLog[l].inode = logFile
    /\ Disturbed => Opened \subseteq late
    /\ Written \subseteq InLog \cup Elsewhere
    /\ \A l \in Trimming : Written \subseteq Range(appendLog[l].lines) \cup Elsewhere
    /\ \A r \in LogRead : logRead[r].pc = "renamed" => Written \subseteq Elsewhere

LogInv == ProcessLogTypeOK /\ LogLocking /\ ReadShape /\ InodesCounted /\ AppendsCounted /\ LinesSafe

\* Appending to a file adds a line to it.
LEMMA RangeAppend ==
  ASSUME NEW S, NEW s \in Seq(S), NEW e \in S
  PROVE  Append(s, e) \in Seq(S) /\ Range(Append(s, e)) = Range(s) \cup {e}
<1>1. /\ Append(s, e) \in Seq(S) /\ Len(Append(s, e)) = Len(s) + 1 /\ Len(s) \in Nat
      /\ \A k \in 1 .. Len(s) : Append(s, e)[k] = s[k]
      /\ Append(s, e)[Len(s) + 1] = e
  BY AppendProperties, LenProperties
<1>2. DOMAIN Append(s, e) = 1 .. Len(s) + 1 /\ DOMAIN s = 1 .. Len(s)
  BY <1>1, LenProperties
<1>3. \A k \in 1 .. Len(s) + 1 : k \in 1 .. Len(s) \/ k = Len(s) + 1
  BY <1>1
<1>4. Len(s) + 1 \in 1 .. Len(s) + 1 /\ \A k \in 1 .. Len(s) : k \in 1 .. Len(s) + 1
  BY <1>1
<1> QED
  BY <1>1, <1>2, <1>3, <1>4 DEF Range

\* The lines of a sequence of lines.
LEMMA RangeOf ==
  ASSUME NEW S, NEW s \in Seq(S)
  PROVE  Range(s) \subseteq S
  BY LenProperties DEF Range

\* What a trim keeps is a sequence of lines.
LEMMA KeptTyped ==
  ASSUME NEW lines \in Seq(LogLine)
  PROVE  Kept(lines) \in Seq(LogLine)
<1> DEFINE keepLines == (7 * maxLines) \div 10
<1>1. keepLines \in Nat /\ Len(lines) \in Nat /\ DOMAIN lines = 1 .. Len(lines)
  BY ProcessLogAssumption, LenProperties
<1> HIDE DEF keepLines
<1>2. CASE keepLines = 0 \/ keepLines > Len(lines)
  BY <1>2 DEF Kept, keepLines
<1>3. CASE ~(keepLines = 0 \/ keepLines > Len(lines))
  <2> DEFINE first == Len(lines) - keepLines + 2
  <2>1. first \in Int /\ first >= 1 /\ \A k \in first .. Len(lines) : k \in 1 .. Len(lines)
    BY <1>1, <1>3
  <2>2. \A k \in first .. Len(lines) : lines[k] \in LogLine
    BY <2>1, ElementOfSeq
  <2> HIDE DEF first
  <2>3. SubSeq(lines, first, Len(lines)) \in Seq(LogLine)
    BY <1>1, <2>1, <2>2, SubSeqProperties
  <2> QED
    BY <1>3, <2>3 DEF Kept, keepLines, first
<1> QED
  BY <1>2, <1>3

\* The parts of the state and their sizes.
LEMMA LogSizes ==
  ASSUME ProcessLogTypeOK
  PROVE  /\ content \in [Inode -> Seq(LogLine)] /\ inodes \in Nat /\ logFile \in Inode \cup {0}
         /\ logFile \in Nat
         /\ appendLog \in [LogLine -> AppendRecord] /\ logRead \in [LogRead -> ReadRecord]
         /\ IsFiniteSet(LogRead) /\ Cardinality(LogRead) = MaxLogReads
         /\ IsFiniteSet(LogLine) /\ Cardinality(LogLine) = MaxLogLines
         /\ IsFiniteSet(Renamed) /\ Cardinality(Renamed) \in Nat /\ Cardinality(Renamed) <= MaxLogReads
         /\ IsFiniteSet(Written) /\ Cardinality(Written) \in Nat
         /\ monitoring \in BOOLEAN
<1> USE ProcessLogAssumption
<1>1. /\ content \in [Inode -> Seq(LogLine)] /\ inodes \in Nat /\ logFile \in Inode \cup {0} /\ logFile \in Nat
      /\ appendLog \in [LogLine -> AppendRecord] /\ logRead \in [LogRead -> ReadRecord]
      /\ monitoring \in BOOLEAN
  BY DEF ProcessLogTypeOK, Inode
<1>2. IsFiniteSet(LogRead) /\ Cardinality(LogRead) = MaxLogReads
  BY FS_Interval DEF LogRead
<1>3. IsFiniteSet(LogLine) /\ Cardinality(LogLine) = MaxLogLines
  BY FS_Interval DEF LogLine
<1>4. Renamed \in SUBSET LogRead /\ Written \in SUBSET LogLine
  BY DEF Renamed, Written
<1>5. IsFiniteSet(Renamed) /\ Cardinality(Renamed) <= MaxLogReads /\ IsFiniteSet(Written)
  BY <1>2, <1>3, <1>4, FS_Subset
<1>6. Cardinality(Renamed) \in Nat /\ Cardinality(Written) \in Nat
  BY <1>5, FS_CardinalityType
<1> QED
  BY <1>1, <1>2, <1>3, <1>5, <1>6

\* The file at logFilePath, made when it is not there, is none that was taken away.
LEMMA OpenedFile ==
  ASSUME ProcessLogTypeOK, InodesCounted
  PROVE  /\ OpenedLog \in Inode /\ OpenedLog # 0
         /\ logFile # 0 => OpenedLog = logFile
         /\ \A r \in LogRead : logRead[r].temp # OpenedLog
         /\ OpenLogFile => /\ inodes' \in Inode /\ logFile' = OpenedLog /\ logFile' <= inodes'
                           /\ inodes' <= inodes + (IF logFile = 0 THEN 1 ELSE 0)
                           /\ inodes <= inodes'
<1> USE ProcessLogAssumption
<1>1. /\ inodes \in Nat /\ logFile \in Inode \cup {0} /\ logFile \in Nat /\ monitoring \in BOOLEAN
      /\ Cardinality(Renamed) \in Nat /\ Cardinality(Renamed) <= MaxLogReads
      /\ inodes \in Inode \cup {0}
  BY LogSizes DEF ProcessLogTypeOK
<1>2. \A r \in LogRead : logRead[r].temp \in Nat
  BY DEF ProcessLogTypeOK, ReadRecord, Inode
<1>3. /\ inodes + (IF logFile = 0 THEN 1 ELSE 0)
           <= 1 + Cardinality(Renamed) + (IF monitoring THEN 0 ELSE 1)
      /\ logFile <= inodes
      /\ \A r \in LogRead : logRead[r].temp <= inodes
                            /\ (logRead[r].temp # 0 => logRead[r].temp # logFile)
  BY DEF InodesCounted
<1>4. CASE logFile = 0
  <2>1. inodes + 1 <= MaxLogReads + 2
    BY <1>1, <1>3, <1>4
  <2>2. inodes + 1 \in Inode /\ OpenedLog = inodes + 1
    BY <1>1, <1>4, <2>1 DEF Inode, OpenedLog
  <2>3. \A r \in LogRead : logRead[r].temp # inodes + 1
    BY <1>1, <1>2, <1>3
  <2> QED
    BY <1>1, <1>4, <2>2, <2>3 DEF OpenLogFile
<1>5. CASE logFile # 0
  <2>1. OpenedLog = logFile /\ logFile \in Inode /\ inodes \in Inode
    BY <1>1, <1>3, <1>5 DEF OpenedLog, Inode
  <2>2. \A r \in LogRead : logRead[r].temp # logFile
    BY <1>3, <1>5
  <2> QED
    BY <1>1, <1>3, <1>5, <2>1, <2>2 DEF OpenLogFile
<1> QED
  BY <1>4, <1>5

\* The records that the steps of an append and of a reader write.
LEMMA LogRecords ==
     \A pc \in {"idle", "opened", "checking", "trimming", "writing", "done"}, i \in Inode \cup {0},
        lines \in Seq(LogLine) :
       /\ Appending(pc, i, lines) \in AppendRecord /\ Appending(pc, i, lines).pc = pc
       /\ Appending(pc, i, lines).inode = i /\ Appending(pc, i, lines).lines = lines
  BY DEF Appending, AppendRecord

\* What is left of the invariant when the lines are taken care of.
LogShape == ProcessLogTypeOK /\ ReadShape /\ InodesCounted /\ AppendsCounted

\* A step of an append that does not write its line.
LEMMA AppendMoves ==
  ASSUME LogShape, NEW l \in LogLine, NEW rec \in AppendRecord,
         appendLog' = [appendLog EXCEPT ![l] = rec],
         appendLog[l].pc \in {"idle", "opened"} <=> rec.pc \in {"idle", "opened"},
         rec.pc = "opened" => rec.inode # 0, UNCHANGED appendCount
  PROVE  /\ appendLog' \in [LogLine -> AppendRecord] /\ appendCount' \in 0 .. MaxLogLines
         /\ Written' = Written /\ AppendsCounted'
<1>1. appendLog \in [LogLine -> AppendRecord] /\ appendCount \in 0 .. MaxLogLines
  BY DEF LogShape, ProcessLogTypeOK
<1>2. /\ appendLog' \in [LogLine -> AppendRecord] /\ appendLog'[l] = rec
      /\ \A k \in LogLine : k # l => appendLog'[k] = appendLog[k]
  BY <1>1
<1>3. Written' = Written
  BY <1>2 DEF Written
<1>4. \A k \in LogLine : appendLog'[k].pc = "opened" => appendLog'[k].inode # 0
  BY <1>2 DEF LogShape, AppendsCounted
<1> QED
  BY <1>1, <1>2, <1>3, <1>4 DEF LogShape, AppendsCounted

\* Nothing else changes but the content of the files.
LEMMA ReadersRest ==
  ASSUME LogShape, UNCHANGED logRead, monitoring' = monitoring,
         OpenLogFile \/ UNCHANGED <<inodes, logFile>>
  PROVE  /\ inodes' \in Inode \cup {0} /\ logFile' \in Inode \cup {0}
         /\ ReadShape' /\ InodesCounted'
<1>1. /\ inodes \in Nat /\ logFile \in Nat /\ inodes \in Inode \cup {0} /\ logFile \in Inode \cup {0}
      /\ Cardinality(Renamed) \in Nat /\ monitoring \in BOOLEAN
  BY LogSizes DEF LogShape, ProcessLogTypeOK
<1>2. ReadShape' /\ Renamed' = Renamed
  BY DEF LogShape, ReadShape, Renamed
<1>3. \A r \in LogRead : logRead[r].temp \in Nat
  BY DEF LogShape, ProcessLogTypeOK, ReadRecord, Inode
<1>4. CASE UNCHANGED <<inodes, logFile>>
  BY <1>1, <1>2, <1>4 DEF LogShape, InodesCounted
<1>5. CASE OpenLogFile
  <2>1. /\ OpenedLog \in Inode /\ OpenedLog # 0
        /\ \A r \in LogRead : logRead[r].temp # OpenedLog
        /\ inodes' \in Inode /\ logFile' = OpenedLog /\ logFile' <= inodes'
        /\ inodes' <= inodes + (IF logFile = 0 THEN 1 ELSE 0)
        /\ inodes <= inodes'
    BY <1>5, OpenedFile DEF LogShape
  <2>2. inodes' \in Nat
    BY <2>1, ProcessLogAssumption DEF Inode
  <2>3. inodes + (IF logFile = 0 THEN 1 ELSE 0)
           <= 1 + Cardinality(Renamed) + (IF monitoring THEN 0 ELSE 1)
    BY DEF LogShape, InodesCounted
  <2>4. inodes' + 0 <= 1 + Cardinality(Renamed) + (IF monitoring THEN 0 ELSE 1)
    BY <1>1, <2>1, <2>2, <2>3
  <2>5. \A r \in LogRead : logRead[r].temp <= inodes' /\ logRead[r].temp # logFile'
    BY <1>1, <1>3, <2>1, <2>2 DEF LogShape, InodesCounted
  <2>6. InodesCounted'
    BY <1>2, <2>1, <2>4, <2>5 DEF InodesCounted
  <2> QED
    BY <1>2, <2>1, <2>6
<1> QED
  BY <1>4, <1>5

\* The steps of the appends and the clean-up.
LEMMA AppendTyped ==
  ASSUME LogShape, NEW l \in LogLine,
         OpenLog(l) \/ WriteLine(l) \/ TrimLogIfNeeded(l) \/ ReadForTrim(l) \/ WriteTrimmed(l)
  PROVE  LogShape'
<1> USE ProcessLogAssumption
<1>1. /\ content \in [Inode -> Seq(LogLine)] /\ inodes \in Inode \cup {0} /\ logFile \in Inode \cup {0}
      /\ appendLog \in [LogLine -> AppendRecord] /\ appendLog[l] \in AppendRecord
      /\ appendCount \in 0 .. MaxLogLines /\ logRead \in [LogRead -> ReadRecord]
      /\ lockFile \subseteq LogRead /\ Cardinality(lockFile) <= 1
      /\ monitoring \in BOOLEAN /\ late \subseteq LogLine /\ cut \subseteq LogLine
  BY DEF LogShape, ProcessLogTypeOK
<1>2. /\ appendLog[l].inode \in Inode \cup {0} /\ appendLog[l].lines \in Seq(LogLine)
  BY <1>1 DEF AppendRecord
<1>3. /\ OpenedLog \in Inode /\ OpenedLog # 0
  BY OpenedFile DEF LogShape
<1>4. 0 \in Inode \cup {0} /\ <<>> \in Seq(LogLine) /\ Opened \subseteq LogLine
  BY DEF Opened
<1>5. ASSUME content' \in [Inode -> Seq(LogLine)], OpenLogFile \/ UNCHANGED <<inodes, logFile>>,
             appendLog' \in [LogLine -> AppendRecord], appendCount' \in 0 .. MaxLogLines, AppendsCounted',
             UNCHANGED logRead, UNCHANGED lockFile, monitoring' = monitoring,
             late' \subseteq LogLine, cut' \subseteq LogLine
      PROVE  LogShape'
  <2>1. inodes' \in Inode \cup {0} /\ logFile' \in Inode \cup {0} /\ ReadShape' /\ InodesCounted'
    BY <1>5, ReadersRest
  <2>2. ProcessLogTypeOK'
    BY <1>1, <1>5, <2>1 DEF ProcessLogTypeOK
  <2> QED
    BY <1>5, <2>1, <2>2 DEF LogShape
<1>6. ASSUME NEW pc \in {"checking", "trimming", "done"}, AppendGoto(l, pc),
             appendLog[l].pc \notin {"idle", "opened"}, UNCHANGED appendCount
      PROVE  appendLog' \in [LogLine -> AppendRecord] /\ appendCount' \in 0 .. MaxLogLines /\ AppendsCounted'
  <2> DEFINE rec == Appending(pc, 0, <<>>)
  <2>1. rec \in AppendRecord /\ rec.pc = pc
    BY <1>4 DEF Appending, AppendRecord
  <2>2. appendLog' = [appendLog EXCEPT ![l] = rec]
    BY <1>6 DEF AppendGoto
  <2> HIDE DEF rec
  <2>3. rec.pc \notin {"idle", "opened"} /\ rec.pc # "opened"
    BY <2>1
  <2> QED
    BY <1>6, <2>1, <2>2, <2>3, AppendMoves
<1>7. CASE OpenLog(l)
  <2> DEFINE rec == Appending("opened", OpenedLog, <<>>)
  <2>1. rec \in AppendRecord /\ rec.pc = "opened" /\ rec.inode # 0
    BY <1>3, <1>4 DEF Appending, AppendRecord
  <2>2. /\ appendLog' = [appendLog EXCEPT ![l] = rec] /\ OpenLogFile /\ appendLog[l].pc = "idle"
        /\ UNCHANGED content /\ UNCHANGED appendCount /\ UNCHANGED logRead /\ UNCHANGED lockFile
        /\ monitoring' = monitoring /\ UNCHANGED cut /\ late' \subseteq LogLine
    BY <1>1, <1>7 DEF OpenLog
  <2> HIDE DEF rec
  <2>3. /\ appendLog' \in [LogLine -> AppendRecord] /\ appendCount' \in 0 .. MaxLogLines /\ AppendsCounted'
    BY <2>1, <2>2, AppendMoves
  <2> QED
    BY <1>1, <1>5, <2>2, <2>3
<1>8. CASE WriteLine(l)
  <2> DEFINE pc == IF (appendCount + 1) % CHECK_INTERVAL = 0 THEN "checking" ELSE "done"
  <2> DEFINE rec == Appending(pc, 0, <<>>)
  <2> DEFINE i == appendLog[l].inode
  <2>1. /\ appendLog[l].pc = "opened" /\ content' = [content EXCEPT ![i] = Append(content[i], l)]
        /\ appendCount' = appendCount + 1 /\ appendLog' = [appendLog EXCEPT ![l] = rec]
        /\ UNCHANGED <<inodes, logFile>> /\ UNCHANGED logRead /\ UNCHANGED lockFile
        /\ monitoring' = monitoring /\ UNCHANGED late /\ UNCHANGED cut
    BY <1>8 DEF WriteLine, AppendGoto
  <2>2. pc \in {"checking", "done"}
    OBVIOUS
  <2> HIDE DEF pc
  <2>3. rec \in AppendRecord /\ rec.pc \notin {"idle", "opened"}
    BY <1>4, <2>2, LogRecords
  <2> HIDE DEF rec
  <2>4. i \in Inode
    BY <1>2, <2>1 DEF LogShape, AppendsCounted
  <2> HIDE DEF i
  <2>5. content[i] \in Seq(LogLine)
    BY <1>1, <2>4
  <2>6. Append(content[i], l) \in Seq(LogLine)
    BY <2>5, RangeAppend
  <2>7. content' \in [Inode -> Seq(LogLine)]
    BY <1>1, <2>1, <2>6
  <2>8. /\ appendLog' \in [LogLine -> AppendRecord] /\ appendLog'[l] = rec
        /\ \A k \in LogLine : k # l => appendLog'[k] = appendLog[k]
    BY <1>1, <2>1, <2>3
  <2>9. Written' = Written \cup {l} /\ l \notin Written
    BY <2>1, <2>3, <2>8 DEF Written
  <2>10. /\ IsFiniteSet(Written) /\ Cardinality(Written) \in Nat /\ IsFiniteSet(LogLine)
         /\ Cardinality(LogLine) = MaxLogLines /\ appendCount = Cardinality(Written)
    BY LogSizes DEF LogShape, AppendsCounted
  <2>11. Cardinality(Written') = appendCount + 1
    BY <2>9, <2>10, FS_AddElement
  <2>12. Written' \in SUBSET LogLine
    BY DEF Written
  <2>13. Cardinality(Written') <= MaxLogLines
    BY <2>10, <2>12, FS_Subset
  <2>14. appendCount' \in 0 .. MaxLogLines /\ appendCount' = Cardinality(Written)'
    BY <2>1, <2>10, <2>11, <2>13
  <2>15. \A k \in LogLine : appendLog'[k].pc = "opened" => appendLog'[k].inode # 0
    BY <2>3, <2>8 DEF LogShape, AppendsCounted
  <2>16. AppendsCounted'
    BY <2>14, <2>15 DEF AppendsCounted
  <2> QED
    BY <1>1, <1>5, <2>1, <2>7, <2>8, <2>14, <2>16
<1>9. CASE TrimLogIfNeeded(l)
  <2>1. /\ appendLog[l].pc \notin {"idle", "opened"} /\ \E pc \in {"checking", "trimming", "done"} : AppendGoto(l, pc)
        /\ UNCHANGED <<inodes, logFile>> /\ UNCHANGED logRead /\ UNCHANGED lockFile /\ UNCHANGED appendCount
        /\ monitoring' = monitoring /\ UNCHANGED late /\ UNCHANGED cut /\ UNCHANGED content
    BY <1>9 DEF TrimLogIfNeeded
  <2>2. appendLog' \in [LogLine -> AppendRecord] /\ appendCount' \in 0 .. MaxLogLines /\ AppendsCounted'
    BY <1>6, <2>1
  <2> QED
    BY <1>1, <1>5, <2>1, <2>2
<1>10. CASE ReadForTrim(l)
  <2>1. /\ appendLog[l].pc = "trimming"
        /\ UNCHANGED <<inodes, logFile>> /\ UNCHANGED logRead /\ UNCHANGED lockFile /\ UNCHANGED appendCount
        /\ monitoring' = monitoring /\ late' \subseteq LogLine /\ UNCHANGED cut /\ UNCHANGED content
    BY <1>1, <1>4, <1>10 DEF ReadForTrim
  <2>2. CASE logFile = 0
    <3>1. AppendGoto(l, "done")
      BY <1>10, <2>2 DEF ReadForTrim
    <3>2. appendLog' \in [LogLine -> AppendRecord] /\ appendCount' \in 0 .. MaxLogLines /\ AppendsCounted'
      BY <1>6, <2>1, <3>1
    <3> QED
      BY <1>1, <1>5, <2>1, <3>2
  <2>3. CASE logFile # 0
    <3> DEFINE rec == Appending("writing", 0, content[logFile])
    <3>1. content[logFile] \in Seq(LogLine)
      BY <1>1, <2>3
    <3>2. rec \in AppendRecord /\ rec.pc = "writing"
      BY <1>4, <3>1, LogRecords
    <3>3. appendLog' = [appendLog EXCEPT ![l] = rec]
      BY <1>10, <2>3 DEF ReadForTrim
    <3> HIDE DEF rec
    <3>4. appendLog' \in [LogLine -> AppendRecord] /\ appendCount' \in 0 .. MaxLogLines /\ AppendsCounted'
      BY <2>1, <3>2, <3>3, AppendMoves
    <3> QED
      BY <1>1, <1>5, <2>1, <3>4
  <2> QED
    BY <2>2, <2>3
<1>11. CASE WriteTrimmed(l)
  <2>1. /\ appendLog[l].pc = "writing" /\ OpenLogFile /\ AppendGoto(l, "done")
        /\ content' = [content EXCEPT ![OpenedLog] = Kept(appendLog[l].lines)]
        /\ cut' = cut \cup (Range(appendLog[l].lines) \ Range(Kept(appendLog[l].lines)))
        /\ UNCHANGED logRead /\ UNCHANGED lockFile /\ UNCHANGED appendCount
        /\ monitoring' = monitoring /\ UNCHANGED late
    BY <1>11 DEF WriteTrimmed
  <2>2. Kept(appendLog[l].lines) \in Seq(LogLine) /\ Range(appendLog[l].lines) \subseteq LogLine
    BY <1>2, KeptTyped, RangeOf
  <2>3. content' \in [Inode -> Seq(LogLine)] /\ cut' \subseteq LogLine
    BY <1>1, <1>3, <2>1, <2>2
  <2>4. appendLog' \in [LogLine -> AppendRecord] /\ appendCount' \in 0 .. MaxLogLines /\ AppendsCounted'
    BY <1>6, <2>1
  <2> QED
    BY <1>1, <1>5, <2>1, <2>3, <2>4
<1> QED
  BY <1>7, <1>8, <1>9, <1>10, <1>11

\* The steps of the readers and the clean-up.
LEMMA ReadTyped ==
  ASSUME LogShape, LogLocking, NEW r \in LogRead,
         \/ \E reset \in BOOLEAN : LogsGet(r, reset)
         \/ ReadStep(r)
         \/ Killed(r)
  PROVE  LogShape'
<1> USE ProcessLogAssumption
<1>1. /\ content \in [Inode -> Seq(LogLine)] /\ inodes \in Inode \cup {0} /\ logFile \in Inode \cup {0}
      /\ appendLog \in [LogLine -> AppendRecord] /\ appendCount \in 0 .. MaxLogLines
      /\ logRead \in [LogRead -> ReadRecord] /\ logRead[r] \in ReadRecord
      /\ lockFile \subseteq LogRead /\ Cardinality(lockFile) <= 1
      /\ monitoring \in BOOLEAN /\ late \subseteq LogLine /\ cut \subseteq LogLine
  BY DEF LogShape, ProcessLogTypeOK
<1>2. /\ inodes \in Nat /\ logFile \in Nat /\ IsFiniteSet(Renamed) /\ Cardinality(Renamed) \in Nat
  BY LogSizes DEF LogShape
<1>3. Opened \subseteq LogLine
  BY DEF Opened
<1>4. ASSUME NEW rec \in ReadRecord, logRead' = [logRead EXCEPT ![r] = rec],
             WellShaped(rec)
      PROVE  /\ logRead' \in [LogRead -> ReadRecord] /\ ReadShape' /\ logRead'[r] = rec
             /\ \A q \in LogRead : q # r => logRead'[q] = logRead[q]
  <2>1. /\ logRead' \in [LogRead -> ReadRecord] /\ logRead'[r] = rec
        /\ \A q \in LogRead : q # r => logRead'[q] = logRead[q]
    BY <1>1, <1>4
  <2> QED
    BY <1>4, <2>1 DEF LogShape, ReadShape
<1>5. ASSUME NEW rec \in ReadRecord, logRead' = [logRead EXCEPT ![r] = rec],
             WellShaped(rec),
             rec.temp = logRead[r].temp,
             content' \in [Inode -> Seq(LogLine)], OpenLogFile \/ UNCHANGED <<inodes, logFile>>,
             UNCHANGED <<appendLog, appendCount>>, monitoring' = monitoring,
             lockFile' \subseteq LogRead, Cardinality(lockFile') <= 1,
             late' \subseteq LogLine, cut' \subseteq LogLine
      PROVE  LogShape'
  <2>1. /\ logRead' \in [LogRead -> ReadRecord] /\ ReadShape' /\ logRead'[r] = rec
        /\ \A q \in LogRead : q # r => logRead'[q] = logRead[q]
    BY <1>4, <1>5
  <2>2. \A q \in LogRead : logRead'[q].temp = logRead[q].temp /\ logRead[q].temp \in Nat
    BY <1>1, <1>5, <2>1 DEF ReadRecord, Inode
  <2>3. Renamed' = Renamed
    BY <2>2 DEF Renamed
  <2>4. AppendsCounted'
    BY <1>5 DEF LogShape, AppendsCounted, Written
  <2>5. inodes' \in Inode \cup {0} /\ logFile' \in Inode \cup {0} /\ InodesCounted'
    <3>1. CASE UNCHANGED <<inodes, logFile>>
      BY <1>1, <1>5, <2>2, <2>3, <3>1 DEF LogShape, InodesCounted
    <3>2. CASE OpenLogFile
      <4>1. /\ OpenedLog \in Inode /\ OpenedLog # 0
            /\ \A q \in LogRead : logRead[q].temp # OpenedLog
            /\ inodes' \in Inode /\ logFile' = OpenedLog /\ logFile' <= inodes'
            /\ inodes' <= inodes + (IF logFile = 0 THEN 1 ELSE 0)
            /\ inodes <= inodes'
        BY <3>2, OpenedFile DEF LogShape
      <4>2. inodes' \in Nat
        BY <4>1 DEF Inode
      <4>3. inodes + (IF logFile = 0 THEN 1 ELSE 0)
              <= 1 + Cardinality(Renamed) + (IF monitoring THEN 0 ELSE 1)
        BY DEF LogShape, InodesCounted
      <4>4. inodes' + 0 <= 1 + Cardinality(Renamed) + (IF monitoring THEN 0 ELSE 1)
        BY <1>1, <1>2, <4>1, <4>2, <4>3
      <4>5. \A q \in LogRead : logRead'[q].temp <= inodes' /\ logRead'[q].temp # logFile'
        BY <1>2, <2>2, <4>1, <4>2 DEF LogShape, InodesCounted
      <4>6. InodesCounted'
        BY <1>5, <2>3, <4>1, <4>4, <4>5 DEF InodesCounted
      <4> QED
        BY <4>1, <4>6
    <3> QED
      BY <1>5, <3>1, <3>2
  <2>6. ProcessLogTypeOK'
    BY <1>1, <1>5, <2>1, <2>5 DEF ProcessLogTypeOK
  <2> QED
    BY <2>1, <2>4, <2>5, <2>6 DEF LogShape
<1>6. WellShaped(logRead[r])
  BY DEF LogShape, ReadShape
<1>7. ASSUME NEW reset \in BOOLEAN, LogsGet(r, reset) PROVE LogShape'
  <2> DEFINE rec == [logRead[r] EXCEPT !.pc = "locking", !.reset = reset]
  <2>1. /\ logRead[r].pc = "idle" /\ UNCHANGED <<inodes, logFile>> /\ UNCHANGED <<appendLog, appendCount>>
        /\ monitoring' = monitoring /\ UNCHANGED <<content, lockFile, late, cut>>
        /\ logRead' = [logRead EXCEPT ![r] = rec]
    BY <1>1, <1>7 DEF LogsGet
  <2>2. rec \in ReadRecord /\ rec.temp = logRead[r].temp /\ WellShaped(rec)
    BY <1>1, <1>6, <2>1 DEF ReadRecord, WellShaped
  <2> HIDE DEF rec
  <2> QED
    BY <1>1, <1>5, <2>1, <2>2
<1>8. ASSUME NEW pc \in {"locked", "created", "unlocking", "done", "killed"}, ReadGoto(r, pc),
             WellShaped([logRead[r] EXCEPT !.pc = pc]),
             content' \in [Inode -> Seq(LogLine)], OpenLogFile \/ UNCHANGED <<inodes, logFile>>,
             UNCHANGED <<appendLog, appendCount>>, monitoring' = monitoring,
             lockFile' \subseteq LogRead, Cardinality(lockFile') <= 1,
             late' \subseteq LogLine, cut' \subseteq LogLine
      PROVE  LogShape'
  <2> DEFINE rec == [logRead[r] EXCEPT !.pc = pc]
  <2>1. logRead' = [logRead EXCEPT ![r] = rec] /\ rec \in ReadRecord /\ rec.temp = logRead[r].temp
    BY <1>1, <1>8 DEF ReadGoto, ReadRecord
  <2>2. WellShaped(rec)
    BY <1>8
  <2> HIDE DEF rec
  <2> QED
    BY <1>5, <1>8, <2>1, <2>2
<1>9. CASE AcquireLock(r)
  <2>1. /\ logRead[r].pc = "locking" /\ UNCHANGED <<inodes, logFile>> /\ UNCHANGED <<appendLog, appendCount>>
        /\ monitoring' = monitoring /\ UNCHANGED <<content, late, cut>>
    BY <1>9 DEF AcquireLock
  <2>2. CASE lockFile = {}
    <3>1. lockFile' = {r} /\ ReadGoto(r, "locked")
      BY <1>9, <2>2 DEF AcquireLock
    <3>2. Cardinality(lockFile') <= 1 /\ lockFile' \subseteq LogRead
      <4>1. Cardinality({r}) = 1
        BY FS_Singleton
      <4> QED
        BY <3>1, <4>1
    <3>3. WellShaped([logRead[r] EXCEPT !.pc = "locked"])
      BY <1>1, <1>6, <2>1 DEF WellShaped, ReadRecord
    <3> QED
      BY <1>1, <1>8, <2>1, <3>1, <3>2, <3>3
  <2>3. CASE lockFile # {}
    <3> DEFINE rec == [logRead[r] EXCEPT !.tries = logRead[r].tries + 1,
                                         !.pc = IF logRead[r].tries + 1 = LockAttempts
                                                THEN "failed" ELSE "locking"]
    <3>1. logRead' = [logRead EXCEPT ![r] = rec] /\ UNCHANGED lockFile
      BY <1>1, <1>9, <2>3 DEF AcquireLock
    <3>2. logRead[r].tries \in 0 .. LockAttempts /\ logRead[r].tries < LockAttempts
      BY <1>1, <1>6, <2>1 DEF WellShaped, ReadRecord
    <3>3. logRead[r].tries + 1 \in 0 .. LockAttempts
      BY <3>2
    <3>4. /\ rec.pc = (IF logRead[r].tries + 1 = LockAttempts THEN "failed" ELSE "locking")
          /\ rec.tries = logRead[r].tries + 1 /\ rec.temp = logRead[r].temp /\ rec.logs = logRead[r].logs
          /\ rec \in ReadRecord
      BY <1>1, <3>3 DEF ReadRecord
    <3>5. WellShaped(rec)
      <4> HIDE DEF rec
      <4> QED
        BY <1>6, <2>1, <3>2, <3>3, <3>4 DEF WellShaped
    <3> HIDE DEF rec
    <3> QED
      BY <1>1, <1>5, <2>1, <3>1, <3>4, <3>5
  <2> QED
    BY <2>2, <2>3
<1>10. CASE ReadLog(r)
  <2> DEFINE lines == IF logFile = 0 THEN <<>> ELSE content[logFile]
  <2> DEFINE rec == [logRead[r] EXCEPT !.pc = "unlocking", !.logs = lines]
  <2>1. /\ UNCHANGED <<inodes, logFile>> /\ UNCHANGED <<appendLog, appendCount>>
        /\ monitoring' = monitoring /\ UNCHANGED <<content, lockFile, late, cut>>
        /\ logRead' = [logRead EXCEPT ![r] = rec]
    BY <1>1, <1>10 DEF ReadLog
  <2>2. lines \in Seq(LogLine)
    BY <1>1
  <2> HIDE DEF lines
  <2>3. rec \in ReadRecord /\ rec.temp = logRead[r].temp /\ WellShaped(rec)
    BY <1>1, <2>2 DEF ReadRecord, WellShaped
  <2> HIDE DEF rec
  <2> QED
    BY <1>1, <1>5, <2>1, <2>3
<1>11. CASE RenameLog(r)
  <2>1. /\ logRead[r].pc = "locked" /\ logRead[r].reset /\ UNCHANGED inodes
        /\ UNCHANGED <<appendLog, appendCount>>
        /\ monitoring' = monitoring /\ UNCHANGED <<content, lockFile, cut>>
    BY <1>11 DEF RenameLog
  <2>2. CASE logFile = 0
    <3>1. ReadGoto(r, "unlocking") /\ UNCHANGED <<logFile, late>>
      BY <1>11, <2>2 DEF RenameLog
    <3>2. WellShaped([logRead[r] EXCEPT !.pc = "unlocking"])
      BY <1>1 DEF WellShaped, ReadRecord
    <3> QED
      BY <1>1, <1>8, <2>1, <3>1, <3>2
  <2>3. CASE logFile # 0
    <3> DEFINE rec == [logRead[r] EXCEPT !.pc = "renamed", !.temp = logFile]
    <3>1. logRead' = [logRead EXCEPT ![r] = rec] /\ logFile' = 0 /\ late' = late \cup Opened
      BY <1>1, <1>11, <2>3 DEF RenameLog
    <3>2. rec \in ReadRecord /\ rec.temp = logFile /\ WellShaped(rec)
      BY <1>1, <1>6, <2>1, <2>3 DEF ReadRecord, WellShaped
    <3> HIDE DEF rec
    <3>3. /\ logRead' \in [LogRead -> ReadRecord] /\ ReadShape' /\ logRead'[r] = rec
          /\ \A q \in LogRead : q # r => logRead'[q] = logRead[q]
      BY <1>4, <3>1, <3>2
    <3>4. logRead[r].temp = 0 /\ Renamed' = Renamed \cup {r} /\ r \notin Renamed
      BY <1>6, <2>1, <2>3, <3>2, <3>3 DEF Renamed, WellShaped
    <3>5. Cardinality(Renamed') = Cardinality(Renamed) + 1
      BY <1>2, <3>4, FS_AddElement
    <3>6. inodes + 0 <= 1 + Cardinality(Renamed) + (IF monitoring THEN 0 ELSE 1)
      BY <1>2, <2>3 DEF LogShape, InodesCounted
    <3>7. inodes + 1 <= 1 + Cardinality(Renamed') + (IF monitoring THEN 0 ELSE 1)
      BY <1>2, <3>5, <3>6
    <3>8. \A q \in LogRead : logRead'[q].temp <= inodes /\ (logRead'[q].temp # 0 => logRead'[q].temp # 0)
      BY <3>2, <3>3 DEF LogShape, InodesCounted
    <3>9. InodesCounted'
      BY <1>2, <2>1, <3>1, <3>7, <3>8 DEF InodesCounted
    <3>10. AppendsCounted'
      BY <2>1 DEF LogShape, AppendsCounted, Written
    <3>11. ProcessLogTypeOK'
      BY <1>1, <1>3, <2>1, <3>1, <3>3 DEF ProcessLogTypeOK
    <3> QED
      BY <3>3, <3>9, <3>10, <3>11 DEF LogShape
  <2> QED
    BY <2>2, <2>3
<1>12. CASE CreateEmptyLog(r)
  <2>1. /\ logRead[r].pc = "renamed" /\ OpenLogFile /\ UNCHANGED <<appendLog, appendCount>>
        /\ content' = [content EXCEPT ![OpenedLog] = <<>>] /\ ReadGoto(r, "created")
        /\ monitoring' = monitoring /\ UNCHANGED <<lockFile, late, cut>>
    BY <1>12 DEF CreateEmptyLog
  <2>2. content' \in [Inode -> Seq(LogLine)]
    <3>1. <<>> \in Seq(LogLine)
      OBVIOUS
    <3> QED
      BY <1>1, <2>1, <3>1
  <2>3. WellShaped([logRead[r] EXCEPT !.pc = "created"])
    BY <1>1, <1>6, <2>1 DEF WellShaped, ReadRecord
  <2> QED
    BY <1>1, <1>8, <2>1, <2>2, <2>3
<1>13. CASE ReadTemp(r)
  <2> DEFINE lines == content[logRead[r].temp]
  <2> DEFINE rec == [logRead[r] EXCEPT !.pc = "unlocking", !.logs = lines]
  <2>1. /\ logRead[r].pc = "created" /\ UNCHANGED <<inodes, logFile>> /\ UNCHANGED <<appendLog, appendCount>>
        /\ monitoring' = monitoring /\ UNCHANGED <<content, lockFile, late>>
        /\ \/ logRead' = [logRead EXCEPT ![r] = rec] /\ UNCHANGED cut
           \/ ReadGoto(r, "unlocking") /\ cut' = cut \cup Range(lines)
    BY <1>1, <1>13 DEF ReadTemp
  <2>2. logRead[r].temp \in Inode
    BY <1>1, <1>6, <2>1 DEF WellShaped, ReadRecord
  <2>3. lines \in Seq(LogLine) /\ Range(lines) \subseteq LogLine
    BY <1>1, <2>2, RangeOf
  <2> HIDE DEF lines
  <2>4. rec \in ReadRecord /\ rec.temp = logRead[r].temp /\ WellShaped(rec)
    BY <1>1, <2>3 DEF ReadRecord, WellShaped
  <2> HIDE DEF rec
  <2>5. CASE logRead' = [logRead EXCEPT ![r] = rec] /\ UNCHANGED cut
    BY <1>1, <1>5, <2>1, <2>4, <2>5
  <2>6. CASE ReadGoto(r, "unlocking") /\ cut' = cut \cup Range(lines)
    <3>1. WellShaped([logRead[r] EXCEPT !.pc = "unlocking"])
      BY <1>1 DEF WellShaped, ReadRecord
    <3> QED
      BY <1>1, <1>8, <2>1, <2>3, <2>6, <3>1
  <2> QED
    BY <2>1, <2>5, <2>6
<1>14. CASE ReleaseLock(r)
  <2>1. /\ lockFile' = {} /\ ReadGoto(r, "done") /\ UNCHANGED <<inodes, logFile>>
        /\ UNCHANGED <<appendLog, appendCount>> /\ monitoring' = monitoring /\ UNCHANGED <<content, late, cut>>
    BY <1>14 DEF ReleaseLock
  <2>2. Cardinality(lockFile') <= 1 /\ lockFile' \subseteq LogRead
    BY <2>1, FS_EmptySet
  <2>3. WellShaped([logRead[r] EXCEPT !.pc = "done"])
    BY <1>1 DEF WellShaped, ReadRecord
  <2> QED
    BY <1>1, <1>8, <2>1, <2>2, <2>3
<1>15. CASE Killed(r)
  <2>1. /\ ReadGoto(r, "killed") /\ UNCHANGED <<inodes, logFile>> /\ late' \subseteq LogLine
        /\ UNCHANGED <<appendLog, appendCount>> /\ monitoring' = monitoring /\ UNCHANGED <<content, lockFile, cut>>
    BY <1>1, <1>3, <1>15 DEF Killed
  <2>2. WellShaped([logRead[r] EXCEPT !.pc = "killed"])
    BY <1>1 DEF WellShaped, ReadRecord
  <2> QED
    BY <1>1, <1>8, <2>1, <2>2
<1> QED
  BY <1>7, <1>9, <1>10, <1>11, <1>12, <1>13, <1>14, <1>15 DEF ReadStep

\* The clean-up and the steps that change nothing.
LEMMA CleanupTyped ==
  ASSUME LogShape, CleanupLog \/ UNCHANGED logVars
  PROVE  LogShape'
<1>1. /\ content \in [Inode -> Seq(LogLine)] /\ inodes \in Nat /\ logFile \in Inode \cup {0} /\ logFile \in Nat
      /\ monitoring \in BOOLEAN /\ Cardinality(Renamed) \in Nat /\ late \subseteq LogLine /\ cut \subseteq LogLine
  BY LogSizes DEF LogShape, ProcessLogTypeOK
<1>2. CASE CleanupLog
  <2>1. /\ logFile' = 0 /\ UNCHANGED <<content, inodes, appendLog, appendCount, logRead, lockFile>>
        /\ late' = late \cup Opened
        /\ cut' = IF logFile = 0 THEN cut ELSE cut \cup Range(content[logFile])
    BY <1>2 DEF CleanupLog
  <2>2. monitoring /\ ~monitoring' /\ monitoring' \in BOOLEAN
    BY <1>2, Zenon DEF CleanupLog
  <2>3. logFile # 0 => Range(content[logFile]) \subseteq LogLine
    BY <1>1, RangeOf
  <2>4. late' \subseteq LogLine /\ cut' \subseteq LogLine
    BY <1>1, <2>1, <2>3 DEF Opened
  <2>5. ProcessLogTypeOK'
    BY <2>1, <2>2, <2>4 DEF LogShape, ProcessLogTypeOK
  <2>6. ReadShape' /\ AppendsCounted' /\ Renamed' = Renamed
    BY <2>1 DEF LogShape, ReadShape, AppendsCounted, Written, Renamed
  <2>7. /\ inodes + (IF logFile = 0 THEN 1 ELSE 0) <= 1 + Cardinality(Renamed) + 0
        /\ \A r \in LogRead : logRead[r].temp <= inodes
    BY <2>2 DEF LogShape, InodesCounted
  <2>8. inodes + 1 <= 1 + Cardinality(Renamed) + 1
    BY <1>1, <2>7
  <2>9. InodesCounted'
    BY <1>1, <2>1, <2>2, <2>6, <2>7, <2>8 DEF InodesCounted
  <2> QED
    BY <2>5, <2>6, <2>9 DEF LogShape
<1>3. CASE UNCHANGED logVars
  <2>1. /\ UNCHANGED <<content, inodes, logFile, appendLog, appendCount, logRead, lockFile, late, cut>>
        /\ monitoring' = monitoring
    BY <1>3 DEF logVars
  <2>2. ProcessLogTypeOK'
    BY <2>1 DEF LogShape, ProcessLogTypeOK
  <2>3. ReadShape' /\ AppendsCounted' /\ InodesCounted'
    BY <2>1 DEF LogShape, ReadShape, AppendsCounted, Written, InodesCounted, Renamed
  <2> QED
    BY <2>2, <2>3 DEF LogShape
<1> QED
  BY <1>2, <1>3

\* The lock file is created when there is none and removed by its owner.
LEMMA LockStep ==
  ASSUME LogShape, LogLocking, [ProcessLogNext]_logVars
  PROVE  LogLocking'
<1>1. logRead \in [LogRead -> ReadRecord] /\ lockFile \subseteq LogRead
  BY DEF LogShape, ProcessLogTypeOK
<1>2. CASE UNCHANGED <<logRead, lockFile>>
  BY <1>2 DEF LogLocking, Holding
<1>3. ASSUME NEW r \in LogRead, NEW rec, logRead' = [logRead EXCEPT ![r] = rec],
             UNCHANGED lockFile,
             rec.pc \in {"locked", "renamed", "created", "unlocking"} => Holding(r),
             Holding(r) => rec.pc \in {"locked", "renamed", "created", "unlocking", "killed"},
             logRead[r].pc # "killed"
      PROVE  LogLocking'
  <2>1. logRead'[r] = rec /\ \A q \in LogRead : q # r => logRead'[q] = logRead[q]
    BY <1>1, <1>3
  <2>2. \A q \in LogRead : Holding(q)' => lockFile' = {q}
    BY <1>3, <2>1 DEF LogLocking, Holding
  <2>3. \A q \in lockFile' : Holding(q)' \/ logRead'[q].pc = "killed"
    BY <1>1, <1>3, <2>1 DEF LogLocking, Holding
  <2> QED
    BY <1>3, <2>2, <2>3 DEF LogLocking
<1>4. ASSUME NEW r \in LogRead, NEW reset \in BOOLEAN, LogsGet(r, reset) PROVE LogLocking'
  <2> DEFINE rec == [logRead[r] EXCEPT !.pc = "locking", !.reset = reset]
  <2>1. /\ logRead' = [logRead EXCEPT ![r] = rec] /\ UNCHANGED lockFile /\ logRead[r].pc = "idle"
        /\ rec.pc = "locking"
    BY <1>1, <1>4 DEF LogsGet, ReadRecord
  <2> HIDE DEF rec
  <2> QED
    BY <1>3, <2>1 DEF Holding
<1>5. ASSUME NEW r \in LogRead, AcquireLock(r) PROVE LogLocking'
  <2>1. CASE lockFile = {}
    <3>1. /\ lockFile' = {r} /\ logRead' = [logRead EXCEPT ![r].pc = "locked"]
      BY <1>5, <2>1 DEF AcquireLock, ReadGoto
    <3>2. logRead'[r].pc = "locked" /\ \A q \in LogRead : q # r => logRead'[q] = logRead[q]
      BY <1>1, <3>1 DEF ReadRecord
    <3>3. \A q \in LogRead : ~Holding(q)
      BY <2>1 DEF LogLocking
    <3>4. \A q \in LogRead : Holding(q)' => lockFile' = {q}
      BY <3>1, <3>2, <3>3 DEF Holding
    <3> QED
      BY <3>1, <3>2, <3>4 DEF LogLocking, Holding
  <2>2. CASE lockFile # {}
    <3> DEFINE rec == [logRead[r] EXCEPT !.tries = logRead[r].tries + 1,
                                         !.pc = IF logRead[r].tries + 1 = LockAttempts
                                                THEN "failed" ELSE "locking"]
    <3>1. /\ logRead' = [logRead EXCEPT ![r] = rec] /\ UNCHANGED lockFile /\ logRead[r].pc = "locking"
      BY <1>1, <1>5, <2>2 DEF AcquireLock
    <3>2. rec.pc \in {"failed", "locking"}
      BY <1>1 DEF ReadRecord
    <3> HIDE DEF rec
    <3> QED
      BY <1>3, <3>1, <3>2 DEF Holding
  <2> QED
    BY <2>1, <2>2
<1>6. ASSUME NEW r \in LogRead, ReadLog(r) PROVE LogLocking'
  <2> DEFINE rec == [logRead[r] EXCEPT !.pc = "unlocking",
                                       !.logs = IF logFile = 0 THEN <<>> ELSE content[logFile]]
  <2>1. /\ logRead' = [logRead EXCEPT ![r] = rec] /\ UNCHANGED lockFile /\ logRead[r].pc = "locked"
        /\ rec.pc = "unlocking"
    BY <1>1, <1>6 DEF ReadLog, ReadRecord
  <2> HIDE DEF rec
  <2> QED
    BY <1>3, <2>1 DEF Holding
<1>7. ASSUME NEW r \in LogRead, NEW pc \in {"created", "unlocking", "killed"}, ReadGoto(r, pc),
             UNCHANGED lockFile, pc # "killed" => Holding(r), logRead[r].pc # "killed"
      PROVE  LogLocking'
  <2> DEFINE rec == [logRead[r] EXCEPT !.pc = pc]
  <2>1. logRead' = [logRead EXCEPT ![r] = rec] /\ rec.pc = pc
    BY <1>1, <1>7 DEF ReadGoto, ReadRecord
  <2> HIDE DEF rec
  <2> QED
    BY <1>3, <1>7, <2>1
<1>8. ASSUME NEW r \in LogRead, RenameLog(r) PROVE LogLocking'
  <2>1. logRead[r].pc = "locked" /\ UNCHANGED lockFile
    BY <1>8 DEF RenameLog
  <2>2. CASE logFile = 0
    <3>1. ReadGoto(r, "unlocking")
      BY <1>8, <2>2 DEF RenameLog
    <3> QED
      BY <1>7, <2>1, <3>1 DEF Holding
  <2>3. CASE logFile # 0
    <3> DEFINE rec == [logRead[r] EXCEPT !.pc = "renamed", !.temp = logFile]
    <3>1. logRead' = [logRead EXCEPT ![r] = rec] /\ rec.pc = "renamed"
      BY <1>1, <1>8, <2>3 DEF RenameLog, ReadRecord
    <3> HIDE DEF rec
    <3> QED
      BY <1>3, <2>1, <3>1 DEF Holding
  <2> QED
    BY <2>2, <2>3
<1>9. ASSUME NEW r \in LogRead, CreateEmptyLog(r) PROVE LogLocking'
  <2>1. ReadGoto(r, "created") /\ UNCHANGED lockFile /\ logRead[r].pc = "renamed"
    BY <1>9 DEF CreateEmptyLog
  <2> QED
    BY <1>7, <2>1 DEF Holding
<1>10. ASSUME NEW r \in LogRead, ReadTemp(r) PROVE LogLocking'
  <2> DEFINE rec == [logRead[r] EXCEPT !.pc = "unlocking", !.logs = content[logRead[r].temp]]
  <2>1. /\ UNCHANGED lockFile /\ logRead[r].pc = "created"
        /\ logRead' = [logRead EXCEPT ![r] = rec] \/ ReadGoto(r, "unlocking")
    BY <1>1, <1>10 DEF ReadTemp
  <2>2. rec.pc = "unlocking"
    BY <1>1 DEF ReadRecord
  <2> HIDE DEF rec
  <2>3. CASE logRead' = [logRead EXCEPT ![r] = rec]
    BY <1>3, <2>1, <2>2, <2>3 DEF Holding
  <2>4. CASE ReadGoto(r, "unlocking")
    BY <1>7, <2>1, <2>4 DEF Holding
  <2> QED
    BY <2>1, <2>3, <2>4
<1>11. ASSUME NEW r \in LogRead, ReleaseLock(r) PROVE LogLocking'
  <2>1. logRead[r].pc = "unlocking" /\ lockFile' = {} /\ logRead' = [logRead EXCEPT ![r].pc = "done"]
    BY <1>11 DEF ReleaseLock, ReadGoto
  <2>2. logRead'[r].pc = "done" /\ \A q \in LogRead : q # r => logRead'[q] = logRead[q]
    BY <1>1, <2>1 DEF ReadRecord
  <2>3. Holding(r) /\ \A q \in LogRead : q # r => ~Holding(q)
    BY <2>1 DEF LogLocking, Holding
  <2>4. \A q \in LogRead : ~Holding(q)'
    BY <2>2, <2>3 DEF Holding
  <2> QED
    BY <2>1, <2>4 DEF LogLocking
<1>12. ASSUME NEW r \in LogRead, Killed(r) PROVE LogLocking'
  <2>1. ReadGoto(r, "killed") /\ UNCHANGED lockFile /\ logRead[r].pc # "killed"
    BY <1>12 DEF Killed, Reading
  <2> QED
    BY <1>7, <2>1
<1>13. ASSUME NEW l \in LogLine,
              OpenLog(l) \/ WriteLine(l) \/ TrimLogIfNeeded(l) \/ ReadForTrim(l) \/ WriteTrimmed(l)
       PROVE  UNCHANGED <<logRead, lockFile>>
  BY <1>13 DEF OpenLog, WriteLine, TrimLogIfNeeded, ReadForTrim, WriteTrimmed
<1>14. CleanupLog \/ UNCHANGED logVars => UNCHANGED <<logRead, lockFile>>
  BY DEF CleanupLog, logVars
<1> QED
  BY <1>2, <1>4, <1>5, <1>6, <1>8, <1>9, <1>10, <1>11, <1>12, <1>13, <1>14
  DEF ProcessLogNext, ReadStep

\* A step keeps the types and the shape of the state.
LEMMA ShapeStep ==
  ASSUME LogShape, LogLocking, [ProcessLogNext]_logVars
  PROVE  LogShape'
  BY AppendTyped, ReadTyped, CleanupTyped DEF ProcessLogNext

\* Lines stay accounted for when each reader's are.
LEMMA ElsewhereGrows ==
  ASSUME late \subseteq late', cut \subseteq cut', \A r \in LogRead : HeldBy(r) \subseteq Elsewhere'
  PROVE  Elsewhere \subseteq Elsewhere'
<1> SUFFICES ASSUME NEW x \in Elsewhere PROVE x \in Elsewhere'
  OBVIOUS
<1>1. x \in late \/ x \in cut \/ \E r \in LogRead : x \in HeldBy(r)
  BY DEF Elsewhere
<1>2. late' \subseteq Elsewhere' /\ cut' \subseteq Elsewhere'
  BY DEF Elsewhere
<1> QED
  BY <1>1, <1>2

\* A reader that does not begin a reset, and does not lose what it holds.
LEMMA ReaderMoves ==
  ASSUME LinesSafe, logRead \in [LogRead -> ReadRecord],
         NEW r \in LogRead, NEW rec, logRead' = [logRead EXCEPT ![r] = rec],
         rec.pc \notin {"renamed", "created"},
         UNCHANGED <<content, appendLog, logFile>>, monitoring' = monitoring,
         late \subseteq late', cut \subseteq cut', HeldBy(r) \subseteq Elsewhere'
  PROVE  LinesSafe'
<1>1. logRead'[r] = rec /\ \A q \in LogRead : q # r => logRead'[q] = logRead[q]
  OBVIOUS
<1>2. \A q \in LogRead : q # r => HeldBy(q)' = HeldBy(q)
  BY <1>1 DEF HeldBy
<1>3. \A q \in LogRead : HeldBy(q)' \subseteq Elsewhere'
  BY DEF Elsewhere
<1>4. Elsewhere \subseteq Elsewhere'
  BY <1>2, <1>3, ElsewhereGrows
<1>5. /\ Opened' = Opened /\ Trimming' = Trimming /\ Written' = Written /\ InLog' = InLog
      /\ Resetting' \subseteq Resetting
  BY <1>1 DEF Opened, Trimming, Written, InLog, Resetting
<1>6. Disturbed' => Disturbed
  BY <1>5 DEF Disturbed
<1>7. Written' \subseteq InLog' \cup Elsewhere'
  BY <1>4, <1>5 DEF LinesSafe
<1>8. \A l \in Trimming' : Written' \subseteq Range(appendLog'[l].lines) \cup Elsewhere'
  BY <1>4, <1>5 DEF LinesSafe
<1>9. \A q \in LogRead : logRead'[q].pc = "renamed" => Written' \subseteq Elsewhere'
  BY <1>1, <1>4, <1>5 DEF LinesSafe
<1>10. \A l \in Opened' : l \notin late' => logFile' # 0 /\ appendLog'[l].inode = logFile'
  BY <1>5 DEF LinesSafe
<1>11. Disturbed' => Opened' \subseteq late'
  BY <1>5, <1>6 DEF LinesSafe
<1> QED
  BY <1>7, <1>8, <1>9, <1>10, <1>11 DEF LinesSafe

\* The appends: a line goes where its file is, and a trim cuts what it does not keep.
LEMMA AppendLines ==
  ASSUME LogInv, NEW l \in LogLine,
         OpenLog(l) \/ WriteLine(l) \/ TrimLogIfNeeded(l) \/ ReadForTrim(l) \/ WriteTrimmed(l)
  PROVE  LinesSafe'
<1> USE ProcessLogAssumption
<1>1. /\ LinesSafe /\ ProcessLogTypeOK /\ InodesCounted /\ AppendsCounted
      /\ content \in [Inode -> Seq(LogLine)] /\ logFile \in Inode \cup {0}
      /\ appendLog \in [LogLine -> AppendRecord] /\ appendLog[l] \in AppendRecord
      /\ logRead \in [LogRead -> ReadRecord]
  BY DEF LogInv, ProcessLogTypeOK
<1>2. /\ OpenedLog \in Inode /\ OpenedLog # 0 /\ (logFile # 0 => OpenedLog = logFile)
      /\ \A r \in LogRead : logRead[r].temp # OpenedLog
  BY <1>1, OpenedFile
<1>3. \A r \in LogRead : logRead[r].temp \in Inode \cup {0}
  BY <1>1 DEF ReadRecord
<1>4. ASSUME UNCHANGED logRead, late \subseteq late', cut \subseteq cut',
             \A r \in LogRead : logRead[r].temp # 0 =>
                 Range(content[logRead[r].temp]) \subseteq Range(content'[logRead[r].temp])
      PROVE  Elsewhere \subseteq Elsewhere' /\ Resetting' = Resetting
  <2>1. \A r \in LogRead : HeldBy(r) \subseteq HeldBy(r)'
    BY <1>4 DEF HeldBy
  <2>2. \A r \in LogRead : HeldBy(r)' \subseteq Elsewhere'
    BY DEF Elsewhere
  <2>3. Resetting' = Resetting
    BY <1>4 DEF Resetting
  <2> QED
    BY <1>4, <2>1, <2>2, <2>3, ElsewhereGrows
<1>5. ASSUME NEW rec, appendLog' = [appendLog EXCEPT ![l] = rec]
      PROVE  appendLog'[l] = rec /\ \A k \in LogLine : k # l => appendLog'[k] = appendLog[k]
  BY <1>1, <1>5
<1>6. ASSUME UNCHANGED <<logRead, content, logFile, late, cut>>, monitoring' = monitoring,
             NEW pc \in {"checking", "trimming", "done"}, AppendGoto(l, pc),
             appendLog[l].pc \in {"checking", "trimming"}
      PROVE  LinesSafe'
  <2> DEFINE rec == Appending(pc, 0, <<>>)
  <2>1. appendLog' = [appendLog EXCEPT ![l] = rec] /\ rec.pc = pc
    BY <1>6 DEF AppendGoto, Appending
  <2> HIDE DEF rec
  <2>2. appendLog'[l] = rec /\ \A k \in LogLine : k # l => appendLog'[k] = appendLog[k]
    BY <1>5, <2>1
  <2>3. Opened' = Opened /\ Trimming' = Trimming /\ Written' = Written /\ InLog' = InLog
    BY <1>6, <2>1, <2>2 DEF Opened, Trimming, Written, InLog
  <2>4. Elsewhere \subseteq Elsewhere' /\ Resetting' = Resetting
    BY <1>4, <1>6
  <2>5. \A k \in Opened \cup Trimming : appendLog'[k] = appendLog[k]
    BY <1>6, <2>2 DEF Opened, Trimming
  <2>6. Disturbed' <=> Disturbed
    BY <1>6, <2>3, <2>4 DEF Disturbed
  <2>7. /\ \A k \in Opened' : k \notin late' => logFile' # 0 /\ appendLog'[k].inode = logFile'
        /\ Disturbed' => Opened' \subseteq late'
    BY <1>1, <1>6, <2>3, <2>5, <2>6 DEF LinesSafe
  <2>8. /\ Written' \subseteq InLog' \cup Elsewhere'
        /\ \A k \in Trimming' : Written' \subseteq Range(appendLog'[k].lines) \cup Elsewhere'
    BY <1>1, <2>3, <2>4, <2>5 DEF LinesSafe
  <2>9. \A r \in LogRead : logRead'[r].pc = "renamed" => Written' \subseteq Elsewhere'
    BY <1>1, <1>6, <2>3, <2>4 DEF LinesSafe
  <2> QED
    BY <2>7, <2>8, <2>9 DEF LinesSafe
<1>7. CASE OpenLog(l)
  <2> DEFINE rec == Appending("opened", OpenedLog, <<>>)
  <2>1. /\ appendLog' = [appendLog EXCEPT ![l] = rec] /\ rec.pc = "opened" /\ rec.inode = OpenedLog
        /\ logFile' = OpenedLog /\ appendLog[l].pc = "idle"
        /\ late' = (IF Disturbed THEN late \cup {l} ELSE late)
        /\ UNCHANGED <<content, logRead, cut>> /\ monitoring' = monitoring
    BY <1>7 DEF OpenLog, OpenLogFile, Appending
  <2> HIDE DEF rec
  <2>2. appendLog'[l] = rec /\ \A k \in LogLine : k # l => appendLog'[k] = appendLog[k]
    BY <1>5, <2>1
  <2>3. Opened' = Opened \cup {l} /\ Trimming' = Trimming /\ Written' = Written
    BY <2>1, <2>2 DEF Opened, Trimming, Written
  <2>4. late \subseteq late' /\ (Disturbed => l \in late')
    BY <2>1
  <2>5. Elsewhere \subseteq Elsewhere' /\ Resetting' = Resetting
    BY <1>4, <2>1, <2>4
  <2>6. InLog \subseteq InLog'
    BY <1>2, <2>1 DEF InLog
  <2>7. Disturbed' <=> Disturbed
    BY <2>1, <2>3, <2>5 DEF Disturbed
  <2>8. \A k \in Trimming : appendLog'[k] = appendLog[k]
    BY <2>1, <2>2 DEF Trimming
  <2>9. \A k \in Opened' : k \notin late' => logFile' # 0 /\ appendLog'[k].inode = logFile'
    <3> SUFFICES ASSUME NEW k \in Opened', k \notin late'
                 PROVE  logFile' # 0 /\ appendLog'[k].inode = logFile'
      OBVIOUS
    <3>1. CASE k = l
      BY <1>2, <2>1, <2>2, <3>1
    <3>2. CASE k # l
      <4>1. k \in Opened /\ k \notin late /\ k \in LogLine
        BY <2>3, <2>4, <3>2 DEF Opened
      <4>2. logFile # 0 /\ appendLog[k].inode = logFile
        BY <1>1, <4>1 DEF LinesSafe
      <4> QED
        BY <1>2, <2>1, <2>2, <3>2, <4>1, <4>2
    <3> QED
      BY <3>1, <3>2
  <2>10. Disturbed' => Opened' \subseteq late'
    BY <1>1, <2>3, <2>4, <2>7 DEF LinesSafe
  <2>11. /\ Written' \subseteq InLog' \cup Elsewhere'
         /\ \A k \in Trimming' : Written' \subseteq Range(appendLog'[k].lines) \cup Elsewhere'
    BY <1>1, <2>3, <2>5, <2>6, <2>8 DEF LinesSafe
  <2>12. \A r \in LogRead : logRead'[r].pc = "renamed" => Written' \subseteq Elsewhere'
    BY <1>1, <2>1, <2>3, <2>5 DEF LinesSafe
  <2> QED
    BY <2>9, <2>10, <2>11, <2>12 DEF LinesSafe
<1>8. CASE WriteLine(l)
  <2> DEFINE rec == Appending(IF (appendCount + 1) % CHECK_INTERVAL = 0 THEN "checking" ELSE "done", 0, <<>>)
  <2> DEFINE i == appendLog[l].inode
  <2>1. /\ appendLog[l].pc = "opened" /\ content' = [content EXCEPT ![i] = Append(content[i], l)]
        /\ appendLog' = [appendLog EXCEPT ![l] = rec]
        /\ UNCHANGED <<logFile, logRead, late, cut>> /\ monitoring' = monitoring
    BY <1>8 DEF WriteLine, AppendGoto
  <2>2. rec.pc \in {"checking", "done"}
    BY DEF Appending
  <2> HIDE DEF rec
  <2>3. i \in Inode
    BY <1>1, <2>1 DEF AppendsCounted, AppendRecord
  <2> HIDE DEF i
  <2>4. content[i] \in Seq(LogLine)
    BY <1>1, <2>3
  <2>5. Range(Append(content[i], l)) = Range(content[i]) \cup {l}
    BY <2>4, RangeAppend
  <2>6. /\ Range(content'[i]) = Range(content[i]) \cup {l}
        /\ \A j \in Inode : Range(content[j]) \subseteq Range(content'[j])
    BY <1>1, <2>1, <2>3, <2>5
  <2>7. \A r \in LogRead : logRead[r].temp # 0 =>
                 Range(content[logRead[r].temp]) \subseteq Range(content'[logRead[r].temp])
    BY <1>3, <2>6
  <2>8. Elsewhere \subseteq Elsewhere' /\ Resetting' = Resetting
    BY <1>4, <2>1, <2>7
  <2>9. InLog \subseteq InLog'
    BY <1>1, <2>1, <2>6 DEF InLog
  <2>10. appendLog'[l] = rec /\ \A k \in LogLine : k # l => appendLog'[k] = appendLog[k]
    BY <1>5, <2>1
  <2>11. /\ Opened' \subseteq Opened /\ l \notin Opened' /\ Trimming' = Trimming /\ Written' = Written \cup {l}
         /\ l \in Opened /\ l \notin Trimming
    BY <2>1, <2>2, <2>10 DEF Opened, Trimming, Written
  <2>12. Disturbed' <=> Disturbed
    BY <2>1, <2>8, <2>11 DEF Disturbed
  <2>13. l \in late => l \in Elsewhere'
    BY <2>1 DEF Elsewhere
  <2>14. l \notin late => l \in InLog'
    <3> SUFFICES ASSUME l \notin late PROVE l \in InLog'
      OBVIOUS
    <3>1. logFile # 0 /\ logFile = i
      BY <1>1, <2>11 DEF LinesSafe, i
    <3> QED
      BY <2>1, <2>6, <3>1 DEF InLog
  <2>15. Written' \subseteq InLog' \cup Elsewhere'
    BY <1>1, <2>8, <2>9, <2>11, <2>13, <2>14 DEF LinesSafe
  <2>16. Trimming # {} \/ Resetting # {} => l \in late
    BY <1>1, <2>11 DEF LinesSafe, Disturbed
  <2>17. \A k \in Trimming' : Written' \subseteq Range(appendLog'[k].lines) \cup Elsewhere'
    <3> SUFFICES ASSUME NEW k \in Trimming'
                 PROVE  Written' \subseteq Range(appendLog'[k].lines) \cup Elsewhere'
      OBVIOUS
    <3>1. k \in Trimming /\ appendLog'[k] = appendLog[k] /\ l \in Elsewhere'
      BY <2>10, <2>11, <2>13, <2>16 DEF Trimming
    <3> QED
      BY <1>1, <2>8, <2>11, <3>1 DEF LinesSafe
  <2>18. \A r \in LogRead : logRead'[r].pc = "renamed" => Written' \subseteq Elsewhere'
    <3> SUFFICES ASSUME NEW r \in LogRead, logRead'[r].pc = "renamed" PROVE Written' \subseteq Elsewhere'
      OBVIOUS
    <3>1. logRead[r].pc = "renamed" /\ r \in Resetting
      BY <2>1 DEF Resetting
    <3>2. l \in Elsewhere'
      BY <2>13, <2>16, <3>1
    <3> QED
      BY <1>1, <2>8, <2>11, <3>1, <3>2 DEF LinesSafe
  <2>19. \A k \in Opened' : k \in Opened /\ appendLog'[k] = appendLog[k]
    BY <2>10, <2>11 DEF Opened
  <2>20. /\ \A k \in Opened' : k \notin late' => logFile' # 0 /\ appendLog'[k].inode = logFile'
         /\ Disturbed' => Opened' \subseteq late'
    BY <1>1, <2>1, <2>12, <2>19 DEF LinesSafe
  <2> QED
    BY <2>15, <2>17, <2>18, <2>20 DEF LinesSafe
<1>9. CASE TrimLogIfNeeded(l)
  <2>1. /\ UNCHANGED <<logRead, content, logFile, late, cut>> /\ monitoring' = monitoring
        /\ appendLog[l].pc = "checking" /\ \E pc \in {"checking", "trimming", "done"} : AppendGoto(l, pc)
    BY <1>9 DEF TrimLogIfNeeded
  <2> QED
    BY <1>6, <2>1
<1>10. CASE ReadForTrim(l)
  <2>1. /\ UNCHANGED <<logRead, content, logFile, cut>> /\ monitoring' = monitoring
        /\ appendLog[l].pc = "trimming"
    BY <1>10 DEF ReadForTrim
  <2>2. CASE logFile = 0
    <3>1. AppendGoto(l, "done") /\ UNCHANGED late
      BY <1>10, <2>2 DEF ReadForTrim
    <3> QED
      BY <1>6, <2>1, <3>1
  <2>3. CASE logFile # 0
    <3> DEFINE rec == Appending("writing", 0, content[logFile])
    <3>1. /\ appendLog' = [appendLog EXCEPT ![l] = rec] /\ late' = late \cup Opened
          /\ rec.pc = "writing" /\ rec.lines = content[logFile]
      BY <1>10, <2>3 DEF ReadForTrim, Appending
    <3> HIDE DEF rec
    <3>2. appendLog'[l] = rec /\ \A k \in LogLine : k # l => appendLog'[k] = appendLog[k]
      BY <1>5, <3>1
    <3>3. Opened' = Opened /\ Trimming' = Trimming \cup {l} /\ Written' = Written /\ InLog' = InLog
      BY <2>1, <3>1, <3>2 DEF Opened, Trimming, Written, InLog
    <3>4. late \subseteq late' /\ Opened' \subseteq late'
      BY <3>1, <3>3
    <3>5. Elsewhere \subseteq Elsewhere'
      BY <1>4, <2>1, <3>4
    <3>6. InLog = Range(appendLog'[l].lines)
      BY <2>3, <3>1, <3>2 DEF InLog
    <3>7. \A k \in Trimming' : Written' \subseteq Range(appendLog'[k].lines) \cup Elsewhere'
      <4> SUFFICES ASSUME NEW k \in Trimming'
                   PROVE  Written' \subseteq Range(appendLog'[k].lines) \cup Elsewhere'
        OBVIOUS
      <4>1. CASE k = l
        BY <1>1, <3>3, <3>5, <3>6, <4>1 DEF LinesSafe
      <4>2. CASE k # l
        <5>1. k \in Trimming /\ appendLog'[k] = appendLog[k]
          BY <3>2, <3>3, <4>2 DEF Trimming
        <5> QED
          BY <1>1, <3>3, <3>5, <5>1 DEF LinesSafe
      <4> QED
        BY <4>1, <4>2
    <3>8. Written' \subseteq InLog' \cup Elsewhere'
      BY <1>1, <3>3, <3>5 DEF LinesSafe
    <3>9. \A r \in LogRead : logRead'[r].pc = "renamed" => Written' \subseteq Elsewhere'
      BY <1>1, <2>1, <3>3, <3>5 DEF LinesSafe
    <3> QED
      BY <3>4, <3>7, <3>8, <3>9 DEF LinesSafe
  <2> QED
    BY <2>2, <2>3
<1>11. CASE WriteTrimmed(l)
  <2> DEFINE lines == appendLog[l].lines
  <2> DEFINE rec == Appending("done", 0, <<>>)
  <2>1. /\ appendLog[l].pc = "writing" /\ logFile' = OpenedLog
        /\ appendLog' = [appendLog EXCEPT ![l] = rec] /\ rec.pc = "done"
        /\ content' = [content EXCEPT ![OpenedLog] = Kept(lines)]
        /\ cut' = cut \cup (Range(lines) \ Range(Kept(lines)))
        /\ UNCHANGED <<logRead, late>> /\ monitoring' = monitoring
    BY <1>11 DEF WriteTrimmed, OpenLogFile, AppendGoto, Appending
  <2> HIDE DEF rec
  <2>2. appendLog'[l] = rec /\ \A k \in LogLine : k # l => appendLog'[k] = appendLog[k]
    BY <1>5, <2>1
  <2>3. /\ Opened' = Opened /\ Trimming' \subseteq Trimming /\ l \notin Trimming' /\ Written' = Written
        /\ l \in Trimming
    BY <2>1, <2>2 DEF Opened, Trimming, Written
  <2>4. \A r \in LogRead : logRead[r].temp # 0 => content'[logRead[r].temp] = content[logRead[r].temp]
    BY <1>1, <1>2, <1>3, <2>1
  <2>5. Elsewhere \subseteq Elsewhere' /\ Resetting' = Resetting
    BY <1>4, <2>1, <2>4
  <2>6. InLog' = Range(Kept(lines))
    BY <1>1, <1>2, <2>1 DEF InLog
  <2>7. Range(lines) \subseteq InLog' \cup Elsewhere'
    BY <2>1, <2>6 DEF Elsewhere
  <2>8. Written' \subseteq InLog' \cup Elsewhere'
    BY <1>1, <2>3, <2>5, <2>7 DEF LinesSafe
  <2>9. \A k \in Trimming' : k \in Trimming /\ appendLog'[k] = appendLog[k]
    BY <2>2, <2>3 DEF Trimming
  <2>10. \A k \in Trimming' : Written' \subseteq Range(appendLog'[k].lines) \cup Elsewhere'
    BY <1>1, <2>3, <2>5, <2>9 DEF LinesSafe
  <2>11. \A r \in LogRead : logRead'[r].pc = "renamed" => Written' \subseteq Elsewhere'
    BY <1>1, <2>1, <2>3, <2>5 DEF LinesSafe
  <2>12. Opened' \subseteq late'
    BY <1>1, <2>1, <2>3 DEF LinesSafe, Disturbed
  <2> QED
    BY <2>8, <2>10, <2>11, <2>12 DEF LinesSafe
<1> QED
  BY <1>7, <1>8, <1>9, <1>10, <1>11

\* The readers: what a reset takes away it holds, and then returns or gives up.
LEMMA ReadLines ==
  ASSUME LogInv, NEW r \in LogRead,
         (\E reset \in BOOLEAN : LogsGet(r, reset)) \/ ReadStep(r) \/ Killed(r)
  PROVE  LinesSafe'
<1> USE ProcessLogAssumption
<1>1. /\ LinesSafe /\ ProcessLogTypeOK /\ InodesCounted /\ ReadShape
      /\ content \in [Inode -> Seq(LogLine)] /\ logFile \in Inode \cup {0}
      /\ logRead \in [LogRead -> ReadRecord] /\ logRead[r] \in ReadRecord
      /\ WellShaped(logRead[r])
  BY DEF LogInv, ProcessLogTypeOK, ReadShape
<1>2. /\ OpenedLog \in Inode /\ OpenedLog # 0 /\ (logFile # 0 => OpenedLog = logFile)
      /\ \A q \in LogRead : logRead[q].temp # OpenedLog
  BY <1>1, OpenedFile
<1>3. \A q \in LogRead : logRead[q].temp \in Inode \cup {0}
  BY <1>1 DEF ReadRecord
<1>4. Range(<<>>) = {}
  BY DEF Range
<1>5. HeldBy(r)' \subseteq Elsewhere' /\ late' \subseteq Elsewhere' /\ cut' \subseteq Elsewhere'
  BY DEF Elsewhere
<1>6. ASSUME NEW rec, logRead' = [logRead EXCEPT ![r] = rec]
      PROVE  logRead'[r] = rec /\ \A q \in LogRead : q # r => logRead'[q] = logRead[q]
  BY <1>1, <1>6
<1>7. ASSUME NEW pc, ReadGoto(r, pc)
      PROVE  \E rec : /\ logRead' = [logRead EXCEPT ![r] = rec] /\ rec.pc = pc
                      /\ rec.reset = logRead[r].reset /\ rec.temp = logRead[r].temp
                      /\ rec.logs = logRead[r].logs
  <2> DEFINE rec == [logRead[r] EXCEPT !.pc = pc]
  <2>1. logRead' = [logRead EXCEPT ![r] = rec]
    BY <1>1, <1>7 DEF ReadGoto
  <2>2. /\ rec.pc = pc /\ rec.reset = logRead[r].reset /\ rec.temp = logRead[r].temp
        /\ rec.logs = logRead[r].logs
    BY <1>1 DEF ReadRecord
  <2> QED
    BY <2>1, <2>2
<1>8. CASE \E reset \in BOOLEAN : LogsGet(r, reset)
  <2>1. PICK reset \in BOOLEAN : LogsGet(r, reset)
    BY <1>8
  <2> DEFINE rec == [logRead[r] EXCEPT !.pc = "locking", !.reset = reset]
  <2>2. /\ logRead[r].pc = "idle" /\ logRead' = [logRead EXCEPT ![r] = rec]
        /\ UNCHANGED <<content, appendLog, logFile>> /\ monitoring' = monitoring
        /\ UNCHANGED <<late, cut>>
    BY <1>1, <2>1 DEF LogsGet
  <2>3. rec.pc = "locking"
    BY <1>1 DEF ReadRecord
  <2> HIDE DEF rec
  <2>4. HeldBy(r) = {}
    BY <1>1, <1>4, <2>2 DEF HeldBy, WellShaped
  <2> QED
    BY <1>1, <2>2, <2>3, <2>4, ReaderMoves
<1>9. CASE AcquireLock(r)
  <2>1. /\ logRead[r].pc = "locking"
        /\ UNCHANGED <<content, appendLog, logFile>> /\ monitoring' = monitoring
        /\ UNCHANGED <<late, cut>>
    BY <1>9 DEF AcquireLock
  <2>2. HeldBy(r) = {}
    BY <1>1, <1>4, <2>1 DEF HeldBy, WellShaped
  <2>3. CASE lockFile = {}
    <3>1. PICK rec : logRead' = [logRead EXCEPT ![r] = rec] /\ rec.pc = "locked"
      BY <1>7, <1>9, <2>3 DEF AcquireLock
    <3> QED
      BY <1>1, <2>1, <2>2, <3>1, ReaderMoves
  <2>4. CASE lockFile # {}
    <3> DEFINE rec == [logRead[r] EXCEPT !.tries = @ + 1,
                         !.pc = IF logRead[r].tries + 1 = LockAttempts THEN "failed" ELSE "locking"]
    <3>1. logRead' = [logRead EXCEPT ![r] = rec]
      BY <1>1, <1>9, <2>4 DEF AcquireLock
    <3>2. rec.pc \in {"failed", "locking"}
      BY <1>1 DEF ReadRecord
    <3> HIDE DEF rec
    <3>3. rec.pc \notin {"renamed", "created"}
      BY <3>2
    <3> QED
      BY <1>1, <2>1, <2>2, <3>1, <3>3, ReaderMoves
  <2> QED
    BY <2>3, <2>4
<1>10. CASE ReadLog(r)
  <2> DEFINE rec == [logRead[r] EXCEPT !.pc = "unlocking",
                       !.logs = IF logFile = 0 THEN <<>> ELSE content[logFile]]
  <2>1. /\ logRead[r].pc = "locked" /\ logRead' = [logRead EXCEPT ![r] = rec]
        /\ UNCHANGED <<content, appendLog, logFile>> /\ monitoring' = monitoring
        /\ UNCHANGED <<late, cut>>
    BY <1>1, <1>10 DEF ReadLog
  <2>2. rec.pc = "unlocking"
    BY <1>1 DEF ReadRecord
  <2> HIDE DEF rec
  <2>3. HeldBy(r) = {}
    BY <1>1, <1>4, <2>1 DEF HeldBy, WellShaped
  <2> QED
    BY <1>1, <2>1, <2>2, <2>3, ReaderMoves
<1>11. CASE RenameLog(r)
  <2>1. /\ logRead[r].pc = "locked" /\ logRead[r].reset
        /\ UNCHANGED <<content, appendLog, cut>> /\ monitoring' = monitoring
    BY <1>11 DEF RenameLog
  <2>2. HeldBy(r) = {}
    BY <1>1, <1>4, <2>1 DEF HeldBy, WellShaped
  <2>3. CASE logFile = 0
    <3>1. ReadGoto(r, "unlocking") /\ UNCHANGED <<logFile, late>>
      BY <1>11, <2>3 DEF RenameLog
    <3>2. PICK rec : logRead' = [logRead EXCEPT ![r] = rec] /\ rec.pc = "unlocking"
      BY <1>7, <3>1
    <3> QED
      BY <1>1, <2>1, <2>2, <3>1, <3>2, ReaderMoves
  <2>4. CASE logFile # 0
    <3> DEFINE rec == [logRead[r] EXCEPT !.pc = "renamed", !.temp = logFile]
    <3>1. /\ logRead' = [logRead EXCEPT ![r] = rec] /\ logFile' = 0 /\ late' = late \cup Opened
      BY <1>1, <1>11, <2>4 DEF RenameLog
    <3>2. rec.pc = "renamed" /\ rec.temp = logFile
      BY <1>1 DEF ReadRecord
    <3> HIDE DEF rec
    <3>3. logRead'[r] = rec /\ \A q \in LogRead : q # r => logRead'[q] = logRead[q]
      BY <1>6, <3>1
    <3>4. InLog \subseteq HeldBy(r)'
      BY <2>1, <2>4, <3>2, <3>3 DEF InLog, HeldBy
    <3>5. \A q \in LogRead : HeldBy(q) \subseteq Elsewhere'
      <4> SUFFICES ASSUME NEW q \in LogRead PROVE HeldBy(q) \subseteq Elsewhere'
        OBVIOUS
      <4>1. CASE q = r
        BY <2>2, <4>1
      <4>2. CASE q # r
        <5>1. HeldBy(q)' = HeldBy(q)
          BY <2>1, <3>3, <4>2 DEF HeldBy
        <5>2. HeldBy(q)' \subseteq Elsewhere'
          BY DEF Elsewhere
        <5> QED
          BY <5>1, <5>2
      <4> QED
        BY <4>1, <4>2
    <3>6. Elsewhere \subseteq Elsewhere'
      BY <2>1, <3>1, <3>5, ElsewhereGrows
    <3>7. Written' = Written /\ Opened' = Opened /\ Trimming' = Trimming
      BY <2>1 DEF Written, Opened, Trimming
    <3>8. Written' \subseteq Elsewhere'
      BY <1>1, <1>5, <3>4, <3>6, <3>7 DEF LinesSafe
    <3>9. Opened' \subseteq late'
      BY <3>1, <3>7
    <3> QED
      BY <3>8, <3>9 DEF LinesSafe
  <2> QED
    BY <2>3, <2>4
<1>12. CASE CreateEmptyLog(r)
  <2>1. /\ logRead[r].pc = "renamed" /\ logFile' = OpenedLog /\ ReadGoto(r, "created")
        /\ content' = [content EXCEPT ![OpenedLog] = <<>>]
        /\ UNCHANGED <<appendLog, late, cut>> /\ monitoring' = monitoring
    BY <1>12 DEF CreateEmptyLog, OpenLogFile
  <2>2. PICK rec : /\ logRead' = [logRead EXCEPT ![r] = rec] /\ rec.pc = "created"
                   /\ rec.reset = logRead[r].reset /\ rec.temp = logRead[r].temp
                   /\ rec.logs = logRead[r].logs
    BY <1>7, <2>1
  <2>3. logRead'[r] = rec /\ \A q \in LogRead : q # r => logRead'[q] = logRead[q]
    BY <1>6, <2>2
  <2>4. \A q \in LogRead : logRead[q].temp # 0 => content'[logRead[q].temp] = content[logRead[q].temp]
    BY <1>1, <1>2, <1>3, <2>1
  <2>5. \A q \in LogRead : HeldBy(q)' = HeldBy(q)
    <3> SUFFICES ASSUME NEW q \in LogRead PROVE HeldBy(q)' = HeldBy(q)
      OBVIOUS
    <3>1. CASE q = r
      BY <2>1, <2>2, <2>3, <2>4, <3>1 DEF HeldBy
    <3>2. CASE q # r
      BY <2>3, <2>4, <3>2 DEF HeldBy
    <3> QED
      BY <3>1, <3>2
  <2>6. \A q \in LogRead : HeldBy(q)' \subseteq Elsewhere'
    BY DEF Elsewhere
  <2>7. Elsewhere \subseteq Elsewhere'
    BY <2>1, <2>5, <2>6, ElsewhereGrows
  <2>8. Written' = Written /\ Opened' = Opened
    BY <2>1 DEF Written, Opened
  <2>9. Written' \subseteq Elsewhere'
    BY <1>1, <2>1, <2>7, <2>8 DEF LinesSafe
  <2>10. Disturbed
    BY <2>1 DEF Disturbed, Resetting
  <2>11. Opened' \subseteq late'
    BY <1>1, <2>1, <2>8, <2>10 DEF LinesSafe
  <2> QED
    BY <2>9, <2>11 DEF LinesSafe
<1>13. CASE ReadTemp(r)
  <2>1. /\ logRead[r].pc = "created"
        /\ UNCHANGED <<content, appendLog, logFile>> /\ monitoring' = monitoring /\ UNCHANGED late
    BY <1>13 DEF ReadTemp
  <2> DEFINE lines == content[logRead[r].temp]
  <2>2. HeldBy(r) \subseteq Range(lines) /\ logRead[r].reset
    BY <1>1, <1>4, <2>1 DEF HeldBy, WellShaped
  <2>3. CASE logRead' = [logRead EXCEPT ![r].pc = "unlocking", ![r].logs = lines] /\ UNCHANGED cut
    <3> DEFINE rec == [logRead[r] EXCEPT !.pc = "unlocking", !.logs = lines]
    <3>1. logRead' = [logRead EXCEPT ![r] = rec]
      BY <1>1, <2>3
    <3>2. rec.pc = "unlocking" /\ rec.logs = lines /\ rec.reset = logRead[r].reset
      BY <1>1 DEF ReadRecord
    <3> HIDE DEF rec
    <3>3. logRead'[r] = rec
      BY <1>6, <3>1
    <3>4. Range(lines) \subseteq HeldBy(r)'
      BY <2>1, <2>2, <3>2, <3>3 DEF HeldBy
    <3>5. HeldBy(r) \subseteq Elsewhere'
      BY <1>5, <2>2, <3>4
    <3> QED
      BY <1>1, <2>1, <2>3, <3>1, <3>2, <3>5, ReaderMoves
  <2>4. CASE ReadGoto(r, "unlocking") /\ cut' = cut \cup Range(lines)
    <3>1. PICK rec : logRead' = [logRead EXCEPT ![r] = rec] /\ rec.pc = "unlocking"
      BY <1>7, <2>4
    <3>2. HeldBy(r) \subseteq Elsewhere'
      BY <1>5, <2>2, <2>4
    <3> QED
      BY <1>1, <2>1, <2>4, <3>1, <3>2, ReaderMoves
  <2> QED
    BY <1>13, <2>3, <2>4 DEF ReadTemp
<1>14. CASE ReleaseLock(r)
  <2>1. /\ logRead[r].pc = "unlocking" /\ ReadGoto(r, "done")
        /\ UNCHANGED <<content, appendLog, logFile>> /\ monitoring' = monitoring
        /\ UNCHANGED <<late, cut>>
    BY <1>14 DEF ReleaseLock
  <2>2. PICK rec : /\ logRead' = [logRead EXCEPT ![r] = rec] /\ rec.pc = "done"
                   /\ rec.reset = logRead[r].reset /\ rec.temp = logRead[r].temp
                   /\ rec.logs = logRead[r].logs
    BY <1>7, <2>1
  <2>3. logRead'[r] = rec
    BY <1>6, <2>2
  <2>4. HeldBy(r) \subseteq HeldBy(r)'
    BY <2>1, <2>2, <2>3 DEF HeldBy
  <2>5. HeldBy(r) \subseteq Elsewhere'
    BY <1>5, <2>4
  <2> QED
    BY <1>1, <2>1, <2>2, <2>5, ReaderMoves
<1>15. CASE Killed(r)
  <2>1. /\ ReadGoto(r, "killed")
        /\ UNCHANGED <<content, appendLog, logFile>> /\ monitoring' = monitoring
        /\ UNCHANGED cut /\ late \subseteq late'
    BY <1>15 DEF Killed
  <2>2. PICK rec : /\ logRead' = [logRead EXCEPT ![r] = rec] /\ rec.pc = "killed"
                   /\ rec.reset = logRead[r].reset /\ rec.temp = logRead[r].temp
                   /\ rec.logs = logRead[r].logs
    BY <1>7, <2>1
  <2>3. logRead'[r] = rec
    BY <1>6, <2>2
  <2>4. HeldBy(r) \subseteq HeldBy(r)'
    BY <2>1, <2>2, <2>3 DEF HeldBy
  <2>5. HeldBy(r) \subseteq Elsewhere'
    BY <1>5, <2>4
  <2> QED
    BY <1>1, <2>1, <2>2, <2>5, ReaderMoves
<1> QED
  BY <1>8, <1>9, <1>10, <1>11, <1>12, <1>13, <1>14, <1>15 DEF ReadStep

\* The clean-up cuts every line of the file it removes; a stuttering step does nothing.
LEMMA CleanupLines ==
  ASSUME LogInv, CleanupLog \/ UNCHANGED logVars
  PROVE  LinesSafe'
<1>1. LinesSafe
  BY DEF LogInv
<1>2. CASE UNCHANGED logVars
  <2>1. /\ Opened' = Opened /\ Trimming' = Trimming /\ Written' = Written /\ InLog' = InLog
        /\ Resetting' = Resetting /\ late' = late /\ cut' = cut /\ UNCHANGED <<logFile, appendLog, logRead>>
    BY <1>2 DEF logVars, Opened, Trimming, Written, InLog, Resetting
  <2>2. monitoring' = monitoring
    BY <1>2 DEF logVars
  <2>3. Disturbed' <=> Disturbed
    BY <2>1, <2>2 DEF Disturbed
  <2>4. \A r \in LogRead : HeldBy(r)' = HeldBy(r)
    BY <1>2 DEF logVars, HeldBy
  <2>5. Elsewhere' = Elsewhere
    BY <2>1, <2>4 DEF Elsewhere
  <2> QED
    BY <1>1, <2>1, <2>3, <2>5 DEF LinesSafe
<1>3. CASE CleanupLog
  <2>1. /\ UNCHANGED <<content, appendLog, logRead>> /\ late' = late \cup Opened
        /\ cut' = (IF logFile = 0 THEN cut ELSE cut \cup Range(content[logFile]))
    BY <1>3 DEF CleanupLog
  <2>2. Opened' = Opened /\ Trimming' = Trimming /\ Written' = Written
    BY <2>1 DEF Opened, Trimming, Written
  <2>3. InLog \subseteq cut' /\ cut \subseteq cut' /\ late \subseteq late'
    BY <2>1 DEF InLog
  <2>4. \A r \in LogRead : HeldBy(r)' = HeldBy(r) /\ HeldBy(r)' \subseteq Elsewhere'
    BY <2>1 DEF HeldBy, Elsewhere
  <2>5. Elsewhere \subseteq Elsewhere' /\ cut' \subseteq Elsewhere'
    BY <2>3, <2>4, ElsewhereGrows DEF Elsewhere
  <2>6. Written' \subseteq Elsewhere'
    BY <1>1, <2>2, <2>3, <2>5 DEF LinesSafe
  <2>7. Opened' \subseteq late'
    BY <2>1, <2>2
  <2> QED
    BY <2>6, <2>7 DEF LinesSafe
<1> QED
  BY <1>2, <1>3

\* At first nothing has been written, read or locked.
LEMMA LogInitially == ProcessLogInit => LogInv
<1> USE ProcessLogAssumption
<1> SUFFICES ASSUME ProcessLogInit PROVE LogInv
  OBVIOUS
<1>1. <<>> \in Seq(LogLine) /\ 0 \in 0 .. LockAttempts /\ 0 \in 0 .. MaxLogLines
  OBVIOUS
<1>2. /\ \A l \in LogLine : appendLog[l] = Appending("idle", 0, <<>>)
      /\ appendLog \in [LogLine -> AppendRecord]
  <2>1. Appending("idle", 0, <<>>) \in AppendRecord
    BY <1>1 DEF Appending, AppendRecord
  <2> QED
    BY <2>1 DEF ProcessLogInit
<1>3. \A l \in LogLine : appendLog[l].pc = "idle"
  BY <1>2 DEF Appending
<1>4. /\ logRead \in [LogRead -> ReadRecord]
      /\ \A r \in LogRead : /\ logRead[r].pc = "idle" /\ logRead[r].temp = 0
                            /\ logRead[r].logs = <<>> /\ logRead[r].tries = 0
  BY <1>1 DEF ProcessLogInit, ReadRecord
<1>5. Cardinality({}) = 0
  BY FS_EmptySet
<1>6. Written = {} /\ Opened = {} /\ Trimming = {} /\ Renamed = {}
  BY <1>3, <1>4 DEF Written, Opened, Trimming, Renamed
<1>7. monitoring \in BOOLEAN /\ monitoring
  BY DEF ProcessLogInit
<1>8. content \in [Inode -> Seq(LogLine)]
  BY <1>1 DEF ProcessLogInit
<1>9. ProcessLogTypeOK
  <2>1. /\ inodes = 0 /\ logFile = 0 /\ appendCount = 0 /\ lockFile = {} /\ late = {} /\ cut = {}
    BY DEF ProcessLogInit
  <2> QED
    BY <1>1, <1>2, <1>4, <1>5, <1>7, <1>8, <2>1 DEF ProcessLogTypeOK
<1>10. LogLocking
  BY <1>4 DEF ProcessLogInit, LogLocking, Holding
<1>11. ReadShape
  BY <1>4 DEF ReadShape, WellShaped
<1>12. InodesCounted
  BY <1>4, <1>5, <1>6, <1>7 DEF ProcessLogInit, InodesCounted
<1>13. AppendsCounted
  BY <1>3, <1>5, <1>6 DEF ProcessLogInit, AppendsCounted
<1>14. LinesSafe
  BY <1>4, <1>6 DEF LinesSafe
<1> QED
  BY <1>9, <1>10, <1>11, <1>12, <1>13, <1>14 DEF LogInv

\* Every step keeps the invariant.
LEMMA AlwaysLog == ProcessLogSpec => []LogInv
<1>1. ASSUME LogInv, [ProcessLogNext]_logVars PROVE LogInv'
  <2>1. LogShape /\ LogLocking
    BY <1>1 DEF LogInv, LogShape
  <2>2. LogShape' /\ LogLocking'
    BY <1>1, <2>1, ShapeStep, LockStep
  <2>3. LinesSafe'
    BY <1>1, AppendLines, ReadLines, CleanupLines DEF ProcessLogNext
  <2> QED
    BY <2>2, <2>3 DEF LogInv, LogShape
<1> QED
  BY <1>1, LogInitially, PTL DEF ProcessLogSpec

\* Files, appends and readers stay what they are, for any number of lines and readers:
\* in particular the counted inodes are never exceeded.
THEOREM ProcessLogTypeCorrect == ProcessLogSpec => []ProcessLogTypeOK
<1>1. LogInv => ProcessLogTypeOK
  BY DEF LogInv
<1> QED
  BY <1>1, AlwaysLog, PTL

\* "logs get" leaves the lock file behind only when it was killed.
THEOREM LockReturned == ProcessLogSpec => []LockGivenBack
<1>1. LogInv => LockGivenBack
  BY DEF LogInv, LogLocking, LockGivenBack, Holding, Reading
<1> QED
  BY <1>1, AlwaysLog, PTL

\* Whatever appends, trims, resets and kills do to one another, a line that is not
\* cut by a trim and did not overlap one of them is in the log, in a file taken
\* away or among the lines returned.
THEOREM NoLineLost == ProcessLogSpec => []LogLinesAccounted
<1>1. LogInv => LogLinesAccounted
  <2> SUFFICES ASSUME LogInv, NEW x \in Written,
                      x \notin InLog, x \notin late, x \notin cut
               PROVE  \/ \E r \in LogRead :
                           x \in IF logRead[r].pc \in {"renamed", "created", "killed"} /\ logRead[r].temp # 0
                                 THEN Range(content[logRead[r].temp]) ELSE {}
                      \/ \E r \in LogRead :
                           x \in IF logRead[r].reset THEN Range(logRead[r].logs) ELSE {}
    BY DEF LogLinesAccounted, InLog
  <2>1. x \in Elsewhere
    BY DEF LogInv, LinesSafe
  <2>2. PICK r \in LogRead : x \in HeldBy(r)
    BY <2>1 DEF Elsewhere
  <2> QED
    BY <2>2 DEF HeldBy
<1> QED
  BY <1>1, AlwaysLog, PTL

-----------------------------------------------------------------------------
(* The user's conversation.                                                *)

Listed(s) == s \in Seq(Range(s))

\* The records of the turns; what is in the lists does not matter here.
TurnsShaped ==
    /\ turn \in [Turn -> {turn[t] : t \in Turn}]
    /\ \A t \in Turn : turn[t] \in [pc : {"idle", "asking", "answered", "lost"}, asked : {turn[t].asked},
                                    past : {turn[t].past}]
    /\ Listed(conversationMessages) /\ \A t \in Turn : Listed(turn[t].past)

(***************************************************************************)
(* A turn that is being answered will put the list it was given back, so   *)
(* that list must account for every message as well as the present one     *)
(* does: what has entered the present one since is exposed.                *)
(***************************************************************************)
ConversationInv ==
    /\ TurnsShaped
    /\ LostOnlyByOverlap
    /\ \A t \in Asking : said \subseteq Range(turn[t].past) \cup exposed

\* No two messages share an id, nor will one that is being asked: whatever list is
\* written back is made of messages that were said.
IdsUnique ==
    /\ ids \in Nat
    /\ \A m \in said : m.id \in 1 .. ids
    /\ \A m, o \in said : m.id = o.id => m = o
    /\ Range(conversationMessages) \subseteq said
    /\ \A t \in Turn : Range(turn[t].past) \subseteq said
    /\ \A t \in Asking : turn[t].asked \in 1 .. ids /\ \A m \in said : m.id # turn[t].asked
    /\ \A t, u \in Asking : turn[t].asked = turn[u].asked => t = u

\* Parts of a finite set.
LEMMA PartSize ==
  ASSUME NEW S, IsFiniteSet(S), NEW T, T \subseteq S
  PROVE  IsFiniteSet(T) /\ Cardinality(T) \in Nat /\ Cardinality(S) \in Nat /\ Cardinality(T) <= Cardinality(S)
<1>1. T \in SUBSET S
  OBVIOUS
<1>2. IsFiniteSet(T) /\ Cardinality(T) <= Cardinality(S)
  BY <1>1, FS_Subset
<1> QED
  BY <1>2, FS_CardinalityType

\* A finite set whose elements have different keys is in order: for each k there is
\* one element with k smaller ones.
LEMMA Ranked ==
  ASSUME NEW S, IsFiniteSet(S), NEW key, NEW below,
         \A x \in S : key[x] \in Nat,
         \A x, y \in S : key[x] = key[y] => x = y,
         \A x \in S : below[x] = {y \in S : key[y] < key[x]}
  PROVE  /\ \A x \in S : Cardinality(below[x]) \in 0 .. Cardinality(S) - 1
         /\ \A k \in 0 .. Cardinality(S) - 1 : \E x \in S : Cardinality(below[x]) = k
         /\ \A x, z \in S : Cardinality(below[x]) = Cardinality(below[z]) => x = z
<1> DEFINE n == Cardinality(S)
<1> DEFINE rank == [x \in S |-> Cardinality(below[x])]
<1>1. n \in Nat
  BY FS_CardinalityType
<1>2. ASSUME NEW x \in S PROVE IsFiniteSet(below[x]) /\ Cardinality(below[x]) \in 0 .. n - 1
  <2>1. IsFiniteSet(S \ {x}) /\ Cardinality(S \ {x}) = n - 1
    BY FS_RemoveElement
  <2>2. below[x] \in SUBSET (S \ {x})
    OBVIOUS
  <2> HIDE DEF n
  <2>3. IsFiniteSet(below[x]) /\ Cardinality(below[x]) <= Cardinality(S \ {x})
    BY <2>1, <2>2, FS_Subset
  <2>4. Cardinality(below[x]) \in Nat
    BY <2>3, FS_CardinalityType
  <2> QED
    BY <1>1, <2>1, <2>3, <2>4
<1>3. ASSUME NEW x \in S, NEW z \in S, key[x] < key[z] PROVE Cardinality(below[x]) # Cardinality(below[z])
  <2>1. below[x] \in SUBSET below[z] /\ x \in below[z] /\ x \notin below[x]
    BY <1>3
  <2> QED
    BY <1>2, <2>1, FS_Subset
<1>4. \A x, z \in S : Cardinality(below[x]) = Cardinality(below[z]) => x = z
  <2> SUFFICES ASSUME NEW x \in S, NEW z \in S, x # z PROVE Cardinality(below[x]) # Cardinality(below[z])
    OBVIOUS
  <2>1. key[x] < key[z] \/ key[z] < key[x]
    OBVIOUS
  <2> QED
    BY <1>3, <2>1
<1> HIDE DEF n
<1>5. rank \in Injection(S, 0 .. n - 1)
  BY <1>2, <1>4 DEF Injection, IsInjective
<1>6. IsFiniteSet(0 .. n - 1) /\ Cardinality(0 .. n - 1) = n
  BY <1>1, FS_Interval
<1>7. rank \in Surjection(S, 0 .. n - 1)
  <2> HIDE DEF rank
  <2> QED
    BY <1>5, <1>6, FS_Injection DEF n
<1>8. \A k \in 0 .. n - 1 : \E x \in S : rank[x] = k
  <2> HIDE DEF rank
  <2> QED
    BY <1>7 DEF Surjection
<1>9. \A k \in 0 .. n - 1 : \E x \in S : Cardinality(below[x]) = k
  BY <1>8
<1> QED
  BY <1>2, <1>4, <1>9 DEF n

\* The messages of two lists, one after the other.
LEMMA ListsJoined ==
  ASSUME NEW s, NEW t, Listed(s), Listed(t)
  PROVE  Listed(s \o t) /\ Range(s \o t) = Range(s) \cup Range(t)
<1> DEFINE S == Range(s) \cup Range(t)
<1>1. s \in Seq(S) /\ t \in Seq(S)
  <2>1. Seq(Range(s)) \subseteq Seq(S) /\ Seq(Range(t)) \subseteq Seq(S)
    OBVIOUS
  <2> QED
    BY <2>1 DEF Listed
<1> HIDE DEF S
<1>2. /\ s \o t \in Seq(S) /\ Len(s \o t) = Len(s) + Len(t) /\ Len(s) \in Nat /\ Len(t) \in Nat
      /\ \A i \in 1 .. Len(s) + Len(t) : (s \o t)[i] = IF i <= Len(s) THEN s[i] ELSE t[i - Len(s)]
  BY <1>1, ConcatProperties, LenProperties
<1>3. DOMAIN (s \o t) = 1 .. Len(s) + Len(t) /\ DOMAIN s = 1 .. Len(s) /\ DOMAIN t = 1 .. Len(t)
  BY <1>1, <1>2, LenProperties
<1>4. Range(s \o t) \subseteq Range(s) \cup Range(t)
  <2> SUFFICES ASSUME NEW i \in 1 .. Len(s) + Len(t) PROVE (s \o t)[i] \in Range(s) \cup Range(t)
    BY <1>3 DEF Range
  <2>1. CASE i <= Len(s)
    BY <1>2, <1>3, <2>1 DEF Range
  <2>2. CASE ~(i <= Len(s))
    <3>1. i - Len(s) \in 1 .. Len(t)
      BY <1>2, <2>2
    <3> QED
      BY <1>2, <1>3, <2>2, <3>1 DEF Range
  <2> QED
    BY <2>1, <2>2
<1>5. Range(s) \subseteq Range(s \o t)
  <2> SUFFICES ASSUME NEW i \in 1 .. Len(s) PROVE s[i] \in Range(s \o t)
    BY <1>3 DEF Range
  <2>1. i \in 1 .. Len(s) + Len(t) /\ (s \o t)[i] = s[i]
    BY <1>2
  <2> QED
    BY <1>3, <2>1 DEF Range
<1>6. Range(t) \subseteq Range(s \o t)
  <2> SUFFICES ASSUME NEW i \in 1 .. Len(t) PROVE t[i] \in Range(s \o t)
    BY <1>3 DEF Range
  <2>1. Len(s) + i \in 1 .. Len(s) + Len(t) /\ ~(Len(s) + i <= Len(s)) /\ Len(s) + i - Len(s) = i
    BY <1>2
  <2>2. (s \o t)[Len(s) + i] = t[i]
    BY <1>2, <2>1
  <2> QED
    BY <1>3, <2>1, <2>2 DEF Range
<1>7. Range(s \o t) = S
  BY <1>4, <1>5, <1>6 DEF S
<1> QED
  BY <1>2, <1>7 DEF Listed, S

\* The question and the answer.
LEMMA ExchangeListed ==
  ASSUME NEW t, NEW a, NEW b, NEW c
  PROVE  Listed(Exchange(t, a, b, c))
<1> DEFINE q == [id |-> a, role |-> "user", turn |-> t, memoText |-> t \in Quoting]
<1> DEFINE w == [id |-> b, role |-> "assistant", turn |-> t, memoText |-> c]
<1>1. Exchange(t, a, b, c) = <<q, w>>
  BY DEF Exchange
<1> HIDE DEF q, w
<1>2. Range(<<q, w>>) = {q, w}
  BY DEF Range
<1> QED
  BY <1>1, <1>2 DEF Listed

\* One message more.
LEMMA MessageAdded ==
  ASSUME NEW s, NEW m, Listed(s)
  PROVE  Listed(Append(s, m)) /\ Range(Append(s, m)) = Range(s) \cup {m}
<1> DEFINE S == Range(s) \cup {m}
<1>1. s \in Seq(S) /\ m \in S
  <2>1. Seq(Range(s)) \subseteq Seq(S)
    OBVIOUS
  <2> QED
    BY <2>1 DEF Listed
<1> HIDE DEF S
<1>2. Append(s, m) \in Seq(S) /\ Range(Append(s, m)) = Range(s) \cup {m}
  BY <1>1, RangeAppend
<1> QED
  BY <1>2 DEF Listed, S

\* The tidied list is a list of the same messages, what reads like memos perhaps excepted, in the order
\* of their ids: sorting and cutting lose nothing as long as no two messages share an id.
LEMMA TidiedKeeps ==
  ASSUME Listed(conversationMessages),
         \A m \in Range(conversationMessages) : m.id \in Nat,
         \A m, o \in Range(conversationMessages) : m.id = o.id => m = o
  PROVE  /\ Listed(Tidied) /\ Range(Tidied) \subseteq Range(conversationMessages)
         /\ \A m \in Range(conversationMessages) : ~m.memoText => m \in Range(Tidied)
         /\ InOrder(Tidied)
<1> DEFINE unique == Range(conversationMessages)
<1> DEFINE kept == IF Cardinality(unique) > MIN_MESSAGES_FOR_CLEANUP
                   THEN {m \in unique : ~m.memoText} ELSE unique
<1> DEFINE n == Cardinality(kept)
<1>1. IsFiniteSet(unique)
  <2>1. conversationMessages \in Seq(unique)
    BY DEF Listed
  <2>2. IsFiniteSet(1 .. Len(conversationMessages)) /\ DOMAIN conversationMessages = 1 .. Len(conversationMessages)
    BY <2>1, FS_Interval, LenProperties
  <2>3. unique = {conversationMessages[i] : i \in 1 .. Len(conversationMessages)}
    BY <2>2 DEF Range
  <2> HIDE DEF unique
  <2>4. conversationMessages \in Surjection(1 .. Len(conversationMessages), unique)
    BY <2>1, <2>2, <2>3 DEF Surjection
  <2> QED
    BY <2>2, <2>4, FS_Surjection
<1>2. n \in Nat
  <2>1. kept \in SUBSET unique
    OBVIOUS
  <2> HIDE DEF kept, unique
  <2> QED
    BY <1>1, <2>1, FS_Subset, FS_CardinalityType
<1> DEFINE next(k) == CHOOSE m \in kept : Cardinality({x \in kept : x.id < m.id}) = k - 1
<1>3. Tidied = [k \in 1 .. n |-> next(k)]
  BY DEF Tidied
<1> HIDE DEF kept, n, next
<1>4. DOMAIN Tidied = 1 .. n /\ Tidied = [k \in 1 .. n |-> Tidied[k]]
  BY <1>3
<1>5. \A k \in 1 .. n : Tidied[k] \in Range(Tidied)
  BY <1>4 DEF Range
<1>6. Listed(Tidied)
  <2> HIDE DEF Tidied
  <2> QED
    BY <1>2, <1>4, <1>5 DEF Listed
<1> DEFINE key == [m \in kept |-> m.id]
<1>7. kept \in SUBSET unique /\ IsFiniteSet(kept)
  <2>1. kept \in SUBSET unique
    BY DEF kept
  <2> HIDE DEF unique
  <2> QED
    BY <1>1, <2>1, FS_Subset
<1>8. (\A m \in kept : key[m] \in Nat /\ key[m] = m.id) /\ \A m, o \in kept : key[m] = key[o] => m = o
  <2>1. \A m \in kept : m \in Range(conversationMessages)
    BY <1>7
  <2> QED
    BY <2>1
<1> HIDE DEF key
<1> DEFINE below == [m \in kept |-> {x \in kept : x.id < m.id}]
<1> DEFINE rank(m) == Cardinality({x \in kept : x.id < m.id})
<1>9. \A m \in kept : below[m] = {x \in kept : key[x] < key[m]} /\ Cardinality(below[m]) = rank(m)
  BY <1>8
<1> HIDE DEF below
<1>10. /\ \A m \in kept : Cardinality(below[m]) \in 0 .. n - 1
       /\ \A k \in 0 .. n - 1 : \E m \in kept : Cardinality(below[m]) = k
       /\ \A m, o \in kept : Cardinality(below[m]) = Cardinality(below[o]) => m = o
  <2>1. IsFiniteSet(kept)
    BY <1>7
  <2>2. \A x \in kept : key[x] \in Nat
    BY <1>8
  <2>3. \A x, y \in kept : key[x] = key[y] => x = y
    BY <1>8
  <2>4. \A x \in kept : below[x] = {y \in kept : key[y] < key[x]}
    BY <1>9
  <2> QED
    BY <2>1, <2>2, <2>3, <2>4, Ranked DEF n
<1>11. /\ \A m \in kept : rank(m) \in 0 .. n - 1
       /\ \A k \in 0 .. n - 1 : \E m \in kept : rank(m) = k
       /\ \A m, o \in kept : rank(m) = rank(o) => m = o
  <2> HIDE DEF rank
  <2> QED
    BY <1>9, <1>10
<1>12. \A k : next(k) = CHOOSE m \in kept : rank(m) = k - 1
  BY DEF next
<1> HIDE DEF rank
<1>13. \A k \in 1 .. n : next(k) \in kept /\ rank(next(k)) = k - 1
  <2> SUFFICES ASSUME NEW k \in 1 .. n PROVE next(k) \in kept /\ rank(next(k)) = k - 1
    OBVIOUS
  <2>1. k - 1 \in 0 .. n - 1
    BY <1>2
  <2>2. \E m \in kept : rank(m) = k - 1
    BY <1>11, <2>1
  <2> QED
    BY <1>12, <2>2
<1>14. Range(Tidied) = kept
  <2>1. Range(Tidied) \subseteq kept
    BY <1>3, <1>13 DEF Range
  <2>2. ASSUME NEW m \in kept PROVE m \in Range(Tidied)
    <3> DEFINE k == rank(m) + 1
    <3>1. k \in 1 .. n /\ k - 1 = rank(m)
      BY <1>2, <1>11
    <3> HIDE DEF k
    <3>2. next(k) = m
      BY <1>11, <1>13, <3>1
    <3>3. Tidied[k] = m
      BY <1>3, <3>1, <3>2
    <3> QED
      BY <1>4, <3>1, <3>3 DEF Range
  <2> QED
    BY <2>1, <2>2
<1>15. Range(Tidied) \subseteq Range(conversationMessages)
  BY <1>7, <1>14
<1>16. \A m \in Range(conversationMessages) : ~m.memoText => m \in Range(Tidied)
  BY <1>14 DEF kept
<1>17. ASSUME NEW i \in 1 .. n, NEW j \in 1 .. n, i < j PROVE Tidied[i].id < Tidied[j].id
  <2> DEFINE x == next(i)
  <2> DEFINE y == next(j)
  <2>1. x \in kept /\ y \in kept /\ rank(x) = i - 1 /\ rank(y) = j - 1 /\ Tidied[i] = x /\ Tidied[j] = y
    BY <1>3, <1>13
  <2> HIDE DEF x, y
  <2>2. x.id \in Nat /\ y.id \in Nat
    BY <1>8, <2>1
  <2>3. ASSUME y.id <= x.id PROVE FALSE
    <3>1. \A m \in kept : m.id \in Nat
      BY <1>8
    <3>2. below[y] \subseteq below[x] /\ below[x] \subseteq kept
      BY <2>1, <2>2, <2>3, <3>1 DEF below
    <3>3. IsFiniteSet(below[x])
      BY <1>7, <3>2, PartSize
    <3>4. Cardinality(below[y]) <= Cardinality(below[x])
      BY <3>2, <3>3, PartSize
    <3>5. j - 1 <= i - 1
      BY <1>9, <2>1, <3>4
    <3> QED
      BY <1>17, <3>5
  <2> QED
    BY <2>1, <2>2, <2>3
<1>18. InOrder(Tidied)
  <2> HIDE DEF Tidied
  <2> QED
    BY <1>4, <1>17 DEF InOrder
<1> QED
  BY <1>6, <1>15, <1>16, <1>18

\* Nothing has been said at first.
LEMMA ConversationInitially == ConversationInit => ConversationInv
<1> SUFFICES ASSUME ConversationInit PROVE ConversationInv
  OBVIOUS
<1>1. Listed(<<>>)
  BY DEF Listed
<1>2. \A t \in Turn : turn[t] = [pc |-> "idle", asked |-> 0, past |-> <<>>]
  BY DEF ConversationInit
<1>3. turn \in [Turn -> {turn[t] : t \in Turn}]
  BY DEF ConversationInit
<1>4. TurnsShaped
  BY <1>1, <1>2, <1>3 DEF ConversationInit, TurnsShaped
<1>5. said = {}
  BY DEF ConversationInit
<1> QED
  BY <1>4, <1>5 DEF ConversationInv, LostOnlyByOverlap

\* The turns after one of them has moved.
LEMMA TurnMoves ==
  ASSUME TurnsShaped, NEW t \in Turn, NEW pc \in {"idle", "asking", "answered", "lost"},
         NEW asked, NEW past, Listed(past), Listed(conversationMessages'),
         turn' = [turn EXCEPT ![t] = [pc |-> pc, asked |-> asked, past |-> past]]
  PROVE  /\ TurnsShaped' /\ turn'[t].pc = pc /\ turn'[t].past = past
         /\ \A u \in Turn : u # t => turn'[u] = turn[u]
<1>1. turn'[t] = [pc |-> pc, asked |-> asked, past |-> past] /\ \A u \in Turn : u # t => turn'[u] = turn[u]
  BY DEF TurnsShaped
<1>2. turn' \in [Turn -> {turn'[u] : u \in Turn}]
  BY DEF TurnsShaped
<1>3. \A u \in Turn : turn'[u] \in [pc : {"idle", "asking", "answered", "lost"}, asked : {turn'[u].asked},
                                    past : {turn'[u].past}]
  BY <1>1 DEF TurnsShaped
<1>4. \A u \in Turn : Listed(turn'[u].past)
  BY <1>1 DEF TurnsShaped
<1> QED
  BY <1>1, <1>2, <1>3, <1>4 DEF TurnsShaped

\* The record of a turn that has come further.
LEMMA TurnRewritten ==
  ASSUME TurnsShaped, NEW t \in Turn
  PROVE  \A pc : [turn[t] EXCEPT !.pc = pc] = [pc |-> pc, asked |-> turn[t].asked, past |-> turn[t].past]
<1>1. turn[t] \in [pc : {"idle", "asking", "answered", "lost"}, asked : {turn[t].asked}, past : {turn[t].past}]
  BY DEF TurnsShaped
<1> QED
  BY <1>1

\* Every step keeps each list, the present one and those being answered, complete.
LEMMA ConversationStep ==
  ASSUME ConversationInv, IdsUnique, [ConversationNext]_conversationVars
  PROVE  ConversationInv'
<1>0. /\ TurnsShaped /\ said \subseteq Range(conversationMessages) \cup exposed
      /\ \A t \in Asking : said \subseteq Range(turn[t].past) \cup exposed
      /\ Listed(conversationMessages) /\ \A t \in Turn : Listed(turn[t].past)
  BY DEF ConversationInv, LostOnlyByOverlap, TurnsShaped
<1>1. ASSUME NEW t \in Turn, HandleUserInput(t) PROVE ConversationInv'
  <2>1. PICK asked, past : /\ past = conversationMessages
                           /\ turn' = [turn EXCEPT ![t] = [pc |-> "asking", asked |-> asked, past |-> past]]
                           /\ UNCHANGED <<conversationMessages, said, exposed>>
    BY <1>1 DEF HandleUserInput
  <2>2. /\ TurnsShaped' /\ turn'[t].past = conversationMessages
        /\ \A u \in Turn : u # t => turn'[u] = turn[u]
    <3>1. Listed(conversationMessages') /\ Listed(past)
      BY <1>0, <2>1
    <3>2. turn' = [turn EXCEPT ![t] = [pc |-> "asking", asked |-> asked, past |-> past]]
      BY <2>1
    <3>3. /\ TurnsShaped' /\ turn'[t].past = past
          /\ \A u \in Turn : u # t => turn'[u] = turn[u]
      <4>1. turn'[t] = [pc |-> "asking", asked |-> asked, past |-> past] /\ \A u \in Turn : u # t => turn'[u] = turn[u]
        BY <1>0, <3>2 DEF TurnsShaped
      <4>2. turn' \in [Turn -> {turn'[u] : u \in Turn}]
        BY <1>0, <3>2 DEF TurnsShaped
      <4>3. \A u \in Turn : turn'[u] \in [pc : {"idle", "asking", "answered", "lost"}, asked : {turn'[u].asked},
                                          past : {turn'[u].past}]
        BY <1>0, <4>1 DEF TurnsShaped
      <4>4. \A u \in Turn : Listed(turn'[u].past)
        BY <1>0, <3>1, <4>1 DEF TurnsShaped
      <4> QED
        BY <3>1, <4>1, <4>2, <4>3, <4>4 DEF TurnsShaped
    <3> QED
      BY <2>1, <3>3
  <2>3. \A u \in Asking' : said' \subseteq Range(turn'[u].past) \cup exposed'
    <3> SUFFICES ASSUME NEW u \in Asking' PROVE said' \subseteq Range(turn'[u].past) \cup exposed'
      OBVIOUS
    <3>1. CASE u = t
      BY <1>0, <2>1, <2>2, <3>1
    <3>2. CASE u # t
      <4>1. u \in Asking /\ turn'[u] = turn[u]
        BY <2>2, <3>2 DEF Asking
      <4> QED
        BY <1>0, <2>1, <4>1
    <3> QED
      BY <3>1, <3>2
  <2> QED
    BY <1>0, <2>1, <2>2, <2>3 DEF ConversationInv, LostOnlyByOverlap
<1>2. ASSUME NEW t \in Turn, turn[t].pc = "asking", NEW asked, NEW a, NEW b, NEW c,
             conversationMessages' = turn[t].past \o Exchange(t, a, b, c),
             Enter(Range(Exchange(t, a, b, c)), Asking \ {t}),
             turn' = [turn EXCEPT ![t] = [pc |-> "answered", asked |-> asked, past |-> turn[t].past]]
      PROVE  ConversationInv'
  <2> DEFINE E == Range(Exchange(t, a, b, c))
  <2>1. /\ Listed(conversationMessages') /\ Range(conversationMessages') = Range(turn[t].past) \cup E
    BY <1>0, <1>2, ExchangeListed, ListsJoined
  <2>2. /\ said' = said \cup E /\ exposed' = (IF Asking \ {t} = {} THEN exposed ELSE exposed \cup E)
    BY <1>2 DEF Enter
  <2> HIDE DEF E
  <2>3. /\ TurnsShaped' /\ turn'[t].pc = "answered" /\ \A u \in Turn : u # t => turn'[u] = turn[u]
    BY <1>0, <1>2, <2>1, TurnMoves
  <2>4. t \in Asking
    BY <1>2 DEF Asking
  <2>5. said' \subseteq Range(conversationMessages') \cup exposed'
    BY <1>0, <2>1, <2>2, <2>4
  <2>6. \A u \in Asking' : u \in Asking \ {t} /\ turn'[u] = turn[u]
    BY <2>3 DEF Asking
  <2>7. \A u \in Asking' : said' \subseteq Range(turn'[u].past) \cup exposed'
    BY <1>0, <2>2, <2>6
  <2> QED
    BY <2>3, <2>5, <2>7 DEF ConversationInv, LostOnlyByOverlap
<1>3. ASSUME NEW t \in Turn, Answered(t) PROVE ConversationInv'
  <2>1. PICK c \in BOOLEAN :
        /\ turn[t].pc = "asking"
        /\ conversationMessages' = turn[t].past \o Exchange(t, turn[t].asked, ids + 1, c)
        /\ Enter(Range(Exchange(t, turn[t].asked, ids + 1, c)), Asking \ {t})
        /\ turn' = [turn EXCEPT ![t].pc = "answered"]
    BY <1>3 DEF Answered
  <2>2. turn' = [turn EXCEPT ![t] = [pc |-> "answered", asked |-> turn[t].asked, past |-> turn[t].past]]
    <3>1. turn' = [turn EXCEPT ![t] = [turn[t] EXCEPT !.pc = "answered"]]
      BY <1>0, <2>1 DEF TurnsShaped
    <3> QED
      BY <1>0, <3>1, TurnRewritten
  <2> QED
    BY <1>2, <2>1, <2>2
<1>4. ASSUME NEW t \in Turn, AnswerFailed(t) PROVE ConversationInv'
  <2>1. /\ turn[t].pc = "asking"
        /\ conversationMessages' = turn[t].past \o Exchange(t, ids + 1, ids + 2, FALSE)
        /\ Enter(Range(Exchange(t, ids + 1, ids + 2, FALSE)), Asking \ {t})
        /\ turn' = [turn EXCEPT ![t] = [pc |-> "answered", asked |-> ids + 1, past |-> turn[t].past]]
    BY <1>4 DEF AnswerFailed
  <2> QED
    BY <1>2, <2>1
<1>5. CASE Broadcast
  <2> DEFINE m == Memo(ids + 1)
  <2>1. /\ conversationMessages' = Append(conversationMessages, m) /\ turn' = turn
        /\ said' = said \cup {m} /\ exposed' = (IF Asking = {} THEN exposed ELSE exposed \cup {m})
    BY <1>5 DEF Broadcast, Enter
  <2> HIDE DEF m
  <2>2. Listed(conversationMessages') /\ Range(conversationMessages') = Range(conversationMessages) \cup {m}
    BY <1>0, <2>1, MessageAdded
  <2>3. TurnsShaped' /\ Asking' = Asking
    BY <1>0, <2>1, <2>2 DEF TurnsShaped, Asking
  <2>4. said' \subseteq Range(conversationMessages') \cup exposed'
    BY <1>0, <2>1, <2>2
  <2>5. \A u \in Asking' : said' \subseteq Range(turn'[u].past) \cup exposed'
    BY <1>0, <2>1, <2>3
  <2> QED
    BY <2>3, <2>4, <2>5 DEF ConversationInv, LostOnlyByOverlap
<1>6. CASE MigrateStateIfNeeded
  <2>1. /\ conversationMessages' = Tidied /\ turn' = turn /\ said' = said
        /\ exposed' = exposed \cup {m \in Range(conversationMessages) \ Range(Tidied) : m.memoText}
    BY <1>6 DEF MigrateStateIfNeeded
  <2>2. /\ Listed(conversationMessages')
        /\ \A m \in Range(conversationMessages) : ~m.memoText => m \in Range(Tidied)
    <3>1. /\ \A m \in Range(conversationMessages) : m.id \in Nat
          /\ \A m, o \in Range(conversationMessages) : m.id = o.id => m = o
      BY DEF IdsUnique
    <3> QED
      BY <1>0, <2>1, <3>1, TidiedKeeps
  <2>3. TurnsShaped' /\ Asking' = Asking
    BY <1>0, <2>1, <2>2 DEF TurnsShaped, Asking
  <2>4. said' \subseteq Range(conversationMessages') \cup exposed'
    BY <1>0, <2>1, <2>2
  <2>5. \A u \in Asking' : said' \subseteq Range(turn'[u].past) \cup exposed'
    BY <1>0, <2>1, <2>3
  <2> QED
    BY <2>3, <2>4, <2>5 DEF ConversationInv, LostOnlyByOverlap
<1>7. CASE EvictTurns
  <2>1. /\ turn' = [t \in Turn |-> IF t \in Asking THEN [turn[t] EXCEPT !.pc = "lost"] ELSE turn[t]]
        /\ UNCHANGED <<conversationMessages, said, exposed>>
    BY <1>7 DEF EvictTurns
  <2>2. \A t \in Turn : \/ t \in Asking /\ turn'[t] = [pc |-> "lost", asked |-> turn[t].asked, past |-> turn[t].past]
                        \/ t \notin Asking /\ turn'[t] = turn[t]
    BY <1>0, <2>1, TurnRewritten
  <2>3. \A t \in Turn : turn'[t].pc # "asking" /\ turn'[t].past = turn[t].past
    <3> SUFFICES ASSUME NEW t \in Turn PROVE turn'[t].pc # "asking" /\ turn'[t].past = turn[t].past
      OBVIOUS
    <3>1. CASE t \in Asking
      <4>1. turn'[t] = [pc |-> "lost", asked |-> turn[t].asked, past |-> turn[t].past]
        BY <2>2, <3>1
      <4> QED
        BY <4>1
    <3>2. CASE t \notin Asking
      <4>1. turn[t].pc # "asking"
        BY <3>2 DEF Asking
      <4>2. turn'[t] = turn[t]
        BY <2>2, <3>2
      <4> QED
        BY <4>1, <4>2
    <3> QED
      BY <3>1, <3>2
  <2>4. turn' \in [Turn -> {turn'[t] : t \in Turn}]
    BY <2>1
  <2>5. \A t \in Turn : turn'[t] \in [pc : {"idle", "asking", "answered", "lost"}, asked : {turn'[t].asked},
                                      past : {turn'[t].past}]
    <3> SUFFICES ASSUME NEW t \in Turn
                 PROVE  turn'[t] \in [pc : {"idle", "asking", "answered", "lost"}, asked : {turn'[t].asked},
                                      past : {turn'[t].past}]
      OBVIOUS
    <3>1. CASE t \in Asking
      <4>1. turn'[t] = [pc |-> "lost", asked |-> turn[t].asked, past |-> turn[t].past]
        BY <2>2, <3>1
      <4> QED
        BY <4>1
    <3>2. CASE t \notin Asking
      <4>1. turn'[t] = turn[t]
        BY <2>2, <3>2
      <4> QED
        BY <1>0, <4>1 DEF TurnsShaped
    <3> QED
      BY <3>1, <3>2
  <2>6. TurnsShaped'
    BY <1>0, <2>1, <2>3, <2>4, <2>5 DEF TurnsShaped
  <2>7. Asking' = {}
    BY <2>3 DEF Asking
  <2> QED
    BY <1>0, <2>1, <2>6, <2>7 DEF ConversationInv, LostOnlyByOverlap
<1>8. CASE UNCHANGED conversationVars
  <2>1. UNCHANGED <<conversationMessages, turn, said, exposed>>
    BY <1>8 DEF conversationVars
  <2>2. TurnsShaped' /\ Asking' = Asking
    BY <1>0, <2>1 DEF TurnsShaped, Asking
  <2> QED
    BY <1>0, <2>1, <2>2 DEF ConversationInv, LostOnlyByOverlap
<1> QED
  BY <1>1, <1>3, <1>4, <1>5, <1>6, <1>7, <1>8 DEF ConversationNext

\* Messages that enter the list, with ids that no message and no asking turn but t has,
\* keep the ids unique.
LEMMA IdsStayUnique ==
  ASSUME IdsUnique, NEW M, NEW T, Enter(M, T), ids' \in Nat, ids <= ids',
         \A m \in M : m.id \in 1 .. ids',
         \A m, o \in M : m.id = o.id => m = o,
         \A m \in M, o \in said : m.id # o.id,
         Range(conversationMessages') \subseteq said \cup M,
         \A u \in Turn : Range(turn'[u].past) \subseteq said,
         \A u \in Asking' : u \in Asking /\ turn'[u].asked = turn[u].asked /\ \A m \in M : m.id # turn[u].asked
  PROVE  IdsUnique'
<1>1. said' = said \cup M
  BY DEF Enter
<1>2. \A m \in said' : m.id \in 1 .. ids'
  BY <1>1 DEF IdsUnique
<1>3. \A m, o \in said' : m.id = o.id => m = o
  BY <1>1 DEF IdsUnique
<1>4. \A u \in Asking' : turn'[u].asked \in 1 .. ids' /\ \A m \in said' : m.id # turn'[u].asked
  BY <1>1 DEF IdsUnique
<1>5. \A t, u \in Asking' : turn'[t].asked = turn'[u].asked => t = u
  BY DEF IdsUnique
<1> QED
  BY <1>1, <1>2, <1>3, <1>4, <1>5 DEF IdsUnique

\* The messages of an exchange.
LEMMA ExchangeIds ==
  ASSUME NEW t, NEW a, NEW b, NEW c
  PROVE  /\ \A m \in Range(Exchange(t, a, b, c)) : m.id \in {a, b}
         /\ a # b => \A m, o \in Range(Exchange(t, a, b, c)) : m.id = o.id => m = o
<1> DEFINE q == [id |-> a, role |-> "user", turn |-> t, memoText |-> t \in Quoting]
<1> DEFINE w == [id |-> b, role |-> "assistant", turn |-> t, memoText |-> c]
<1>1. Exchange(t, a, b, c) = <<q, w>> /\ q.id = a /\ w.id = b
  BY DEF Exchange
<1> HIDE DEF q, w
<1>2. Range(<<q, w>>) = {q, w}
  BY DEF Range
<1> QED
  BY <1>1, <1>2

\* Every step gives new messages new ids and writes back only what was said.
LEMMA IdsStep ==
  ASSUME ConversationInv, IdsUnique, [ConversationNext]_conversationVars
  PROVE  IdsUnique'
<1>0. /\ TurnsShaped /\ Listed(conversationMessages) /\ \A t \in Turn : Listed(turn[t].past)
  BY DEF ConversationInv, TurnsShaped
<1>1. ASSUME NEW t \in Turn, HandleUserInput(t) PROVE IdsUnique'
  <2>1. PICK asked, past : /\ past = conversationMessages /\ asked = ids + 1 /\ ids' = ids + 2
                           /\ turn' = [turn EXCEPT ![t] = [pc |-> "asking", asked |-> asked, past |-> past]]
                           /\ UNCHANGED <<conversationMessages, said>>
    BY <1>1 DEF HandleUserInput
  <2>2. turn'[t] = [pc |-> "asking", asked |-> asked, past |-> past] /\ \A u \in Turn : u # t => turn'[u] = turn[u]
    BY <1>0, <2>1 DEF TurnsShaped
  <2>3. turn'[t].asked = asked /\ turn'[t].past = past
    BY <2>2
  <2>4. \A u \in Asking' : u = t \/ (u \in Asking /\ turn'[u] = turn[u])
    <3> SUFFICES ASSUME NEW u \in Asking' PROVE u = t \/ (u \in Asking /\ turn'[u] = turn[u])
      OBVIOUS
    <3>1. u \in Turn /\ turn'[u].pc = "asking"
      BY DEF Asking
    <3>2. u # t => turn'[u] = turn[u]
      BY <2>2, <3>1
    <3>3. CASE u # t
      <4>1. turn[u].pc = "asking"
        BY <3>1, <3>2, <3>3
      <4>2. u \in Asking
        BY <3>1, <4>1 DEF Asking
      <4> QED
        BY <3>2, <3>3, <4>2
    <3> QED
      BY <3>3
  <2>5. \A u \in Turn : Range(turn'[u].past) \subseteq said
    BY <2>1, <2>2, <2>3 DEF IdsUnique
  <2>6. ids \in Nat /\ ids' \in Nat /\ asked \in 1 .. ids' /\ \A k \in 1 .. ids : k \in 1 .. ids' /\ k # asked
    BY <2>1 DEF IdsUnique
  <2>7. \A u \in Asking' : turn'[u].asked \in 1 .. ids' /\ \A m \in said' : m.id # turn'[u].asked
    BY <2>1, <2>3, <2>4, <2>6 DEF IdsUnique
  <2>8. \A v, u \in Asking' : turn'[v].asked = turn'[u].asked => v = u
    BY <2>3, <2>4, <2>6 DEF IdsUnique
  <2> QED
    BY <2>1, <2>5, <2>6, <2>7, <2>8 DEF IdsUnique
<1>2. ASSUME NEW t \in Turn, Answered(t) \/ AnswerFailed(t) PROVE IdsUnique'
  <2>a. turn[t].pc = "asking" /\ t \in Asking
    BY <1>2 DEF Answered, AnswerFailed, Asking
  <2>b. /\ turn[t].asked \in 1 .. ids /\ \A m \in said : m.id # turn[t].asked /\ m.id \in 1 .. ids
        /\ \A u \in Asking : u # t => turn[u].asked # turn[t].asked /\ turn[u].asked \in 1 .. ids
        /\ ids \in Nat
    BY <2>a DEF IdsUnique
  <2>0. PICK a, b, c :
          /\ conversationMessages' = turn[t].past \o Exchange(t, a, b, c)
          /\ Enter(Range(Exchange(t, a, b, c)), Asking \ {t})
          /\ turn' = [turn EXCEPT ![t] = [pc |-> "answered", asked |-> a, past |-> turn[t].past]]
          /\ a \in 1 .. ids' /\ b \in 1 .. ids' /\ a # b /\ ids' \in Nat /\ ids <= ids'
          /\ \A m \in said : m.id # a /\ m.id # b
          /\ \A u \in Asking : u # t => turn[u].asked # a /\ turn[u].asked # b
    <3>1. CASE Answered(t)
      <4>1. PICK c \in BOOLEAN :
            /\ ids' = ids + 1
            /\ conversationMessages' = turn[t].past \o Exchange(t, turn[t].asked, ids + 1, c)
            /\ Enter(Range(Exchange(t, turn[t].asked, ids + 1, c)), Asking \ {t})
            /\ turn' = [turn EXCEPT ![t].pc = "answered"]
        BY <3>1 DEF Answered
      <4>2. turn' = [turn EXCEPT ![t] = [pc |-> "answered", asked |-> turn[t].asked, past |-> turn[t].past]]
        <5>1. turn' = [turn EXCEPT ![t] = [turn[t] EXCEPT !.pc = "answered"]]
          BY <1>0, <4>1 DEF TurnsShaped
        <5> QED
          BY <1>0, <5>1, TurnRewritten
      <4>3. /\ turn[t].asked \in 1 .. ids' /\ ids + 1 \in 1 .. ids' /\ turn[t].asked # ids + 1 /\ ids' \in Nat /\ ids <= ids'
            /\ \A m \in said : m.id # turn[t].asked /\ m.id # ids + 1
            /\ \A u \in Asking : u # t => turn[u].asked # turn[t].asked /\ turn[u].asked # ids + 1
        BY <2>b, <4>1
      <4> QED
        BY <4>1, <4>2, <4>3
    <3>2. CASE AnswerFailed(t)
      <4>1. /\ ids' = ids + 2
            /\ conversationMessages' = turn[t].past \o Exchange(t, ids + 1, ids + 2, FALSE)
            /\ Enter(Range(Exchange(t, ids + 1, ids + 2, FALSE)), Asking \ {t})
            /\ turn' = [turn EXCEPT ![t] = [pc |-> "answered", asked |-> ids + 1, past |-> turn[t].past]]
        BY <3>2 DEF AnswerFailed
      <4>2. /\ ids + 1 \in 1 .. ids' /\ ids + 2 \in 1 .. ids' /\ ids + 1 # ids + 2 /\ ids' \in Nat /\ ids <= ids'
            /\ \A m \in said : m.id # ids + 1 /\ m.id # ids + 2
            /\ \A u \in Asking : u # t => turn[u].asked # ids + 1 /\ turn[u].asked # ids + 2
        BY <2>b, <4>1
      <4> QED
        BY <4>1, <4>2
    <3> QED
      BY <1>2, <3>1, <3>2
  <2> DEFINE E == Range(Exchange(t, a, b, c))
  <2>1. Range(conversationMessages') = Range(turn[t].past) \cup E
    BY <1>0, <2>0, ExchangeListed, ListsJoined
  <2>2. turn'[t] = [pc |-> "answered", asked |-> a, past |-> turn[t].past] /\ \A u \in Turn : u # t => turn'[u] = turn[u]
    BY <1>0, <2>0 DEF TurnsShaped
  <2>3. turn'[t].pc = "answered" /\ turn'[t].past = turn[t].past
    BY <2>2
  <2>4. \A u \in Asking' : u \in Asking /\ u # t /\ turn'[u].asked = turn[u].asked
    BY <2>2, <2>3 DEF Asking
  <2>5. \A u \in Turn : Range(turn'[u].past) \subseteq said
    BY <2>2, <2>3 DEF IdsUnique
  <2>6. /\ \A m \in E : m.id \in {a, b}
        /\ \A m, o \in E : m.id = o.id => m = o
    BY <2>0, ExchangeIds
  <2>7. Enter(E, Asking \ {t})
    BY <2>0
  <2> HIDE DEF E
  <2>8. \A m \in E : m.id \in 1 .. ids'
    BY <2>0, <2>6
  <2>9. \A m \in E, o \in said : m.id # o.id
    BY <2>0, <2>6
  <2>10. Range(conversationMessages') \subseteq said \cup E
    BY <2>1 DEF IdsUnique
  <2>11. \A u \in Asking' : u \in Asking /\ turn'[u].asked = turn[u].asked /\ \A m \in E : m.id # turn[u].asked
    BY <2>0, <2>4, <2>6
  <2> QED
    BY <2>0, <2>5, <2>6, <2>7, <2>8, <2>9, <2>10, <2>11, IdsStayUnique
<1>5. CASE Broadcast
  <2> DEFINE m == Memo(ids + 1)
  <2>1. /\ conversationMessages' = Append(conversationMessages, m) /\ turn' = turn /\ ids' = ids + 1
        /\ Enter({m}, Asking) /\ m.id = ids + 1
    BY <1>5 DEF Broadcast, Memo
  <2> HIDE DEF m
  <2>2. Range(conversationMessages') = Range(conversationMessages) \cup {m}
    BY <1>0, <2>1, MessageAdded
  <2>3. Asking' = Asking
    BY <2>1 DEF Asking
  <2>4. ids \in Nat /\ (\A o \in said : o.id \in 1 .. ids) /\ \A u \in Asking : turn[u].asked \in 1 .. ids
    BY DEF IdsUnique
  <2>5. /\ ids' \in Nat /\ ids <= ids' /\ (\A o \in {m} : o.id \in 1 .. ids')
        /\ (\A o, p \in {m} : o.id = p.id => o = p) /\ \A o \in {m}, p \in said : o.id # p.id
    BY <2>1, <2>4
  <2>6. Range(conversationMessages') \subseteq said \cup {m} /\ \A u \in Turn : Range(turn'[u].past) \subseteq said
    BY <2>1, <2>2 DEF IdsUnique
  <2>7. \A u \in Asking' : u \in Asking /\ turn'[u].asked = turn[u].asked /\ \A o \in {m} : o.id # turn[u].asked
    BY <2>1, <2>3, <2>4
  <2> QED
    BY <2>1, <2>5, <2>6, <2>7, IdsStayUnique
<1>6. CASE MigrateStateIfNeeded
  <2>1. conversationMessages' = Tidied /\ UNCHANGED <<turn, said, ids>>
    BY <1>6 DEF MigrateStateIfNeeded
  <2>2. Range(Tidied) \subseteq Range(conversationMessages)
    <3>1. /\ \A m \in Range(conversationMessages) : m.id \in Nat
          /\ \A m, o \in Range(conversationMessages) : m.id = o.id => m = o
      BY DEF IdsUnique
    <3> QED
      BY <1>0, <3>1, TidiedKeeps
  <2> QED
    BY <2>1, <2>2 DEF IdsUnique, Asking
<1>7. CASE EvictTurns
  <2>1. /\ turn' = [t \in Turn |-> IF t \in Asking THEN [turn[t] EXCEPT !.pc = "lost"] ELSE turn[t]]
        /\ UNCHANGED <<conversationMessages, said, ids>>
    BY <1>7 DEF EvictTurns
  <2>2. \A t \in Turn : turn'[t].pc # "asking" /\ turn'[t].past = turn[t].past
    <3> SUFFICES ASSUME NEW t \in Turn PROVE turn'[t].pc # "asking" /\ turn'[t].past = turn[t].past
      OBVIOUS
    <3>1. CASE t \in Asking
      <4>1. turn'[t] = [pc |-> "lost", asked |-> turn[t].asked, past |-> turn[t].past]
        BY <1>0, <2>1, <3>1, TurnRewritten
      <4> QED
        BY <4>1
    <3>2. CASE t \notin Asking
      BY <2>1, <3>2 DEF Asking
    <3> QED
      BY <3>1, <3>2
  <2>3. Asking' = {}
    BY <2>2 DEF Asking
  <2> QED
    BY <2>1, <2>2, <2>3 DEF IdsUnique
<1>8. CASE UNCHANGED conversationVars
  BY <1>8 DEF conversationVars, IdsUnique, Asking
<1> QED
  BY <1>1, <1>2, <1>5, <1>6, <1>7, <1>8 DEF ConversationNext

(***************************************************************************)
(* AnswersInContext for a list s, the turns tu and the messages sd said:   *)
(* the dialogue before a question is told apart by the ids, which are in   *)
(* order, and its turn has ended, so that the list it was given does not   *)
(* change any more.                                                        *)
(***************************************************************************)
AnswerKept(s, i, sd) ==
    \/ \E j \in DOMAIN s : j = i + 1 /\ s[j].role = "assistant" /\ s[j].turn = s[i].turn
    \/ \E o \in sd : o.role = "assistant" /\ o.turn = s[i].turn /\ o.memoText

InContext(s, tu, sd) ==
    \A i \in DOMAIN s : s[i].role = "user" =>
        /\ s[i].turn \in Turn /\ tu[s[i].turn].pc = "answered"
        /\ AnswerKept(s, i, sd)
        /\ {m \in Dialogue(s) : m.id < s[i].id} = Dialogue(tu[s[i].turn].past)

\* A list that will be written back is as good as the present one, and older than what
\* will be added to it.
ContextInv ==
    /\ InOrder(conversationMessages) /\ InContext(conversationMessages, turn, said)
    /\ \A t \in Asking : /\ InOrder(turn[t].past) /\ InContext(turn[t].past, turn, said)
                         /\ \A m \in Range(turn[t].past) : m.id < turn[t].asked

\* Turns that have ended are all that matters.
LEMMA SameContext ==
  ASSUME NEW s, NEW tu, NEW tv, NEW sd, NEW se, InContext(s, tu, sd), sd \subseteq se,
         \A u \in Turn : tu[u].pc = "answered" => tv[u] = tu[u]
  PROVE  InContext(s, tv, se)
  BY DEF InContext, AnswerKept

\* The shape of a list.
LEMMA ListShape ==
  ASSUME NEW s, Listed(s)
  PROVE  Len(s) \in Nat /\ DOMAIN s = 1 .. Len(s) /\ \A i \in 1 .. Len(s) : s[i] \in Range(s)
<1>1. s \in Seq(Range(s))
  BY DEF Listed
<1>2. Len(s) \in Nat /\ DOMAIN s = 1 .. Len(s)
  BY <1>1, LenProperties
<1> QED
  BY <1>2 DEF Range

\* A memo behind the others.
LEMMA MemoInContext ==
  ASSUME NEW s, Listed(s), NEW tu, NEW sd, NEW m, m.role # "user", m.memoText, m.id \in Nat,
         \A o \in Range(s) : o.id \in Nat /\ o.id < m.id,
         InOrder(s), InContext(s, tu, sd)
  PROVE  InOrder(Append(s, m)) /\ InContext(Append(s, m), tu, sd)
<1> DEFINE r == Append(s, m)
<1> DEFINE n == Len(s)
<1>1. n \in Nat /\ DOMAIN s = 1 .. n /\ \A i \in 1 .. n : s[i] \in Range(s) /\ s[i].id \in Nat /\ s[i].id < m.id
  BY ListShape
<1>2. Listed(r) /\ Range(r) = Range(s) \cup {m}
  BY MessageAdded
<1>3. Len(r) = n + 1 /\ (\A i \in 1 .. n : r[i] = s[i]) /\ r[n + 1] = m
  <2> DEFINE S == Range(s) \cup {m}
  <2>1. s \in Seq(S) /\ m \in S
    <3>1. Seq(Range(s)) \subseteq Seq(S)
      OBVIOUS
    <3> QED
      BY <3>1 DEF Listed
  <2> HIDE DEF S
  <2> QED
    BY <2>1, AppendProperties
<1>4. DOMAIN r = 1 .. n + 1
  BY <1>2, <1>3, ListShape
<1> HIDE DEF r, n
<1>5. \A i \in 1 .. n + 1 : i \in 1 .. n \/ i = n + 1
  BY <1>1
<1>6. InOrder(r)
  <2> SUFFICES ASSUME NEW i \in 1 .. n + 1, NEW j \in 1 .. n + 1, i < j PROVE r[i].id < r[j].id
    BY <1>4 DEF InOrder
  <2>1. i \in 1 .. n
    BY <1>1
  <2>2. CASE j = n + 1
    BY <1>1, <1>3, <2>1, <2>2
  <2>3. CASE j \in 1 .. n
    BY <1>1, <1>3, <2>1, <2>3 DEF InOrder
  <2> QED
    BY <1>5, <2>2, <2>3
<1>7. Dialogue(r) = Dialogue(s)
  BY <1>2 DEF Dialogue
<1>8. ASSUME NEW i \in DOMAIN r, r[i].role = "user"
      PROVE  /\ r[i].turn \in Turn /\ tu[r[i].turn].pc = "answered"
             /\ AnswerKept(r, i, sd)
             /\ {o \in Dialogue(r) : o.id < r[i].id} = Dialogue(tu[r[i].turn].past)
  <2>1. i \in 1 .. n /\ r[i] = s[i] /\ i \in DOMAIN s
    BY <1>1, <1>3, <1>4, <1>5, <1>8
  <2>2. /\ s[i].turn \in Turn /\ tu[s[i].turn].pc = "answered"
        /\ AnswerKept(s, i, sd)
        /\ {o \in Dialogue(s) : o.id < s[i].id} = Dialogue(tu[s[i].turn].past)
    BY <1>8, <2>1 DEF InContext
  <2>3. \A j \in DOMAIN s : j \in DOMAIN r /\ r[j] = s[j]
    BY <1>1, <1>3, <1>4
  <2>4. AnswerKept(r, i, sd)
    BY <2>1, <2>2, <2>3 DEF AnswerKept
  <2> QED
    BY <1>7, <2>1, <2>2, <2>4
<1>9. InContext(r, tu, sd)
  BY <1>8 DEF InContext
<1> QED
  BY <1>6, <1>9 DEF r

\* The question and the answer behind the list the model was given.
LEMMA ExchangeInContext ==
  ASSUME NEW s, Listed(s), NEW tu, NEW sd, NEW t \in Turn, NEW a \in Nat, NEW b \in Nat, NEW c, a < b,
         \A m \in Range(s) : m.id \in Nat /\ m.id < a,
         InOrder(s), InContext(s, tu, sd), tu[t].pc = "answered", tu[t].past = s
  PROVE  InOrder(s \o Exchange(t, a, b, c)) /\ InContext(s \o Exchange(t, a, b, c), tu, sd)
<1> DEFINE q == [id |-> a, role |-> "user", turn |-> t, memoText |-> t \in Quoting]
<1> DEFINE w == [id |-> b, role |-> "assistant", turn |-> t, memoText |-> c]
<1> DEFINE e == <<q, w>>
<1> DEFINE r == s \o e
<1> DEFINE n == Len(s)
<1>1. /\ q.id = a /\ q.role = "user" /\ q.turn = t /\ w.id = b /\ w.role = "assistant" /\ w.turn = t
      /\ Exchange(t, a, b, c) = e
  BY DEF Exchange
<1> HIDE DEF q, w
<1>2. n \in Nat /\ DOMAIN s = 1 .. n /\ \A i \in 1 .. n : s[i] \in Range(s) /\ s[i].id \in Nat /\ s[i].id < a
  BY ListShape
<1>3. Range(e) = {q, w} /\ Listed(e) /\ Len(e) = 2 /\ e[1] = q /\ e[2] = w
  <2>1. Range(e) = {q, w}
    BY DEF Range
  <2> QED
    BY <1>1, <2>1, ExchangeListed
<1>4. Listed(r) /\ Range(r) = Range(s) \cup {q, w}
  BY <1>3, ListsJoined
<1>5. Len(r) = n + 2 /\ (\A i \in 1 .. n : r[i] = s[i]) /\ r[n + 1] = q /\ r[n + 2] = w
  <2> DEFINE S == Range(s) \cup {q, w}
  <2>1. s \in Seq(S) /\ e \in Seq(S)
    <3>1. Seq(Range(s)) \subseteq Seq(S) /\ Seq(Range(e)) \subseteq Seq(S)
      BY <1>3
    <3> QED
      BY <1>3, <3>1 DEF Listed
  <2> HIDE DEF S, e
  <2>2. /\ Len(r) = n + 2
        /\ \A i \in 1 .. n + 2 : r[i] = IF i <= n THEN s[i] ELSE e[i - n]
    <3>1. /\ Len(s \o e) = Len(s) + Len(e)
          /\ \A i \in 1 .. Len(s) + Len(e) : (s \o e)[i] = IF i <= Len(s) THEN s[i] ELSE e[i - Len(s)]
      BY <2>1, ConcatProperties
    <3>2. Len(e) = 2 /\ n = Len(s) /\ r = s \o e
      BY <1>3
    <3> HIDE DEF n, r
    <3> QED
      BY <3>1, <3>2
  <2>3. n + 1 \in 1 .. n + 2 /\ n + 2 \in 1 .. n + 2 /\ ~(n + 1 <= n) /\ ~(n + 2 <= n) /\ n + 1 - n = 1 /\ n + 2 - n = 2
    BY <1>2
  <2>4. \A i \in 1 .. n : i \in 1 .. n + 2 /\ i <= n
    BY <1>2
  <2> QED
    BY <1>3, <2>2, <2>3, <2>4
<1>6. DOMAIN r = 1 .. n + 2
  BY <1>4, <1>5, ListShape
<1> HIDE DEF r, n, e
<1>7. \A i \in 1 .. n + 2 : i \in 1 .. n \/ i = n + 1 \/ i = n + 2
  BY <1>2
<1>8. InOrder(r)
  <2> SUFFICES ASSUME NEW i \in 1 .. n + 2, NEW j \in 1 .. n + 2, i < j PROVE r[i].id < r[j].id
    BY <1>6 DEF InOrder
  <2>1. CASE j \in 1 .. n
    <3>1. i \in 1 .. n
      BY <1>2, <2>1
    <3> QED
      BY <1>2, <1>5, <2>1, <3>1 DEF InOrder
  <2>2. CASE j = n + 1
    <3>1. i \in 1 .. n
      BY <1>2, <2>2
    <3> QED
      BY <1>1, <1>2, <1>5, <2>2, <3>1
  <2>3. CASE j = n + 2
    <3>1. i \in 1 .. n \/ i = n + 1
      BY <1>2, <2>3
    <3> QED
      BY <1>1, <1>2, <1>5, <2>3, <3>1
  <2> QED
    BY <1>7, <2>1, <2>2, <2>3
<1>9. Dialogue(r) = Dialogue(s) \cup {m \in {q, w} : ~m.memoText}
  BY <1>1, <1>4 DEF Dialogue
<1>10. \A m \in Dialogue(s) : m.id \in Nat /\ m.id < a
  BY DEF Dialogue
<1>11. ASSUME NEW i \in DOMAIN r, r[i].role = "user"
       PROVE  /\ r[i].turn \in Turn /\ tu[r[i].turn].pc = "answered"
              /\ AnswerKept(r, i, sd)
              /\ {o \in Dialogue(r) : o.id < r[i].id} = Dialogue(tu[r[i].turn].past)
  <2>1. CASE i \in 1 .. n
    <3>1. r[i] = s[i] /\ i \in DOMAIN s /\ s[i].id < a /\ s[i].id \in Nat
      BY <1>2, <1>5, <2>1
    <3>2. /\ s[i].turn \in Turn /\ tu[s[i].turn].pc = "answered"
          /\ AnswerKept(s, i, sd)
          /\ {o \in Dialogue(s) : o.id < s[i].id} = Dialogue(tu[s[i].turn].past)
      BY <1>11, <3>1 DEF InContext
    <3>3. \A j \in DOMAIN s : j \in DOMAIN r /\ r[j] = s[j]
      BY <1>2, <1>5, <1>6
    <3>4. AnswerKept(r, i, sd)
      BY <3>1, <3>2, <3>3 DEF AnswerKept
    <3>5. ~(q.id < s[i].id) /\ ~(w.id < s[i].id)
      BY <1>1, <3>1
    <3>6. {o \in Dialogue(r) : o.id < s[i].id} = {o \in Dialogue(s) : o.id < s[i].id}
      BY <1>9, <3>5
    <3> QED
      BY <3>1, <3>2, <3>4, <3>6
  <2>2. CASE i = n + 1
    <3>1. r[i] = q
      BY <1>5, <2>2
    <3>2. AnswerKept(r, i, sd)
      <4>1. n + 2 \in DOMAIN r /\ n + 2 = i + 1 /\ r[n + 2] = w
        BY <1>2, <1>5, <1>6, <2>2
      <4> QED
        BY <1>1, <3>1, <4>1 DEF AnswerKept
    <3>3. ~(q.id < a) /\ ~(w.id < a)
      BY <1>1
    <3>4. {o \in Dialogue(r) : o.id < a} = Dialogue(s)
      BY <1>9, <1>10, <3>3
    <3> QED
      BY <1>1, <3>1, <3>2, <3>4
  <2>3. CASE i = n + 2
    BY <1>1, <1>5, <1>11, <2>3
  <2> QED
    BY <1>6, <1>7, <2>1, <2>2, <2>3
<1>12. InContext(r, tu, sd)
  BY <1>11 DEF InContext
<1> QED
  BY <1>1, <1>8, <1>12 DEF r

\* A list without some of what reads like a memo.
LEMMA TidiedInContext ==
  ASSUME NEW s, NEW r, Listed(s), Listed(r), NEW tu, NEW sd, Range(s) \subseteq sd, InOrder(s), InOrder(r), InContext(s, tu, sd),
         \A m \in Range(s) : m.id \in Nat,
         Range(r) \subseteq Range(s), \A m \in Range(s) : ~m.memoText => m \in Range(r)
  PROVE  InContext(r, tu, sd)
<1>1. Len(s) \in Nat /\ DOMAIN s = 1 .. Len(s) /\ \A i \in 1 .. Len(s) : s[i] \in Range(s)
  BY ListShape
<1>2. Len(r) \in Nat /\ DOMAIN r = 1 .. Len(r) /\ \A i \in 1 .. Len(r) : r[i] \in Range(r)
  BY ListShape
<1>3. Dialogue(r) = Dialogue(s)
  BY DEF Dialogue
<1>4. ASSUME NEW i \in DOMAIN r, r[i].role = "user"
      PROVE  /\ r[i].turn \in Turn /\ tu[r[i].turn].pc = "answered"
             /\ AnswerKept(r, i, sd)
             /\ {o \in Dialogue(r) : o.id < r[i].id} = Dialogue(tu[r[i].turn].past)
  <2>1. PICK j \in DOMAIN s : s[j] = r[i]
    BY <1>2 DEF Range
  <2>2. /\ s[j].turn \in Turn /\ tu[s[j].turn].pc = "answered"
        /\ AnswerKept(s, j, sd)
        /\ {o \in Dialogue(s) : o.id < s[j].id} = Dialogue(tu[s[j].turn].past)
    BY <1>4, <2>1 DEF InContext
  <2>3. ASSUME NEW k \in DOMAIN s, k = j + 1, s[k].role = "assistant", s[k].turn = s[j].turn, ~s[k].memoText
        PROVE  AnswerKept(r, i, sd)
    <3>1. s[k] \in Range(r)
      BY <1>1, <2>3
    <3>2. PICK p \in DOMAIN r : r[p] = s[k]
      BY <3>1 DEF Range
    <3>3. s[j].id < s[k].id /\ s[j].id \in Nat /\ s[k].id \in Nat
      BY <1>1, <2>1, <2>3 DEF InOrder
    <3>4. i < p
      <4>1. ASSUME p < i PROVE FALSE
        <5>1. r[p].id < r[i].id
          BY <4>1 DEF InOrder
        <5> QED
          BY <2>1, <3>2, <3>3, <5>1
      <4>2. p # i
        BY <2>1, <3>2, <3>3
      <4> QED
        BY <1>2, <4>1, <4>2
    <3>5. ASSUME i + 1 < p PROVE FALSE
      <4>1. i + 1 \in DOMAIN r /\ i < i + 1
        BY <1>2, <3>5
      <4> DEFINE x == r[i + 1]
      <4>2. r[i].id < x.id /\ x.id < r[p].id /\ x \in Range(r)
        BY <1>2, <3>5, <4>1 DEF InOrder
      <4>3. PICK z \in DOMAIN s : s[z] = x
        BY <4>2 DEF Range
      <4> HIDE DEF x
      <4>4. x.id \in Nat
        BY <1>1, <4>3
      <4>5. ~(z < j) /\ z # j
        <5>1. z < j => s[z].id < s[j].id
          BY DEF InOrder
        <5> QED
          BY <2>1, <3>3, <4>2, <4>3, <4>4, <5>1
      <4>6. ~(k < z) /\ z # k
        <5>1. k < z => s[k].id < s[z].id
          BY DEF InOrder
        <5> QED
          BY <3>2, <3>3, <4>2, <4>3, <4>4, <5>1
      <4> QED
        BY <1>1, <2>3, <4>5, <4>6
    <3>6. p = i + 1
      BY <1>2, <3>4, <3>5
    <3> QED
      BY <2>1, <2>3, <3>2, <3>6 DEF AnswerKept
  <2>4. AnswerKept(r, i, sd)
    <3>1. CASE \E o \in sd : o.role = "assistant" /\ o.turn = s[j].turn /\ o.memoText
      BY <2>1, <3>1 DEF AnswerKept
    <3>2. CASE \E k \in DOMAIN s : k = j + 1 /\ s[k].role = "assistant" /\ s[k].turn = s[j].turn
      <4>1. PICK k \in DOMAIN s : k = j + 1 /\ s[k].role = "assistant" /\ s[k].turn = s[j].turn
        BY <3>2
      <4>2. CASE ~s[k].memoText
        BY <2>3, <4>1, <4>2
      <4>3. CASE s[k].memoText
        <5>1. s[k] \in sd
          BY <1>1
        <5> QED
          BY <3>1, <4>1, <4>3, <5>1
      <4> QED
        BY <4>2, <4>3
    <3> QED
      BY <2>2, <3>1, <3>2 DEF AnswerKept
  <2> QED
    BY <1>3, <2>1, <2>2, <2>4
<1> QED
  BY <1>4 DEF InContext

\* What a step of a turn does to the lists, the messages and the ids.
LEMMA AnswerWritten ==
  ASSUME ConversationInv, IdsUnique, NEW t \in Turn, Answered(t) \/ AnswerFailed(t)
  PROVE  \E a, b \in Nat, c \in BOOLEAN :
           /\ turn[t].asked <= a /\ a < b /\ t \in Asking
           /\ conversationMessages' = turn[t].past \o Exchange(t, a, b, c)
           /\ turn' = [turn EXCEPT ![t] = [pc |-> "answered", asked |-> a, past |-> turn[t].past]]
           /\ ids' \in Nat /\ memos' = memos /\ Enter(Range(Exchange(t, a, b, c)), Asking \ {t})
<1>0. TurnsShaped
  BY DEF ConversationInv
<1>1. turn[t].pc = "asking" /\ t \in Asking
  BY DEF Answered, AnswerFailed, Asking
<1>2. turn[t].asked \in 1 .. ids /\ ids \in Nat
  BY <1>1 DEF IdsUnique
<1>3. CASE Answered(t)
  <2>1. PICK c \in BOOLEAN :
        /\ conversationMessages' = turn[t].past \o Exchange(t, turn[t].asked, ids + 1, c)
        /\ turn' = [turn EXCEPT ![t].pc = "answered"] /\ ids' = ids + 1 /\ memos' = memos
        /\ Enter(Range(Exchange(t, turn[t].asked, ids + 1, c)), Asking \ {t})
    BY <1>3 DEF Answered
  <2>2. turn' = [turn EXCEPT ![t] = [pc |-> "answered", asked |-> turn[t].asked, past |-> turn[t].past]]
    <3>1. turn' = [turn EXCEPT ![t] = [turn[t] EXCEPT !.pc = "answered"]]
      BY <1>0, <2>1 DEF TurnsShaped
    <3> QED
      BY <1>0, <3>1, TurnRewritten
  <2>3. turn[t].asked \in Nat /\ ids + 1 \in Nat /\ turn[t].asked < ids + 1 /\ turn[t].asked <= turn[t].asked /\ ids' \in Nat
    BY <1>2, <2>1
  <2> QED
    BY <1>1, <2>1, <2>2, <2>3
<1>4. CASE AnswerFailed(t)
  <2>1. /\ conversationMessages' = turn[t].past \o Exchange(t, ids + 1, ids + 2, FALSE)
        /\ turn' = [turn EXCEPT ![t] = [pc |-> "answered", asked |-> ids + 1, past |-> turn[t].past]]
        /\ ids' = ids + 2 /\ memos' = memos /\ Enter(Range(Exchange(t, ids + 1, ids + 2, FALSE)), Asking \ {t})
    BY <1>4 DEF AnswerFailed
  <2>2. ids + 1 \in Nat /\ ids + 2 \in Nat /\ ids + 1 < ids + 2 /\ turn[t].asked <= ids + 1 /\ ids' \in Nat
    BY <1>2, <2>1
  <2> QED
    BY <1>1, <2>1, <2>2
<1> QED
  BY <1>3, <1>4

\* Every list that is there or will be written back stays in order and in context.
LEMMA ContextStep ==
  ASSUME ConversationInv, IdsUnique, ContextInv, [ConversationNext]_conversationVars
  PROVE  ContextInv'
<1>0. /\ TurnsShaped /\ Listed(conversationMessages) /\ \A t \in Turn : Listed(turn[t].past)
  BY DEF ConversationInv, TurnsShaped
<1>1. /\ InOrder(conversationMessages) /\ InContext(conversationMessages, turn, said)
      /\ \A t \in Asking : /\ InOrder(turn[t].past) /\ InContext(turn[t].past, turn, said)
                           /\ \A m \in Range(turn[t].past) : m.id < turn[t].asked
  BY DEF ContextInv
<1>2. /\ ids \in Nat /\ (\A m \in said : m.id \in 1 .. ids) /\ Range(conversationMessages) \subseteq said
      /\ (\A t \in Turn : Range(turn[t].past) \subseteq said) /\ \A t \in Asking : turn[t].asked \in 1 .. ids
      /\ \A m, o \in said : m.id = o.id => m = o
  BY DEF IdsUnique
<1>3. ASSUME NEW t \in Turn, HandleUserInput(t) PROVE ContextInv'
  <2>1. PICK asked, past : /\ past = conversationMessages /\ asked = ids + 1
                           /\ turn' = [turn EXCEPT ![t] = [pc |-> "asking", asked |-> asked, past |-> past]]
                           /\ conversationMessages' = conversationMessages /\ turn[t].pc = "idle"
    BY <1>3 DEF HandleUserInput
  <2>2. turn'[t] = [pc |-> "asking", asked |-> asked, past |-> past] /\ \A u \in Turn : u # t => turn'[u] = turn[u]
    BY <1>0, <2>1 DEF TurnsShaped
  <2>3. turn'[t].past = conversationMessages /\ turn'[t].asked = ids + 1
    BY <2>1, <2>2
  <2>4. said \subseteq said' /\ \A u \in Turn : turn[u].pc = "answered" => turn'[u] = turn[u]
    BY <1>3, <2>1, <2>2 DEF HandleUserInput
  <2>5. InContext(conversationMessages, turn', said')
    BY <1>1, <2>4, SameContext
  <2>6. ASSUME NEW u \in Asking'
        PROVE  /\ InOrder(turn'[u].past) /\ InContext(turn'[u].past, turn', said')
               /\ \A m \in Range(turn'[u].past) : m.id < turn'[u].asked
    <3>1. CASE u = t
      <4>1. \A m \in Range(conversationMessages) : m.id < ids + 1
        BY <1>2
      <4> QED
        BY <1>1, <2>3, <2>5, <3>1, <4>1
    <3>2. CASE u # t
      <4>1. u \in Turn /\ turn'[u].pc = "asking"
        BY DEF Asking
      <4>2. turn'[u] = turn[u]
        BY <2>2, <3>2, <4>1
      <4>3. u \in Asking
        BY <4>1, <4>2 DEF Asking
      <4>4. InContext(turn[u].past, turn', said')
        BY <1>1, <2>4, <4>3, SameContext
      <4> QED
        BY <1>1, <4>2, <4>3, <4>4
    <3> QED
      BY <3>1, <3>2
  <2> QED
    BY <1>1, <2>1, <2>5, <2>6 DEF ContextInv
<1>4. ASSUME NEW t \in Turn, Answered(t) \/ AnswerFailed(t) PROVE ContextInv'
  <2>1. PICK a \in Nat, b \in Nat, c \in BOOLEAN :
          /\ turn[t].asked <= a /\ a < b /\ t \in Asking
          /\ conversationMessages' = turn[t].past \o Exchange(t, a, b, c)
          /\ turn' = [turn EXCEPT ![t] = [pc |-> "answered", asked |-> a, past |-> turn[t].past]]
          /\ Enter(Range(Exchange(t, a, b, c)), Asking \ {t})
    BY <1>4, AnswerWritten
  <2>2. turn'[t] = [pc |-> "answered", asked |-> a, past |-> turn[t].past] /\ \A u \in Turn : u # t => turn'[u] = turn[u]
    BY <1>0, <2>1 DEF TurnsShaped
  <2>3. turn'[t].past = turn[t].past /\ turn'[t].pc = "answered" /\ turn[t].pc = "asking"
    BY <2>1, <2>2 DEF Asking
  <2>4. said \subseteq said' /\ \A u \in Turn : turn[u].pc = "answered" => turn'[u] = turn[u]
    BY <2>1, <2>2, <2>3 DEF Enter
  <2> DEFINE s == turn[t].past
  <2>5. InOrder(s) /\ InContext(s, turn, said) /\ Listed(s) /\ \A m \in Range(s) : m.id < turn[t].asked
    BY <1>0, <1>1, <2>1
  <2>6. InContext(s, turn', said')
    BY <2>4, <2>5, SameContext
  <2>7. \A m \in Range(s) : m.id \in Nat /\ m.id < a
    <3>1. turn[t].asked \in Nat /\ \A m \in Range(s) : m.id \in Nat
      BY <1>2, <2>1
    <3> HIDE DEF s
    <3> QED
      BY <2>1, <2>5, <3>1
  <2>8. turn'[t].past = s /\ conversationMessages' = s \o Exchange(t, a, b, c) /\ a < b
    BY <2>1, <2>3
  <2> HIDE DEF s
  <2>9. InOrder(s \o Exchange(t, a, b, c)) /\ InContext(s \o Exchange(t, a, b, c), turn', said')
    BY <2>3, <2>5, <2>6, <2>7, <2>8, ExchangeInContext
  <2>10. ASSUME NEW u \in Asking'
         PROVE  /\ InOrder(turn'[u].past) /\ InContext(turn'[u].past, turn', said')
                /\ \A m \in Range(turn'[u].past) : m.id < turn'[u].asked
    <3>1. u \in Turn /\ turn'[u].pc = "asking" /\ u # t
      BY <2>3 DEF Asking
    <3>2. turn'[u] = turn[u] /\ u \in Asking
      BY <2>2, <3>1 DEF Asking
    <3>3. InContext(turn[u].past, turn', said')
      BY <1>1, <2>4, <3>2, SameContext
    <3> QED
      BY <1>1, <3>2, <3>3
  <2> QED
    BY <2>8, <2>9, <2>10 DEF ContextInv
<1>5. CASE Broadcast
  <2> DEFINE m == Memo(ids + 1)
  <2>1. /\ conversationMessages' = Append(conversationMessages, m) /\ turn' = turn
        /\ m.id = ids + 1 /\ m.role # "user" /\ m.memoText /\ said \subseteq said'
    BY <1>5 DEF Broadcast, Memo, Enter
  <2> HIDE DEF m
  <2>2. m.id \in Nat /\ \A o \in Range(conversationMessages) : o.id \in Nat /\ o.id < m.id
    BY <1>2, <2>1
  <2>3. InOrder(Append(conversationMessages, m)) /\ InContext(Append(conversationMessages, m), turn, said)
    BY <1>0, <1>1, <2>1, <2>2, MemoInContext
  <2>4. InContext(Append(conversationMessages, m), turn', said')
    BY <2>1, <2>3, SameContext
  <2>5. \A t \in Asking : InContext(turn[t].past, turn', said')
    BY <1>1, <2>1, SameContext
  <2> QED
    BY <1>1, <2>1, <2>3, <2>4, <2>5 DEF ContextInv, Asking
<1>6. CASE MigrateStateIfNeeded
  <2>1. conversationMessages' = Tidied /\ turn' = turn /\ said' = said
    BY <1>6 DEF MigrateStateIfNeeded
  <2>2. (\A m \in Range(conversationMessages) : m.id \in Nat) /\ \A m, o \in Range(conversationMessages) : m.id = o.id => m = o
    BY <1>2
  <2>3. /\ Listed(Tidied) /\ Range(Tidied) \subseteq Range(conversationMessages) /\ InOrder(Tidied)
        /\ \A m \in Range(conversationMessages) : ~m.memoText => m \in Range(Tidied)
    BY <1>0, <2>2, TidiedKeeps
  <2>4. InContext(Tidied, turn, said)
    BY <1>0, <1>1, <1>2, <2>2, <2>3, TidiedInContext
  <2> QED
    BY <1>1, <2>1, <2>3, <2>4 DEF ContextInv, Asking
<1>7. CASE EvictTurns
  <2>1. /\ turn' = [t \in Turn |-> IF t \in Asking THEN [turn[t] EXCEPT !.pc = "lost"] ELSE turn[t]]
        /\ conversationMessages' = conversationMessages /\ said' = said
    BY <1>7 DEF EvictTurns
  <2>2. \A t \in Turn : turn'[t].pc # "asking" /\ (t \notin Asking => turn'[t] = turn[t])
    <3> SUFFICES ASSUME NEW t \in Turn PROVE turn'[t].pc # "asking" /\ (t \notin Asking => turn'[t] = turn[t])
      OBVIOUS
    <3>1. CASE t \in Asking
      <4>1. turn'[t] = [pc |-> "lost", asked |-> turn[t].asked, past |-> turn[t].past]
        BY <1>0, <2>1, <3>1, TurnRewritten
      <4> QED
        BY <3>1, <4>1
    <3>2. CASE t \notin Asking
      BY <2>1, <3>2 DEF Asking
    <3> QED
      BY <3>1, <3>2
  <2>3. Asking' = {}
    BY <2>2 DEF Asking
  <2>4. said \subseteq said' /\ \A u \in Turn : turn[u].pc = "answered" => turn'[u] = turn[u]
    BY <2>1, <2>2 DEF Asking
  <2>5. InContext(conversationMessages, turn', said')
    BY <1>1, <2>4, SameContext
  <2> QED
    BY <1>1, <2>1, <2>3, <2>5 DEF ContextInv
<1>8. CASE UNCHANGED conversationVars
  BY <1>1, <1>8 DEF conversationVars, ContextInv, Asking
<1> QED
  BY <1>3, <1>4, <1>5, <1>6, <1>7, <1>8 DEF ConversationNext

\* A list of messages, from its elements.
LEMMA MessagesListed ==
  ASSUME NEW s, Listed(s), Range(s) \subseteq Message
  PROVE  s \in Seq(Message)
<1> DEFINE R == Range(s)
<1>1. s \in Seq(R) /\ R \subseteq Message
  BY DEF Listed
<1> HIDE DEF R
<1>2. Seq(R) \subseteq Seq(Message)
  BY <1>1
<1> QED
  BY <1>1, <1>2

\* The steps keep the types.
LEMMA ConversationTyped ==
  ASSUME ConversationInv, IdsUnique, ConversationTypeOK, [ConversationNext]_conversationVars, IdsUnique', ConversationInv'
  PROVE  ConversationTypeOK'
<1>0. /\ TurnsShaped /\ Listed(conversationMessages) /\ (\A t \in Turn : Listed(turn[t].past)) /\ Listed(conversationMessages')
      /\ ids \in Nat /\ ids' \in Nat /\ Range(conversationMessages') \subseteq said' /\ MaxMemos \in Nat
  BY ConversationAssumption DEF ConversationInv, TurnsShaped, IdsUnique
<1>1. /\ conversationMessages \in Seq(Message) /\ turn \in [Turn -> TurnRecord]
      /\ memos \in 0 .. MaxMemos /\ said \subseteq Message /\ exposed \subseteq Message
  BY DEF ConversationTypeOK
<1>2. ASSUME NEW t \in Turn, NEW pc \in {"idle", "asking", "answered", "lost"}, NEW asked \in Nat, NEW past \in Seq(Message),
             turn' = [turn EXCEPT ![t] = [pc |-> pc, asked |-> asked, past |-> past]]
      PROVE  turn' \in [Turn -> TurnRecord]
  <2> DEFINE rec == [pc |-> pc, asked |-> asked, past |-> past]
  <2>1. rec \in TurnRecord
    BY <1>2 DEF TurnRecord
  <2> HIDE DEF rec
  <2>2. turn' = [turn EXCEPT ![t] = rec]
    BY <1>2 DEF rec
  <2> QED
    BY <1>1, <2>1, <2>2
<1>3. ASSUME said' \subseteq Message PROVE conversationMessages' \in Seq(Message)
  BY <1>0, <1>3, MessagesListed
<1>4. ASSUME NEW t \in Turn, HandleUserInput(t) PROVE ConversationTypeOK'
  <2>1. /\ turn' = [turn EXCEPT ![t] = [pc |-> "asking", asked |-> ids + 1, past |-> conversationMessages]]
        /\ UNCHANGED <<memos, said, exposed>> /\ ids + 1 \in Nat
    BY <1>0, <1>4 DEF HandleUserInput
  <2>2. turn' \in [Turn -> TurnRecord]
    BY <1>1, <1>2, <2>1
  <2> QED
    BY <1>0, <1>1, <1>3, <2>1, <2>2 DEF ConversationTypeOK
<1>5. ASSUME NEW t \in Turn, Answered(t) \/ AnswerFailed(t) PROVE ConversationTypeOK'
  <2>1. PICK a \in Nat, b \in Nat, c \in BOOLEAN :
          /\ turn' = [turn EXCEPT ![t] = [pc |-> "answered", asked |-> a, past |-> turn[t].past]]
          /\ memos' = memos /\ Enter(Range(Exchange(t, a, b, c)), Asking \ {t})
    BY <1>5, AnswerWritten
  <2>2. turn[t].past \in Seq(Message)
    BY <1>1 DEF TurnRecord
  <2>3. turn' \in [Turn -> TurnRecord]
    BY <1>2, <2>1, <2>2
  <2>4. Range(Exchange(t, a, b, c)) \subseteq Message
    <3> DEFINE q == [id |-> a, role |-> "user", turn |-> t, memoText |-> t \in Quoting]
    <3> DEFINE w == [id |-> b, role |-> "assistant", turn |-> t, memoText |-> c]
    <3>1. Exchange(t, a, b, c) = <<q, w>> /\ q \in Message /\ w \in Message
      BY DEF Exchange, Message
    <3> HIDE DEF q, w
    <3>2. Range(<<q, w>>) = {q, w}
      BY DEF Range
    <3> QED
      BY <3>1, <3>2
  <2>5. said' \subseteq Message /\ exposed' \subseteq Message
    BY <1>1, <2>1, <2>4 DEF Enter
  <2> QED
    BY <1>0, <1>1, <1>3, <2>1, <2>3, <2>5 DEF ConversationTypeOK
<1>6. CASE Broadcast
  <2> DEFINE m == Memo(ids + 1)
  <2>1. turn' = turn /\ memos < MaxMemos /\ memos' = memos + 1 /\ Enter({m}, Asking)
    BY <1>6 DEF Broadcast
  <2>2. m \in Message
    BY <1>0 DEF Memo, Message
  <2> HIDE DEF m
  <2>3. said' \subseteq Message /\ exposed' \subseteq Message
    BY <1>1, <2>1, <2>2 DEF Enter
  <2>4. memos' \in 0 .. MaxMemos
    BY <1>0, <1>1, <2>1
  <2> QED
    BY <1>0, <1>1, <1>3, <2>1, <2>3, <2>4 DEF ConversationTypeOK
<1>7. CASE MigrateStateIfNeeded
  <2>1. /\ turn' = turn /\ memos' = memos /\ said' = said
        /\ exposed' = exposed \cup {m \in Range(conversationMessages) \ Range(Tidied) : m.memoText}
    BY <1>7 DEF MigrateStateIfNeeded
  <2>2. Range(conversationMessages) \subseteq Message
    BY <1>1, RangeOf
  <2>3. exposed' \subseteq Message
    BY <1>1, <2>1, <2>2
  <2> QED
    BY <1>0, <1>1, <1>3, <2>1, <2>3 DEF ConversationTypeOK
<1>8. CASE EvictTurns
  <2>1. /\ turn' = [t \in Turn |-> IF t \in Asking THEN [turn[t] EXCEPT !.pc = "lost"] ELSE turn[t]]
        /\ UNCHANGED <<memos, said, exposed>>
    BY <1>8 DEF EvictTurns
  <2>2. \A t \in Turn : turn[t] \in TurnRecord /\ [turn[t] EXCEPT !.pc = "lost"] \in TurnRecord
    BY <1>1 DEF TurnRecord
  <2>3. turn' \in [Turn -> TurnRecord]
    BY <2>1, <2>2
  <2> QED
    BY <1>0, <1>1, <1>3, <2>1, <2>3 DEF ConversationTypeOK
<1>9. CASE UNCHANGED conversationVars
  BY <1>9 DEF conversationVars, ConversationTypeOK
<1> QED
  BY <1>4, <1>5, <1>6, <1>7, <1>8, <1>9 DEF ConversationNext

\* The four parts of the invariant.
LEMMA AlwaysConversation == ConversationSpec => [](ConversationInv /\ IdsUnique /\ ContextInv /\ ConversationTypeOK)
<1> DEFINE I == ConversationInv /\ IdsUnique /\ ContextInv /\ ConversationTypeOK
<1>1. ConversationInit => I
  <2> SUFFICES ASSUME ConversationInit PROVE I
    OBVIOUS
  <2>1. /\ conversationMessages = <<>> /\ turn = [t \in Turn |-> [pc |-> "idle", asked |-> 0, past |-> <<>>]]
        /\ ids = 0 /\ memos = 0 /\ said = {} /\ exposed = {}
    BY DEF ConversationInit
  <2>2. \A t \in Turn : turn[t].pc = "idle" /\ turn[t].past = <<>>
    BY <2>1
  <2>3. Range(<<>>) = {} /\ Asking = {} /\ DOMAIN conversationMessages = {}
    BY <2>1, <2>2 DEF Range, Asking
  <2>4. IdsUnique
    BY <2>1, <2>2, <2>3 DEF IdsUnique
  <2>5. ContextInv
    BY <2>3 DEF ContextInv, InOrder, InContext
  <2>6. ConversationTypeOK
    <3>1. <<>> \in Seq(Message)
      BY EmptySeq
    <3>2. [pc |-> "idle", asked |-> 0, past |-> <<>>] \in TurnRecord
      BY <3>1 DEF TurnRecord
    <3>3. turn \in [Turn -> TurnRecord] /\ 0 \in 0 .. MaxMemos
      BY <2>1, <3>2, ConversationAssumption
    <3> QED
      BY <2>1, <3>1, <3>3 DEF ConversationTypeOK
  <2> QED
    BY <2>4, <2>5, <2>6, ConversationInitially
<1>2. I /\ [ConversationNext]_conversationVars => I'
  BY ConversationStep, IdsStep, ContextStep, ConversationTyped
<1> QED
  BY <1>1, <1>2, PTL DEF ConversationSpec

\* The conversation, the turns and the histories stay within their types.
THEOREM ConversationTypeCorrect == ConversationSpec => []ConversationTypeOK
  BY AlwaysConversation, PTL

\* Messages get lost only by overlap or by their text, for any number of turns, memos
\* and evictions and whatever texts quote memos: one that entered the list while no
\* other turn was being answered is not undone by the lists that turns write back, nor
\* by the tidying unless it reads like a memo.
THEOREM ConversationKept == ConversationSpec => []LostOnlyByOverlap
<1>1. ConversationInv => LostOnlyByOverlap
  BY DEF ConversationInv
<1> QED
  BY <1>1, AlwaysConversation, PTL

\* However turns overlap and overwrite one another, and however often the list is tidied,
\* it is in order and every question in it stands before its answer, unless that answer
\* reads like a memo, and behind the conversation that the model was given with it.
THEOREM AnswersStayInContext == ConversationSpec => []AnswersInContext
<1>1. ConversationInv /\ IdsUnique /\ ContextInv => AnswersInContext
  <2> SUFFICES ASSUME ConversationInv, IdsUnique, ContextInv PROVE AnswersInContext
    OBVIOUS
  <2> DEFINE s == conversationMessages
  <2>1. /\ Listed(s) /\ InOrder(s) /\ InContext(s, turn, said)
        /\ \A m \in Range(s) : m.id \in Nat
    BY DEF ConversationInv, TurnsShaped, ContextInv, IdsUnique
  <2> HIDE DEF s
  <2>2. Len(s) \in Nat /\ DOMAIN s = 1 .. Len(s) /\ \A i \in 1 .. Len(s) : s[i] \in Range(s)
    BY <2>1, ListShape
  <2>3. ASSUME NEW i \in DOMAIN s, s[i].role = "user"
        PROVE  /\ AnsweredBehind(s, i) \/ AnswerQuotes(s[i])
               /\ Dialogue(SubSeq(s, 1, i - 1)) = Dialogue(turn[s[i].turn].past)
    <3>1. /\ AnswerKept(s, i, said)
          /\ {m \in Dialogue(s) : m.id < s[i].id} = Dialogue(turn[s[i].turn].past)
      BY <2>1, <2>3 DEF InContext
    <3>2. AnsweredBehind(s, i) \/ AnswerQuotes(s[i])
      BY <2>2, <3>1 DEF AnswerKept, AnsweredBehind, AnswerQuotes
    <3> DEFINE p == SubSeq(s, 1, i - 1)
    <3>3. DOMAIN p = 1 .. i - 1 /\ \A k \in 1 .. i - 1 : p[k] = s[k]
      <4>1. 1 \in Int /\ i - 1 \in Int /\ \A k \in 1 .. i - 1 : s[k] \in Range(s)
        BY <2>2
      <4>2. /\ p \in Seq(Range(s)) /\ Len(p) = (IF 1 <= i - 1 THEN i - 1 - 1 + 1 ELSE 0)
            /\ \A k \in 1 .. i - 1 - 1 + 1 : p[k] = s[1 + k - 1]
        BY <4>1, SubSeqProperties
      <4> HIDE DEF p
      <4>3. i - 1 - 1 + 1 = i - 1 /\ (\A k \in 1 .. i - 1 : 1 + k - 1 = k) /\ (~(1 <= i - 1) => i - 1 = 0)
        BY <2>2
      <4>4. Len(p) = i - 1
        BY <4>2, <4>3
      <4>5. DOMAIN p = 1 .. Len(p)
        BY <4>2, LenProperties
      <4> QED
        BY <4>2, <4>3, <4>4, <4>5
    <3> HIDE DEF p
    <3>4. \A k \in DOMAIN s : k \in 1 .. i - 1 <=> s[k].id < s[i].id
      <4> SUFFICES ASSUME NEW k \in DOMAIN s PROVE k \in 1 .. i - 1 <=> s[k].id < s[i].id
        OBVIOUS
      <4>1. s[k].id \in Nat /\ s[i].id \in Nat
        BY <2>1, <2>2
      <4>2. (k < i => s[k].id < s[i].id) /\ (i < k => s[i].id < s[k].id)
        BY <2>1 DEF InOrder
      <4>3. (k \in 1 .. i - 1 <=> k < i) /\ (k < i \/ i < k \/ k = i)
        BY <2>2
      <4> QED
        BY <4>1, <4>2, <4>3
    <3>5. Range(p) = {m \in Range(s) : m.id < s[i].id}
      <4>1. \A k \in 1 .. i - 1 : k \in DOMAIN s
        BY <2>2
      <4>2. \A m \in Range(s) : \E k \in DOMAIN s : m = s[k]
        BY DEF Range
      <4>3. ASSUME NEW m \in Range(p) PROVE m \in Range(s) /\ m.id < s[i].id
        <5>1. PICK k \in 1 .. i - 1 : m = s[k]
          BY <3>3 DEF Range
        <5> QED
          BY <2>2, <3>4, <4>1, <5>1
      <4>4. ASSUME NEW m \in Range(s), m.id < s[i].id PROVE m \in Range(p)
        <5>1. PICK k \in DOMAIN s : m = s[k]
          BY <4>2
        <5>2. k \in DOMAIN p /\ p[k] = m
          BY <3>3, <3>4, <4>4, <5>1
        <5> QED
          BY <5>2 DEF Range
      <4> QED
        BY <4>3, <4>4
    <3>6. Dialogue(p) = {m \in Dialogue(s) : m.id < s[i].id}
      BY <3>5 DEF Dialogue
    <3> QED
      BY <3>1, <3>2, <3>6 DEF p
  <2> QED
    BY <2>1, <2>3 DEF AnswersInContext, s
<1> QED
  BY <1>1, AlwaysConversation, PTL

-----------------------------------------------------------------------------
(* The login sessions of a user.                                           *)

Distinct(s) == \A i, j \in DOMAIN s : s[i] = s[j] => i = j

Cleaning == {l \in Login : login[l].pc = "cleaning"}
Inserting == {l \in Login : login[l].pc = "inserting"}

\* The ids: that of a login under way is new, whatever sessions, lists and other
\* logins there are.
SessionsKeyed ==
    /\ failures <= uses
    /\ \A s \in Range(sessions) : s <= logins
    /\ \A l \in Login :
         /\ login[l].id <= logins
         /\ \A s \in Range(login[l].toDelete) : s <= logins
         /\ login[l].pc # "cleaning" => login[l].toDelete = <<>>
    /\ \A l \in Login : login[l].pc # "idle" =>
         /\ login[l].id > 0 /\ login[l].id \notin Range(sessions)
         /\ \A m \in Login : login[l].id \notin Range(login[m].toDelete)
         /\ \A m \in Login : login[m].pc # "idle" /\ login[m].id = login[l].id => m = l

\* A session on a list of sessions to delete has maxSessions sessions behind it, as
\* long as it is not used.
ListedAreOld ==
    ~overtaken => \A l \in Login : \A i \in 1 .. Len(sessions) :
                    sessions[i] \in Range(login[l].toDelete) => i + maxSessions <= Len(sessions)

ToKeep(l) == Range(sessions) \ Range(login[l].toDelete)
Before(l) == {m \in Cleaning : login[m].id <= login[l].id}

(***************************************************************************)
(* How many sessions there will be.  Those that a clean-up will leave are  *)
(* at most maxSessions when it reads the list, and one more for each login *)
(* that inserts in the meantime: one that is inserting already, one that   *)
(* is still cleaning up, or a later one.  A later clean-up leaves as few   *)
(* itself, so it is enough to count, for each clean-up, the ones that      *)
(* began before it.                                                        *)
(***************************************************************************)
Limit == maxSessions + Cardinality(Login) + failures
Crowd ==
    /\ Cardinality(Range(sessions)) + Cardinality(Inserting) <= Limit
    /\ \A l \in Cleaning :
         Cardinality(ToKeep(l)) + Cardinality(Inserting) + Cardinality(Before(l)) <= Limit

SessionsInv == SessionsTypeOK /\ SessionsKeyed /\ ListedAreOld /\ Crowd

\* Counting from 1.
LEMMA IntervalSize == \A n \in Nat : Cardinality(1 .. n) = n
<1> SUFFICES ASSUME NEW n \in Nat PROVE Cardinality(1 .. n) = n
  OBVIOUS
<1>1. 1 \in Int /\ n \in Int
  OBVIOUS
<1>2. Cardinality(1 .. n) = IF 1 > n THEN 0 ELSE n - 1 + 1
  BY <1>1, FS_Interval
<1> QED
  BY <1>2

\* A list without repetitions is as long as it has elements.
LEMMA DistinctSize ==
  ASSUME NEW S, NEW s \in Seq(S), Distinct(s)
  PROVE  IsFiniteSet(Range(s)) /\ Cardinality(Range(s)) = Len(s)
<1> DEFINE R == Range(s)
<1>1. Len(s) \in Nat /\ DOMAIN s = 1 .. Len(s) /\ s \in [1 .. Len(s) -> S]
  BY LenProperties
<1>2. s \in [1 .. Len(s) -> R] /\ \A x \in R : \E i \in 1 .. Len(s) : s[i] = x
  BY <1>1 DEF Range
<1> HIDE DEF R
<1>3. s \in Bijection(1 .. Len(s), R)
  BY <1>1, <1>2 DEF Bijection, Injection, Surjection, IsInjective, Distinct
<1>4. IsFiniteSet(1 .. Len(s)) /\ Cardinality(1 .. Len(s)) = Len(s)
  BY <1>1, FS_Interval
<1>5. ExistsBijection(1 .. Len(s), R)
  BY <1>3 DEF ExistsBijection
<1> QED
  BY <1>4, <1>5, FS_Bijection DEF R

\* The list without its element at p.
LEMMA RemovedAt ==
  ASSUME NEW S, NEW s \in Seq(S), Distinct(s), NEW p \in 1 .. Len(s)
  PROVE  /\ RemoveAt(s, p) \in Seq(S) /\ Len(RemoveAt(s, p)) = Len(s) - 1 /\ Distinct(RemoveAt(s, p))
         /\ \A i \in 1 .. Len(s) - 1 : RemoveAt(s, p)[i] = IF i < p THEN s[i] ELSE s[i + 1]
         /\ Range(RemoveAt(s, p)) = Range(s) \ {s[p]}
<1> DEFINE a == SubSeq(s, 1, p - 1)
<1> DEFINE b == SubSeq(s, p + 1, Len(s))
<1> DEFINE r == RemoveAt(s, p)
<1>1. Len(s) \in Nat /\ DOMAIN s = 1 .. Len(s) /\ \A i \in 1 .. Len(s) : s[i] \in S
  BY LenProperties, ElementOfSeq
<1>2. a \in Seq(S) /\ Len(a) = p - 1 /\ \A i \in 1 .. p - 1 : a[i] = s[i]
  <2>1. 1 \in Int /\ p - 1 \in Int /\ \A i \in 1 .. p - 1 : s[i] \in S
    BY <1>1
  <2>2. /\ a \in Seq(S) /\ Len(a) = (IF 1 <= p - 1 THEN p - 1 - 1 + 1 ELSE 0)
        /\ \A i \in 1 .. p - 1 - 1 + 1 : a[i] = s[1 + i - 1]
    BY <2>1, SubSeqProperties
  <2> HIDE DEF a
  <2> QED
    BY <1>1, <2>2
<1>3. b \in Seq(S) /\ Len(b) = Len(s) - p /\ \A i \in 1 .. Len(s) - p : b[i] = s[p + i]
  <2>1. p + 1 \in Int /\ Len(s) \in Int /\ \A i \in p + 1 .. Len(s) : s[i] \in S
    BY <1>1
  <2>2. /\ b \in Seq(S) /\ Len(b) = (IF p + 1 <= Len(s) THEN Len(s) - (p + 1) + 1 ELSE 0)
        /\ \A i \in 1 .. Len(s) - (p + 1) + 1 : b[i] = s[p + 1 + i - 1]
    BY <2>1, SubSeqProperties
  <2> HIDE DEF b
  <2>3. Len(s) - (p + 1) + 1 = Len(s) - p /\ \A i \in 1 .. Len(s) - p : p + 1 + i - 1 = p + i
    BY <1>1
  <2>4. Len(b) = Len(s) - p
    <3>1. CASE p + 1 <= Len(s)
      BY <1>1, <2>2, <2>3, <3>1
    <3>2. CASE ~(p + 1 <= Len(s))
      <4>1. p = Len(s) /\ Len(s) - p = 0
        <5>1. \A n \in Nat : \A q \in 1 .. n : ~(q + 1 <= n) => q = n /\ n - q = 0
          OBVIOUS
        <5> QED
          BY <1>1, <3>2, <5>1
      <4> QED
        BY <2>2, <3>2, <4>1
    <3> QED
      BY <3>1, <3>2
  <2> QED
    BY <2>2, <2>3, <2>4
<1>4. r = a \o b
  BY DEF RemoveAt
<1> HIDE DEF a, b, r
<1>5. /\ r \in Seq(S) /\ Len(r) = Len(s) - 1
      /\ \A i \in 1 .. Len(s) - 1 : r[i] = IF i <= p - 1 THEN a[i] ELSE b[i - (p - 1)]
  <2>1. Len(a) + Len(b) = Len(s) - 1
    BY <1>1, <1>2, <1>3
  <2>2. /\ a \o b \in Seq(S) /\ Len(a \o b) = Len(a) + Len(b)
        /\ \A i \in 1 .. Len(a) + Len(b) : (a \o b)[i] = IF i <= Len(a) THEN a[i] ELSE b[i - Len(a)]
    BY <1>2, <1>3, ConcatProperties
  <2> QED
    BY <1>2, <1>4, <2>1, <2>2
<1>6. \A i \in 1 .. Len(s) - 1 : r[i] = IF i < p THEN s[i] ELSE s[i + 1]
  <2> SUFFICES ASSUME NEW i \in 1 .. Len(s) - 1 PROVE r[i] = IF i < p THEN s[i] ELSE s[i + 1]
    OBVIOUS
  <2>1. CASE i < p
    BY <1>1, <1>2, <1>5, <2>1
  <2>2. CASE ~(i < p)
    <3>1. i - (p - 1) \in 1 .. Len(s) - p /\ p + (i - (p - 1)) = i + 1
      BY <1>1, <2>2
    <3>2. b[i - (p - 1)] = s[i + 1]
      BY <1>3, <3>1
    <3> QED
      BY <1>1, <1>5, <2>2, <3>2
  <2> QED
    BY <2>1, <2>2
<1>7. DOMAIN r = 1 .. Len(s) - 1
  BY <1>1, <1>5, LenProperties
<1>8. Distinct(r)
  <2> SUFFICES ASSUME NEW i \in 1 .. Len(s) - 1, NEW j \in 1 .. Len(s) - 1, r[i] = r[j]
               PROVE  i = j
    BY <1>7 DEF Distinct
  <2> DEFINE at(k) == IF k < p THEN k ELSE k + 1
  <2>1. at(i) \in DOMAIN s /\ at(j) \in DOMAIN s /\ (at(i) = at(j) => i = j)
    BY <1>1
  <2>2. r[i] = s[at(i)] /\ r[j] = s[at(j)]
    BY <1>6
  <2> HIDE DEF at
  <2> QED
    BY <2>1, <2>2 DEF Distinct
<1>9. Range(r) = Range(s) \ {s[p]}
  <2>1. ASSUME NEW i \in 1 .. Len(s) - 1 PROVE r[i] \in Range(s) \ {s[p]}
    <3>1. PICK j \in 1 .. Len(s) : r[i] = s[j] /\ j # p
      BY <1>1, <1>6
    <3> QED
      BY <1>1, <3>1 DEF Range, Distinct
  <2>2. ASSUME NEW j \in 1 .. Len(s), j # p PROVE s[j] \in Range(r)
    <3>1. CASE j < p
      <4>1. j \in 1 .. Len(s) - 1 /\ r[j] = s[j]
        BY <1>1, <1>6, <3>1
      <4> QED
        BY <1>7, <4>1 DEF Range
    <3>2. CASE ~(j < p)
      <4>1. j - 1 \in 1 .. Len(s) - 1 /\ ~(j - 1 < p) /\ j - 1 + 1 = j
        BY <1>1, <2>2, <3>2
      <4>2. r[j - 1] = s[j]
        BY <1>6, <4>1
      <4> QED
        BY <1>7, <4>1, <4>2 DEF Range
    <3> QED
      BY <3>1, <3>2
  <2>3. Range(r) \subseteq Range(s) \ {s[p]}
    BY <1>7, <2>1 DEF Range
  <2>4. \A x \in Range(s) \ {s[p]} : \E j \in 1 .. Len(s) : j # p /\ x = s[j]
    BY <1>1 DEF Range
  <2> QED
    BY <2>2, <2>3, <2>4
<1> QED
  BY <1>5, <1>6, <1>8, <1>9 DEF r

\* The rows without session s.
LEMMA WithoutRow ==
  ASSUME SessionsTypeOK, NEW s
  PROVE  /\ s \notin Range(sessions) => Without(s) = sessions
         /\ s \in Range(sessions) =>
              \E p \in 1 .. Len(sessions) :
                /\ sessions[p] = s
                /\ Without(s) \in Seq(1 .. MaxLogins) /\ Len(Without(s)) = Len(sessions) - 1
                /\ Distinct(Without(s)) /\ Range(Without(s)) = Range(sessions) \ {s}
                /\ \A i \in 1 .. Len(sessions) - 1 : Without(s)[i] = IF i < p THEN sessions[i] ELSE sessions[i + 1]
<1>1. s \notin Range(sessions) => Without(s) = sessions
  BY DEF Without
<1>2. ASSUME s \in Range(sessions)
      PROVE  \E p \in 1 .. Len(sessions) :
                /\ sessions[p] = s
                /\ Without(s) \in Seq(1 .. MaxLogins) /\ Len(Without(s)) = Len(sessions) - 1
                /\ Distinct(Without(s)) /\ Range(Without(s)) = Range(sessions) \ {s}
                /\ \A i \in 1 .. Len(sessions) - 1 : Without(s)[i] = IF i < p THEN sessions[i] ELSE sessions[i + 1]
  <2> DEFINE p == CHOOSE i \in DOMAIN sessions : sessions[i] = s
  <2>1. sessions \in Seq(1 .. MaxLogins) /\ Distinct(sessions) /\ DOMAIN sessions = 1 .. Len(sessions)
    BY LenProperties DEF SessionsTypeOK, Distinct
  <2>2. \E i \in DOMAIN sessions : sessions[i] = s
    BY <1>2 DEF Range
  <2>3. p \in 1 .. Len(sessions) /\ sessions[p] = s
    BY <2>1, <2>2
  <2>4. Without(s) = RemoveAt(sessions, p)
    BY <1>2 DEF Without
  <2> DEFINE Ids == 1 .. MaxLogins
  <2> HIDE DEF p, Ids
  <2>5. /\ RemoveAt(sessions, p) \in Seq(Ids) /\ Len(RemoveAt(sessions, p)) = Len(sessions) - 1
        /\ Distinct(RemoveAt(sessions, p)) /\ Range(RemoveAt(sessions, p)) = Range(sessions) \ {sessions[p]}
        /\ \A i \in 1 .. Len(sessions) - 1 : RemoveAt(sessions, p)[i] = IF i < p THEN sessions[i] ELSE sessions[i + 1]
    <3>1. sessions \in Seq(Ids)
      BY <2>1 DEF Ids
    <3> QED
      BY <2>1, <2>3, <3>1, RemovedAt, ZenonT(60)
  <2> QED
    BY <2>3, <2>4, <2>5 DEF Ids
<1> QED
  BY <1>1, <1>2

\* The list a clean-up reads: what it leaves is maxSessions sessions at most, and each
\* session on it has as many behind it.
LEMMA ListRead ==
  ASSUME SessionsTypeOK, NEW T, T = Reverse(SubSeq(sessions, 1, Len(sessions) - maxSessions))
  PROVE  /\ T \in Seq(1 .. MaxLogins) /\ Range(T) \subseteq Range(sessions)
         /\ \A i \in 1 .. Len(sessions) : sessions[i] \in Range(T) => i + maxSessions <= Len(sessions)
         /\ Cardinality(Range(sessions) \ Range(T)) <= maxSessions
<1> DEFINE k == Len(sessions) - maxSessions
<1> DEFINE q == SubSeq(sessions, 1, k)
<1> DEFINE R == Range(sessions)
<1>1. /\ sessions \in Seq(1 .. MaxLogins) /\ Distinct(sessions) /\ DOMAIN sessions = 1 .. Len(sessions)
      /\ Len(sessions) \in Nat /\ \A i \in 1 .. Len(sessions) : sessions[i] \in 1 .. MaxLogins
  <2>1. sessions \in Seq(1 .. MaxLogins) /\ Distinct(sessions)
    BY DEF SessionsTypeOK, Distinct
  <2> QED
    BY <2>1, LenProperties
<1>2. IsFiniteSet(R) /\ Cardinality(R) = Len(sessions)
  BY <1>1, DistinctSize
<1>3. maxSessions \in Nat /\ k \in Int /\ k + maxSessions = Len(sessions)
  BY <1>1, SessionsAssumption
<1>4. T = [i \in 1 .. Len(q) |-> q[Len(q) - i + 1]]
  BY DEF Reverse
<1>5. CASE k <= 0
  <2>1. 1 .. k = {}
    BY <1>3, <1>5
  <2> HIDE DEF k
  <2>2. Len(q) = 0
    BY <1>3, <1>5, <2>1, SubSeqProperties
  <2> HIDE DEF q
  <2>3. 1 .. 0 = {}
    OBVIOUS
  <2>4. DOMAIN T = {} /\ T \in Seq(1 .. MaxLogins)
    <3>1. T = [i \in {} |-> q[Len(q) - i + 1]]
      BY <1>4, <2>2, <2>3
    <3>2. DOMAIN T = {}
      BY <3>1
    <3>3. T \in [1 .. 0 -> 1 .. MaxLogins] /\ 0 \in Nat
      BY <2>3, <3>1
    <3> QED
      BY <3>2, <3>3, SeqDef
  <2>5. Range(T) = {} /\ R \ Range(T) = R
    BY <2>4 DEF Range
  <2>6. Cardinality(R) <= maxSessions
    BY <1>1, <1>2, <1>3, <1>5
  <2> QED
    BY <2>4, <2>5, <2>6
<1>6. CASE ~(k <= 0)
  <2>1. k \in 1 .. Len(sessions)
    BY <1>1, <1>3, <1>6
  <2> HIDE DEF k
  <2>2. q \in Seq(1 .. MaxLogins) /\ Len(q) = k /\ \A i \in 1 .. k : q[i] = sessions[i]
    <3>1. 1 \in Int /\ k \in Int /\ \A i \in 1 .. k : sessions[i] \in 1 .. MaxLogins
      BY <1>1, <2>1
    <3>2. /\ q \in Seq(1 .. MaxLogins) /\ Len(q) = (IF 1 <= k THEN k - 1 + 1 ELSE 0)
          /\ \A i \in 1 .. k - 1 + 1 : q[i] = sessions[1 + i - 1]
      BY <3>1, SubSeqProperties
    <3> HIDE DEF q
    <3>3. k - 1 + 1 = k /\ 1 <= k /\ \A i \in 1 .. k : 1 + i - 1 = i
      BY <1>1, <2>1
    <3> QED
      BY <3>2, <3>3
  <2> HIDE DEF q
  <2>3. k \in Nat /\ \A i \in 1 .. k : k - i + 1 \in 1 .. k /\ k - (k - i + 1) + 1 = i /\ i \in 1 .. Len(sessions)
    BY <1>1, <2>1
  <2>4. DOMAIN T = 1 .. k /\ \A i \in 1 .. k : T[i] = sessions[k - i + 1]
    BY <1>4, <2>2, <2>3
  <2>5. T \in Seq(1 .. MaxLogins) /\ Len(T) = k
    <3>1. T = [i \in 1 .. k |-> sessions[k - i + 1]]
      BY <1>4, <2>2, <2>3
    <3>2. \A i \in 1 .. k : sessions[k - i + 1] \in 1 .. MaxLogins
      BY <1>1, <2>3
    <3>3. T \in [1 .. k -> 1 .. MaxLogins]
      BY <3>1, <3>2
    <3> QED
      <4>1. T \in Seq(1 .. MaxLogins)
        BY <2>3, <3>3, SeqDef
      <4>2. Len(T) \in Nat /\ 1 .. Len(T) = 1 .. k
        BY <2>4, <4>1, LenProperties
      <4>3. Cardinality(1 .. Len(T)) = Len(T) /\ Cardinality(1 .. k) = k
        BY <2>3, <4>2, IntervalSize
      <4> QED
        BY <4>1, <4>2, <4>3
  <2>6. Distinct(T)
    <3> SUFFICES ASSUME NEW i \in 1 .. k, NEW j \in 1 .. k, T[i] = T[j] PROVE i = j
      BY <2>4 DEF Distinct
    <3> DEFINE a == k - i + 1
    <3> DEFINE b == k - j + 1
    <3>2. a \in 1 .. Len(sessions) /\ b \in 1 .. Len(sessions) /\ sessions[a] = sessions[b]
      BY <2>3, <2>4
    <3> HIDE DEF a, b
    <3>3. a = b
      BY <1>1, <3>2 DEF Distinct
    <3>1. k - i + 1 = k - j + 1
      BY <3>3 DEF a, b
    <3> QED
      BY <2>3, <3>1
  <2>7. \A x : x \in Range(T) <=> \E i \in 1 .. k : x = sessions[i]
    <3>1. \A i \in 1 .. k : sessions[i] = T[k - i + 1] /\ k - i + 1 \in 1 .. k
      BY <2>3, <2>4
    <3>2. \A i \in 1 .. k : T[i] = sessions[k - i + 1] /\ k - i + 1 \in 1 .. k
      BY <2>3, <2>4
    <3>3. ASSUME NEW x \in Range(T) PROVE \E i \in 1 .. k : x = sessions[i]
      <4>1. PICK j \in 1 .. k : x = T[j]
        BY <2>4, <3>3 DEF Range
      <4> QED
        BY <3>2, <4>1
    <3>4. ASSUME NEW i \in 1 .. k PROVE sessions[i] \in Range(T)
      <4>1. PICK j \in 1 .. k : T[j] = sessions[i]
        BY <3>1
      <4> QED
        BY <2>4, <4>1 DEF Range
    <3> QED
      BY <3>3, <3>4
  <2>8. Range(T) \subseteq R
    BY <1>1, <2>3, <2>7 DEF Range
  <2>9. \A i \in 1 .. Len(sessions) : sessions[i] \in Range(T) => i + maxSessions <= Len(sessions)
    <3> SUFFICES ASSUME NEW i \in 1 .. Len(sessions), sessions[i] \in Range(T) PROVE i + maxSessions <= Len(sessions)
      OBVIOUS
    <3>1. i \in 1 .. k
      BY <1>1, <2>3, <2>7 DEF Distinct
    <3> QED
      BY <1>1, <1>3, <2>1, <3>1
  <2>10. Cardinality(Range(T)) = k /\ R \cap Range(T) = Range(T)
    BY <2>5, <2>6, <2>8, DistinctSize
  <2>11. Cardinality(R \ Range(T)) = Cardinality(R) - Cardinality(R \cap Range(T))
    BY <1>2, FS_Difference
  <2>12. Cardinality(R \ Range(T)) = maxSessions
    <3>1. \A n, x, y \in Int : x + y = n => n - x = y
      OBVIOUS
    <3>2. Cardinality(R \ Range(T)) = Len(sessions) - k
      BY <1>2, <2>10, <2>11
    <3> QED
      <4>1. Len(sessions) \in Int /\ k \in Int /\ maxSessions \in Int
        BY <1>1, <1>3
      <4> QED
        BY <1>3, <3>1, <3>2, <4>1, Zenon
  <2> QED
    BY <1>3, <2>5, <2>8, <2>9, <2>12
<1> QED
  BY <1>5, <1>6, <1>3

\* The parts of the state.
LEMMA SessionSizes ==
  ASSUME SessionsTypeOK
  PROVE  /\ Len(sessions) \in Nat /\ DOMAIN sessions = 1 .. Len(sessions)
         /\ \A i \in 1 .. Len(sessions) : sessions[i] \in 1 .. MaxLogins
         /\ Distinct(sessions) /\ sessions \in Seq(1 .. MaxLogins) /\ Range(sessions) \subseteq 1 .. MaxLogins
         /\ IsFiniteSet(Range(sessions)) /\ Cardinality(Range(sessions)) = Len(sessions)
         /\ \A l \in Login : login[l] \in LoginRecord /\ login[l].toDelete \in Seq(1 .. MaxLogins)
         /\ \A l \in Login : login[l].pc \in {"idle", "cleaning", "inserting"} /\ login[l].id \in 0 .. MaxLogins
         /\ IsFiniteSet(Cleaning) /\ IsFiniteSet(Inserting)
         /\ Cardinality(Cleaning) \in Nat /\ Cardinality(Inserting) \in Nat /\ Cardinality(Login) \in Nat
         /\ Cardinality(Cleaning) + Cardinality(Inserting) <= Cardinality(Login)
         /\ maxSessions \in Nat /\ maxSessions > 0 /\ failures \in Nat /\ MaxLogins \in Nat /\ MaxUses \in Nat
         /\ logins \in Nat /\ uses \in Nat
<1>1. sessions \in Seq(1 .. MaxLogins) /\ Distinct(sessions)
  BY DEF SessionsTypeOK, Distinct
<1>2. /\ Len(sessions) \in Nat /\ DOMAIN sessions = 1 .. Len(sessions)
      /\ \A i \in 1 .. Len(sessions) : sessions[i] \in 1 .. MaxLogins
  BY <1>1, LenProperties
<1>3. IsFiniteSet(Range(sessions)) /\ Cardinality(Range(sessions)) = Len(sessions)
  BY <1>1, DistinctSize
<1>4. \A l \in Login : login[l] \in LoginRecord
  BY DEF SessionsTypeOK
<1>5. \A l \in Login : /\ login[l].toDelete \in Seq(1 .. MaxLogins) /\ login[l].pc \in {"idle", "cleaning", "inserting"}
                       /\ login[l].id \in 0 .. MaxLogins
  BY <1>4 DEF LoginRecord
<1>6. IsFiniteSet(Login) /\ Cleaning \in SUBSET Login /\ Inserting \in SUBSET Login /\ Cleaning \cap Inserting = {}
  BY SessionsAssumption DEF Cleaning, Inserting
<1>7. /\ IsFiniteSet(Cleaning) /\ IsFiniteSet(Inserting)
      /\ Cardinality(Cleaning) \in Nat /\ Cardinality(Inserting) \in Nat /\ Cardinality(Login) \in Nat
  BY <1>6, FS_Subset, FS_CardinalityType
<1>8. Cardinality(Cleaning) + Cardinality(Inserting) <= Cardinality(Login)
  <2>1. Cardinality(Cleaning \cup Inserting) = Cardinality(Cleaning) + Cardinality(Inserting) - Cardinality({})
    BY <1>6, <1>7, FS_Union
  <2>2. Cleaning \cup Inserting \in SUBSET Login
    BY <1>6
  <2>3. Cardinality(Cleaning \cup Inserting) <= Cardinality(Login)
    BY <1>6, <2>2, FS_Subset
  <2>4. Cardinality({}) = 0
    BY FS_EmptySet
  <2> QED
    BY <1>7, <2>1, <2>3, <2>4
<1>9. /\ maxSessions \in Nat /\ maxSessions > 0 /\ failures \in Nat /\ MaxLogins \in Nat /\ MaxUses \in Nat
      /\ logins \in Nat /\ uses \in Nat
  BY SessionsAssumption DEF SessionsTypeOK
<1> QED
  BY <1>1, <1>2, <1>3, <1>4, <1>5, <1>7, <1>8, <1>9, RangeOf

\* Logins at two different points.
LEMMA DisjointParts ==
  ASSUME NEW A, NEW B, A \subseteq Login, B \subseteq Login, A \cap B = {}
  PROVE  Cardinality(A) + Cardinality(B) <= Cardinality(Login)
<1>1. IsFiniteSet(Login)
  BY SessionsAssumption
<1>2. IsFiniteSet(A) /\ IsFiniteSet(B) /\ Cardinality(A) \in Nat /\ Cardinality(B) \in Nat /\ Cardinality(Login) \in Nat
  BY <1>1, PartSize
<1>3. Cardinality(A \cup B) = Cardinality(A) + Cardinality(B) - Cardinality(A \cap B)
  BY <1>2, FS_Union
<1>4. Cardinality(A \cap B) = 0
  BY FS_EmptySet
<1>5. Cardinality(A \cup B) <= Cardinality(Login)
  BY <1>1, PartSize
<1> QED
  BY <1>2, <1>3, <1>4, <1>5

\* The logins after one of them has moved.
LEMMA LoginMoves ==
  ASSUME login \in [Login -> LoginRecord], NEW l \in Login, NEW rec \in LoginRecord,
         login' = [login EXCEPT ![l] = rec]
  PROVE  login' \in [Login -> LoginRecord] /\ login'[l] = rec /\ \A m \in Login : m # l => login'[m] = login[m]
  OBVIOUS

\* The record of a login that has come further.
LEMMA LoginRewritten ==
  ASSUME NEW r \in LoginRecord, NEW x
  PROVE  /\ [r EXCEPT !.toDelete = x] = [pc |-> r.pc, toDelete |-> x, id |-> r.id]
         /\ [r EXCEPT !.pc = x] = [pc |-> x, toDelete |-> r.toDelete, id |-> r.id]
  BY DEF LoginRecord

\* A login reads which sessions it will delete.
LEMMA CleanupBegins ==
  ASSUME SessionsInv, NEW l \in Login, CleanupUserSessions(l)
  PROVE  SessionsInv'
<1> DEFINE T == Reverse(SubSeq(sessions, 1, Len(sessions) - maxSessions))
<1> DEFINE rec == [pc |-> "cleaning", toDelete |-> T, id |-> logins + 1]
<1>0. SessionsTypeOK /\ SessionsKeyed /\ ListedAreOld /\ Crowd
  BY DEF SessionsInv
<1>1. /\ login[l].pc = "idle" /\ logins < MaxLogins /\ logins' = logins + 1 /\ login' = [login EXCEPT ![l] = rec]
      /\ sessions' = sessions /\ refresh' = refresh /\ uses' = uses /\ failures' = failures /\ overtaken' = overtaken
  BY DEF CleanupUserSessions
<1>2. /\ T \in Seq(1 .. MaxLogins) /\ Range(T) \subseteq Range(sessions)
      /\ \A i \in 1 .. Len(sessions) : sessions[i] \in Range(T) => i + maxSessions <= Len(sessions)
      /\ Cardinality(Range(sessions) \ Range(T)) <= maxSessions
  BY <1>0, ListRead
<1> HIDE DEF T
<1>3. rec \in LoginRecord /\ rec.pc = "cleaning" /\ rec.toDelete = T /\ rec.id = logins + 1
  BY <1>0, <1>1, <1>2, SessionSizes DEF LoginRecord
<1> HIDE DEF rec
<1>4. /\ login' \in [Login -> LoginRecord] /\ login'[l].pc = "cleaning" /\ login'[l].toDelete = T
      /\ login'[l].id = logins + 1 /\ \A m \in Login : m # l => login'[m] = login[m]
  <2>1. login \in [Login -> LoginRecord]
    BY <1>0 DEF SessionsTypeOK
  <2> QED
    BY <1>1, <1>3, <2>1, LoginMoves
<1>5. SessionsTypeOK'
  <2>1. logins' \in 0 .. MaxLogins
    BY <1>0, <1>1, SessionSizes
  <2> QED
    BY <1>0, <1>1, <1>4, <2>1 DEF SessionsTypeOK
<1>6. SessionsKeyed'
  <2>1. logins \in Nat /\ \A k \in Nat : k <= logins => k <= logins' /\ k # logins + 1
    BY <1>0, <1>1, SessionSizes
  <2>2. \A x \in Range(sessions) : x \in Nat /\ x <= logins
    BY <1>0, SessionSizes DEF SessionsKeyed
  <2>3. \A m \in Login : login[m].id \in Nat /\ login[m].id <= logins
    BY <1>0, SessionSizes DEF SessionsKeyed
  <2>4. \A m \in Login : \A x \in Range(login[m].toDelete) : x \in Nat /\ x <= logins
    <3> SUFFICES ASSUME NEW m \in Login, NEW x \in Range(login[m].toDelete) PROVE x \in Nat /\ x <= logins
      OBVIOUS
    <3>1. login[m].toDelete \in Seq(1 .. MaxLogins)
      BY <1>0, SessionSizes
    <3>2. x \in 1 .. MaxLogins
      BY <3>1, RangeOf
    <3> QED
      BY <1>0, <3>2 DEF SessionsKeyed
  <2>5. \A m \in Login : \A x \in Range(login'[m].toDelete) : x \in Nat /\ x <= logins
    BY <1>2, <1>4, <2>2, <2>4
  <2>6. \A m \in Login : /\ login'[m].id <= logins' /\ (\A x \in Range(login'[m].toDelete) : x <= logins')
                         /\ (login'[m].pc # "cleaning" => login'[m].toDelete = <<>>)
    <3>1. \A m \in Login : login'[m].id <= logins'
      BY <1>1, <1>4, <2>1, <2>3
    <3>2. \A m \in Login : login'[m].pc # "cleaning" => login'[m].toDelete = <<>>
      BY <1>0, <1>4 DEF SessionsKeyed
    <3> QED
      BY <2>1, <2>5, <3>1, <3>2
  <2>7. ASSUME NEW m \in Login, login'[m].pc # "idle"
        PROVE  /\ login'[m].id > 0 /\ login'[m].id \notin Range(sessions)
               /\ \A o \in Login : login'[m].id \notin Range(login'[o].toDelete)
               /\ \A o \in Login : login'[o].pc # "idle" /\ login'[o].id = login'[m].id => o = m
    <3>1. CASE m = l
      BY <1>4, <2>1, <2>2, <2>3, <2>5, <3>1
    <3>2. CASE m # l
      <4>1. /\ login'[m] = login[m] /\ login[m].pc # "idle"
        BY <1>4, <2>7, <3>2
      <4>2. /\ login[m].id > 0 /\ login[m].id \notin Range(sessions)
            /\ \A o \in Login : login[m].id \notin Range(login[o].toDelete)
            /\ \A o \in Login : login[o].pc # "idle" /\ login[o].id = login[m].id => o = m
        BY <1>0, <4>1 DEF SessionsKeyed
      <4>3. \A o \in Login : login[m].id \notin Range(login'[o].toDelete)
        BY <1>2, <1>4, <4>2
      <4>4. login[m].id # logins + 1
        BY <2>1, <2>3
      <4> QED
        BY <1>4, <4>1, <4>2, <4>3, <4>4
    <3> QED
      BY <3>1, <3>2
  <2>8. failures' <= uses' /\ \A x \in Range(sessions') : x <= logins'
    BY <1>0, <1>1, <2>1, <2>2 DEF SessionsKeyed
  <2> QED
    BY <1>1, <2>6, <2>7, <2>8 DEF SessionsKeyed
<1>7. ListedAreOld'
  BY <1>0, <1>1, <1>2, <1>4 DEF ListedAreOld
<1>8. Crowd'
  <2>1. l \notin Cleaning /\ l \notin Inserting /\ Cleaning' = Cleaning \cup {l} /\ Inserting' = Inserting
    BY <1>1, <1>4 DEF Cleaning, Inserting
  <2>2. Limit' = Limit /\ Limit \in Nat /\ failures \in Nat /\ maxSessions \in Nat /\ Cardinality(Login) \in Nat
    BY <1>0, <1>1, SessionSizes DEF Limit
  <2>3. \A m \in Cleaning : m \in Login /\ m # l /\ login'[m] = login[m] /\ login[m].id \in Nat /\ login[m].id <= logins
    BY <1>0, <1>4, <2>1, SessionSizes DEF Cleaning, SessionsKeyed
  <2>4. \A m \in Cleaning : ToKeep(m)' = ToKeep(m)
    BY <1>1, <2>3 DEF ToKeep
  <2>5. \A m \in Cleaning : Before(m)' = Before(m)
    <3> SUFFICES ASSUME NEW m \in Cleaning PROVE Before(m)' = Before(m)
      OBVIOUS
    <3>1. logins \in Nat /\ ~(logins + 1 <= login[m].id)
      BY <1>0, <2>3, SessionSizes
    <3> QED
      BY <1>4, <2>1, <2>3, <3>1 DEF Before
  <2>6. \A m \in Cleaning : Cardinality(ToKeep(m)') + Cardinality(Inserting') + Cardinality(Before(m)') <= Limit'
    BY <1>0, <2>1, <2>2, <2>4, <2>5 DEF Crowd
  <2>7. Cardinality(ToKeep(l)') + Cardinality(Inserting') + Cardinality(Before(l)') <= Limit'
    <3>1. Cardinality(ToKeep(l)') <= maxSessions /\ Cardinality(ToKeep(l)') \in Nat
      <4>1. ToKeep(l)' = Range(sessions) \ Range(T)
        BY <1>1, <1>4 DEF ToKeep
      <4>2. IsFiniteSet(Range(sessions)) /\ Range(sessions) \ Range(T) \subseteq Range(sessions)
        BY <1>0, SessionSizes
      <4> QED
        BY <1>2, <4>1, <4>2, PartSize
    <3>2. Before(l)' \subseteq Login /\ Inserting' \subseteq Login /\ Before(l)' \cap Inserting' = {}
      BY DEF Before, Cleaning, Inserting
    <3>3. Cardinality(Before(l)') + Cardinality(Inserting') <= Cardinality(Login)
      BY <3>2, DisjointParts
    <3>4. Cardinality(Before(l)') \in Nat /\ Cardinality(Inserting') \in Nat
      BY <3>2, PartSize, SessionsAssumption
    <3> QED
      BY <2>2, <3>1, <3>3, <3>4 DEF Limit
  <2>8. Cardinality(Range(sessions')) + Cardinality(Inserting') <= Limit'
    BY <1>0, <1>1, <2>1, <2>2 DEF Crowd
  <2> QED
    BY <2>1, <2>6, <2>7, <2>8 DEF Crowd
<1> QED
  BY <1>5, <1>6, <1>7, <1>8 DEF SessionsInv

\* The ids while no login begins.
LEMMA KeysKept ==
  ASSUME SessionsKeyed, logins' = logins, failures' <= uses',
         \A x \in Range(sessions') : x <= logins,
         \A m \in Login : login'[m].id = login[m].id /\ Range(login'[m].toDelete) \subseteq Range(login[m].toDelete),
         \A m \in Login : login'[m].pc # "cleaning" => login'[m].toDelete = <<>>,
         \A m \in Login : login'[m].pc # "idle" => login[m].pc # "idle" /\ login[m].id \notin Range(sessions')
  PROVE  SessionsKeyed'
<1>1. \A m \in Login : /\ login'[m].id <= logins' /\ (\A x \in Range(login'[m].toDelete) : x <= logins')
                       /\ (login'[m].pc # "cleaning" => login'[m].toDelete = <<>>)
  BY DEF SessionsKeyed
<1>2. ASSUME NEW m \in Login, login'[m].pc # "idle"
      PROVE  /\ login'[m].id > 0 /\ login'[m].id \notin Range(sessions')
             /\ \A o \in Login : login'[m].id \notin Range(login'[o].toDelete)
             /\ \A o \in Login : login'[o].pc # "idle" /\ login'[o].id = login'[m].id => o = m
  <2>1. login[m].pc # "idle" /\ login'[m].id = login[m].id
    BY <1>2
  <2>2. /\ login[m].id > 0 /\ \A o \in Login : login[m].id \notin Range(login[o].toDelete)
        /\ \A o \in Login : login[o].pc # "idle" /\ login[o].id = login[m].id => o = m
    BY <2>1 DEF SessionsKeyed
  <2> QED
    BY <1>2, <2>1, <2>2
<1> QED
  BY <1>1, <1>2 DEF SessionsKeyed

\* The numbers of logins and sessions are finite.
LEMMA CrowdSizes ==
  ASSUME SessionsTypeOK
  PROVE  /\ Limit \in Nat /\ \A l \in Login : Cardinality(ToKeep(l)) \in Nat /\ IsFiniteSet(ToKeep(l))
         /\ \A l \in Login : Cardinality(Before(l)) \in Nat /\ IsFiniteSet(Before(l))
<1>1. IsFiniteSet(Range(sessions)) /\ IsFiniteSet(Cleaning) /\ Limit \in Nat
  BY SessionSizes DEF Limit
<1>2. \A l \in Login : ToKeep(l) \subseteq Range(sessions) /\ Before(l) \subseteq Cleaning
  BY DEF ToKeep, Before
<1> QED
  BY <1>1, <1>2, PartSize

\* While no login moves on, fewer sessions are a smaller crowd.
LEMMA CrowdShrinks ==
  ASSUME SessionsTypeOK, Crowd, failures' = failures, Range(sessions') \subseteq Range(sessions),
         \A m \in Login : login'[m].id = login[m].id /\ login'[m].pc = login[m].pc,
         \A m \in Cleaning : ToKeep(m)' \subseteq ToKeep(m)
  PROVE  Crowd'
<1>1. Cleaning' = Cleaning /\ Inserting' = Inserting /\ Limit' = Limit
  BY DEF Cleaning, Inserting, Limit
<1>2. \A m \in Cleaning : m \in Login /\ Before(m)' = Before(m)
  BY <1>1 DEF Before, Cleaning
<1>3. /\ Limit \in Nat /\ Cardinality(Inserting) \in Nat /\ IsFiniteSet(Range(sessions))
      /\ \A m \in Login : IsFiniteSet(ToKeep(m)) /\ Cardinality(Before(m)) \in Nat
  BY SessionSizes, CrowdSizes
<1>4. /\ Cardinality(Range(sessions')) \in Nat /\ Cardinality(Range(sessions)) \in Nat
      /\ Cardinality(Range(sessions')) <= Cardinality(Range(sessions))
  BY <1>3, PartSize
<1>5. ASSUME NEW m \in Cleaning
      PROVE  Cardinality(ToKeep(m)') + Cardinality(Inserting') + Cardinality(Before(m)') <= Limit'
  <2>1. /\ Cardinality(ToKeep(m)') \in Nat /\ Cardinality(ToKeep(m)) \in Nat
        /\ Cardinality(ToKeep(m)') <= Cardinality(ToKeep(m))
    BY <1>2, <1>3, PartSize
  <2>2. Cardinality(ToKeep(m)) + Cardinality(Inserting) + Cardinality(Before(m)) <= Limit
    BY DEF Crowd
  <2>3. Cardinality(Before(m)) \in Nat /\ Before(m)' = Before(m)
    BY <1>2, <1>3
  <2> QED
    BY <1>1, <1>3, <2>1, <2>2, <2>3
<1>6. Cardinality(Range(sessions')) + Cardinality(Inserting') <= Limit'
  <2>1. Cardinality(Range(sessions)) + Cardinality(Inserting) <= Limit
    BY DEF Crowd
  <2> QED
    BY <1>1, <1>3, <1>4, <2>1
<1> QED
  BY <1>1, <1>5, <1>6 DEF Crowd

\* A login deletes the next session of its list.
LEMMA Deletes ==
  ASSUME SessionsInv, NEW l \in Login, DeleteSession(l)
  PROVE  SessionsInv' /\ (Len(sessions') < Len(sessions) => overtaken \/ Len(sessions') >= maxSessions)
<1> DEFINE T == login[l].toDelete
<1> DEFINE h == Head(T)
<1> DEFINE rec == [pc |-> login[l].pc, toDelete |-> Tail(T), id |-> login[l].id]
<1>0. SessionsTypeOK /\ SessionsKeyed /\ ListedAreOld /\ Crowd
  BY DEF SessionsInv
<1>1. /\ login[l].pc = "cleaning" /\ T # <<>> /\ sessions' = Without(h)
      /\ login' = [login EXCEPT ![l].toDelete = Tail(@)]
      /\ refresh' = refresh /\ logins' = logins /\ uses' = uses /\ failures' = failures /\ overtaken' = overtaken
  BY DEF DeleteSession
<1>2. T \in Seq(1 .. MaxLogins) /\ login[l] \in LoginRecord /\ login \in [Login -> LoginRecord]
  BY <1>0, SessionSizes DEF SessionsTypeOK
<1>3. login' = [login EXCEPT ![l] = rec] /\ rec \in LoginRecord
  <2>1. Tail(T) \in Seq(1 .. MaxLogins)
    <3> HIDE DEF T
    <3> QED
      BY <1>1, <1>2, HeadTailProperties
  <2>2. rec \in LoginRecord
    BY <1>2, <2>1 DEF LoginRecord
  <2>3. login' = [login EXCEPT ![l] = [login[l] EXCEPT !.toDelete = Tail(T)]]
    BY <1>1, <1>2
  <2>4. [login[l] EXCEPT !.toDelete = Tail(T)] = rec
    <3> HIDE DEF T
    <3> QED
      BY <1>2, LoginRewritten
  <2> QED
    BY <2>2, <2>3, <2>4
<1>4. Tail(T) \in Seq(1 .. MaxLogins) /\ h \in Range(T) /\ Range(T) = {h} \cup Range(Tail(T))
  <2> HIDE DEF T
  <2>1. /\ Len(T) \in Nat /\ Len(T) # 0 /\ DOMAIN T = 1 .. Len(T) /\ Tail(T) \in Seq(1 .. MaxLogins) /\ h = T[1]
        /\ Len(Tail(T)) = Len(T) - 1 /\ \A i \in 1 .. Len(T) - 1 : Tail(T)[i] = T[i + 1]
    BY <1>1, <1>2, HeadTailProperties, LenProperties, EmptySeq
  <2>2. DOMAIN Tail(T) = 1 .. Len(T) - 1
    BY <2>1, LenProperties
  <2>3. \A i \in 1 .. Len(T) : i = 1 \/ (i - 1 \in 1 .. Len(T) - 1 /\ i - 1 + 1 = i)
    BY <2>1
  <2>4. 1 \in 1 .. Len(T) /\ \A i \in 1 .. Len(T) - 1 : i + 1 \in 1 .. Len(T)
    BY <2>1
  <2>5. h \in Range(T)
    BY <2>1, <2>4 DEF Range
  <2>6. Range(Tail(T)) \subseteq Range(T)
    BY <2>1, <2>2, <2>4 DEF Range
  <2>7. ASSUME NEW i \in 1 .. Len(T) PROVE T[i] \in {h} \cup Range(Tail(T))
    <3>1. CASE i = 1
      BY <2>1, <3>1
    <3>2. CASE i # 1
      <4>1. Tail(T)[i - 1] = T[i] /\ i - 1 \in DOMAIN Tail(T)
        BY <2>1, <2>2, <2>3, <3>2
      <4> QED
        BY <4>1 DEF Range
    <3> QED
      BY <3>1, <3>2
  <2>8. Range(T) \subseteq {h} \cup Range(Tail(T))
    BY <2>1, <2>7 DEF Range
  <2> QED
    BY <2>1, <2>5, <2>6, <2>8
<1>5. /\ login' \in [Login -> LoginRecord] /\ login'[l].pc = login[l].pc /\ login'[l].toDelete = Tail(T)
      /\ login'[l].id = login[l].id /\ \A m \in Login : m # l => login'[m] = login[m]
  BY <1>2, <1>3, LoginMoves
<1> HIDE DEF T, h, rec
<1>6. /\ \A m \in Login : login'[m].id = login[m].id /\ login'[m].pc = login[m].pc
      /\ \A m \in Login : Range(login'[m].toDelete) \subseteq Range(login[m].toDelete)
  BY <1>4, <1>5 DEF T
<1>7. /\ sessions' \in Seq(1 .. MaxLogins) /\ Distinct(sessions') /\ Range(sessions') = Range(sessions) \ {h}
      /\ (Len(sessions') < Len(sessions) => overtaken \/ Len(sessions') >= maxSessions)
      /\ ListedAreOld'
  <2>1. CASE h \notin Range(sessions)
    <3>1. sessions' = sessions
      BY <1>0, <1>1, <2>1, WithoutRow
    <3>2. ListedAreOld'
      BY <1>0, <1>1, <1>6, <3>1 DEF ListedAreOld
    <3> QED
      BY <1>0, <2>1, <3>1, <3>2, SessionSizes
  <2>2. CASE h \in Range(sessions)
    <3>1. PICK p \in 1 .. Len(sessions) :
            /\ sessions[p] = h
            /\ sessions' \in Seq(1 .. MaxLogins) /\ Len(sessions') = Len(sessions) - 1
            /\ Distinct(sessions') /\ Range(sessions') = Range(sessions) \ {h}
            /\ \A i \in 1 .. Len(sessions) - 1 : sessions'[i] = IF i < p THEN sessions[i] ELSE sessions[i + 1]
      BY <1>0, <1>1, <2>2, WithoutRow
    <3>2. Len(sessions) \in Nat /\ maxSessions \in Nat
      BY <1>0, SessionSizes
    <3>3. ~overtaken => p + maxSessions <= Len(sessions)
      BY <1>0, <1>4, <3>1 DEF ListedAreOld, T
    <3>4. Len(sessions') < Len(sessions) => overtaken \/ Len(sessions') >= maxSessions
      BY <3>1, <3>2, <3>3
    <3>5. ASSUME ~overtaken, NEW m \in Login, NEW i \in 1 .. Len(sessions'),
                 sessions'[i] \in Range(login'[m].toDelete)
          PROVE  i + maxSessions <= Len(sessions')
      <4>1. i \in 1 .. Len(sessions) - 1 /\ sessions'[i] \in Range(login[m].toDelete)
        BY <1>6, <3>1, <3>5
      <4>2. CASE i < p
        BY <3>1, <3>2, <3>3, <3>5, <4>1, <4>2
      <4>3. CASE ~(i < p)
        <5>1. i + 1 \in 1 .. Len(sessions) /\ sessions[i + 1] \in Range(login[m].toDelete)
          BY <3>1, <3>2, <4>1, <4>3
        <5>2. i + 1 + maxSessions <= Len(sessions)
          BY <1>0, <3>5, <5>1 DEF ListedAreOld
        <5> QED
          BY <3>1, <3>2, <4>1, <5>2
      <4> QED
        BY <4>2, <4>3
    <3>6. ListedAreOld'
      BY <1>1, <3>5 DEF ListedAreOld
    <3> QED
      BY <3>1, <3>4, <3>6
  <2> QED
    BY <2>1, <2>2
<1>8. SessionsTypeOK'
  BY <1>0, <1>1, <1>5, <1>7 DEF SessionsTypeOK, Distinct
<1>9. SessionsKeyed'
  <2>1. failures' <= uses' /\ \A x \in Range(sessions') : x <= logins
    BY <1>0, <1>1, <1>7 DEF SessionsKeyed
  <2>2. \A m \in Login : login'[m].pc # "cleaning" => login'[m].toDelete = <<>>
    BY <1>0, <1>1, <1>5 DEF SessionsKeyed
  <2>3. \A m \in Login : login'[m].pc # "idle" => login[m].pc # "idle" /\ login[m].id \notin Range(sessions')
    BY <1>0, <1>6, <1>7 DEF SessionsKeyed
  <2> QED
    BY <1>0, <1>1, <1>6, <2>1, <2>2, <2>3, KeysKept
<1>10. Crowd'
  <2>1. Range(sessions') \subseteq Range(sessions)
    BY <1>7
  <2>2. \A m \in Cleaning : ToKeep(m)' \subseteq ToKeep(m)
    <3> SUFFICES ASSUME NEW m \in Cleaning PROVE ToKeep(m)' \subseteq ToKeep(m)
      OBVIOUS
    <3>1. CASE m = l
      BY <1>4, <1>5, <1>7, <3>1 DEF ToKeep, T
    <3>2. CASE m # l
      <4>1. m \in Login
        BY DEF Cleaning
      <4> QED
        BY <1>5, <1>7, <3>2, <4>1 DEF ToKeep
    <3> QED
      BY <3>1, <3>2
  <2> QED
    BY <1>0, <1>1, <1>6, <2>1, <2>2, CrowdShrinks
<1> QED
  BY <1>7, <1>8, <1>9, <1>10 DEF SessionsInv

\* A clean-up is over, whether it failed or not.
LEMMA CleanupEnds ==
  ASSUME SessionsInv, NEW l \in Login, CleanupFails(l) \/ CleanupDone(l)
  PROVE  SessionsInv' /\ sessions' = sessions
<1> DEFINE rec == [pc |-> "inserting", toDelete |-> <<>>, id |-> login[l].id]
<1>0. SessionsTypeOK /\ SessionsKeyed /\ ListedAreOld /\ Crowd
  BY DEF SessionsInv
<1>1. /\ login[l].pc = "cleaning" /\ sessions' = sessions /\ refresh' = refresh /\ logins' = logins
      /\ overtaken' = overtaken
      /\ \/ failures' = failures + 1 /\ uses' = uses + 1 /\ uses < MaxUses
         \/ failures' = failures /\ uses' = uses /\ login[l].toDelete = <<>>
  BY DEF CleanupFails, CleanupDone
<1>2. login[l] \in LoginRecord /\ login \in [Login -> LoginRecord] /\ login[l].id \in 0 .. MaxLogins
  BY <1>0, SessionSizes DEF SessionsTypeOK
<1>3. login' = [login EXCEPT ![l] = rec] /\ rec \in LoginRecord
  <2>1. rec \in LoginRecord
    BY <1>2, EmptySeq DEF LoginRecord
  <2>2. CASE CleanupFails(l)
    BY <2>1, <2>2 DEF CleanupFails
  <2>3. CASE CleanupDone(l)
    <3>1. login' = [login EXCEPT ![l] = [login[l] EXCEPT !.pc = "inserting"]] /\ login[l].toDelete = <<>>
      BY <1>2, <2>3 DEF CleanupDone
    <3>2. [login[l] EXCEPT !.pc = "inserting"] = rec
      BY <1>2, <3>1, LoginRewritten
    <3> QED
      BY <2>1, <3>1, <3>2
  <2> QED
    BY <2>2, <2>3
<1>4. /\ login' \in [Login -> LoginRecord] /\ login'[l].pc = "inserting" /\ login'[l].toDelete = <<>>
      /\ login'[l].id = login[l].id /\ \A m \in Login : m # l => login'[m] = login[m]
  BY <1>2, <1>3, LoginMoves
<1> HIDE DEF rec
<1>5. Range(<<>>) = {}
  BY DEF Range
<1>6. \A m \in Login : login'[m].id = login[m].id /\ Range(login'[m].toDelete) \subseteq Range(login[m].toDelete)
  BY <1>4, <1>5
<1>7. /\ failures \in Nat /\ uses \in Nat /\ MaxUses \in Nat /\ failures' \in Nat /\ failures <= failures'
      /\ failures' <= uses' /\ uses' \in 0 .. MaxUses /\ failures' \in 0 .. MaxUses
  <2>1. failures \in Nat /\ uses \in Nat /\ MaxUses \in Nat /\ failures <= uses /\ uses <= MaxUses
    BY <1>0, SessionSizes DEF SessionsKeyed, SessionsTypeOK
  <2> QED
    BY <1>1, <2>1
<1>8. SessionsTypeOK'
  BY <1>0, <1>1, <1>4, <1>7 DEF SessionsTypeOK
<1>9. SessionsKeyed'
  <2>1. \A x \in Range(sessions') : x <= logins
    BY <1>0, <1>1 DEF SessionsKeyed
  <2>2. \A m \in Login : login'[m].pc # "cleaning" => login'[m].toDelete = <<>>
    BY <1>0, <1>4 DEF SessionsKeyed
  <2>3. \A m \in Login : login'[m].pc # "idle" => login[m].pc # "idle" /\ login[m].id \notin Range(sessions')
    <3>1. \A m \in Login : login'[m].pc # "idle" => login[m].pc # "idle"
      BY <1>1, <1>4
    <3> QED
      BY <1>0, <1>1, <3>1 DEF SessionsKeyed
  <2> QED
    BY <1>0, <1>1, <1>6, <1>7, <2>1, <2>2, <2>3, KeysKept
<1>10. ListedAreOld'
  BY <1>0, <1>1, <1>6 DEF ListedAreOld
<1>11. Crowd'
  <2>1. l \in Cleaning /\ l \notin Inserting /\ Cleaning' = Cleaning \ {l} /\ Inserting' = Inserting \cup {l}
    BY <1>1, <1>4 DEF Cleaning, Inserting
  <2>2. Cardinality(Inserting) \in Nat /\ Cardinality(Inserting') = Cardinality(Inserting) + 1
    BY <1>0, <2>1, SessionSizes, FS_AddElement
  <2>3. /\ Limit \in Nat /\ Limit' \in Nat /\ Limit <= Limit' /\ Limit' = Limit + (failures' - failures)
    <3>1. maxSessions \in Nat /\ Cardinality(Login) \in Nat
      BY <1>0, SessionSizes
    <3> QED
      BY <1>7, <3>1 DEF Limit
  <2>4. ASSUME NEW m \in Cleaning'
        PROVE  /\ m \in Login /\ m \in Cleaning /\ m # l /\ login'[m] = login[m] /\ ToKeep(m)' = ToKeep(m)
               /\ Before(m)' = Before(m) \ {l}
               /\ Cardinality(ToKeep(m)) \in Nat /\ Cardinality(Before(m)) \in Nat
               /\ Cardinality(Before(m)') \in Nat /\ Cardinality(Before(m)') <= Cardinality(Before(m))
               /\ (l \in Before(m) => Cardinality(Before(m)') = Cardinality(Before(m)) - 1)
    <3>1. m \in Login /\ m \in Cleaning /\ m # l /\ login'[m] = login[m]
      BY <1>4, <2>1 DEF Cleaning
    <3>2. ToKeep(m)' = ToKeep(m)
      BY <1>1, <3>1 DEF ToKeep
    <3>3. Before(m)' = Before(m) \ {l}
      <4>1. \A o \in Cleaning : o # l => login'[o] = login[o]
        BY <1>4 DEF Cleaning
      <4> QED
        BY <2>1, <3>1, <4>1 DEF Before
    <3>4. IsFiniteSet(Before(m)) /\ Cardinality(Before(m)) \in Nat /\ Cardinality(ToKeep(m)) \in Nat
      BY <1>0, <3>1, CrowdSizes
    <3>5. Cardinality(Before(m) \ {l}) = IF l \in Before(m) THEN Cardinality(Before(m)) - 1 ELSE Cardinality(Before(m))
      BY <3>4, FS_RemoveElement
    <3>6. Cardinality(Before(m) \ {l}) \in Nat
      BY <3>4, PartSize
    <3> QED
      BY <3>1, <3>2, <3>3, <3>4, <3>5, <3>6
  <2>5. Cardinality(Range(sessions)) \in Nat /\ Cardinality(Range(sessions)) + Cardinality(Inserting) <= Limit
    BY <1>0, SessionSizes DEF Crowd
  <2>6. \A m \in Cleaning : Cardinality(ToKeep(m)) + Cardinality(Inserting) + Cardinality(Before(m)) <= Limit
    BY <1>0 DEF Crowd
  <2>7. CASE failures' = failures + 1
    <3>1. Limit' = Limit + 1
      BY <1>7, <2>3, <2>7
    <3>2. Cardinality(Range(sessions')) + Cardinality(Inserting') <= Limit'
      BY <1>1, <2>2, <2>3, <2>5, <3>1
    <3>3. ASSUME NEW m \in Cleaning'
          PROVE  Cardinality(ToKeep(m)') + Cardinality(Inserting') + Cardinality(Before(m)') <= Limit'
      BY <2>2, <2>3, <2>4, <2>6, <3>1
    <3> QED
      BY <3>2, <3>3 DEF Crowd
  <2>8. CASE failures' = failures /\ login[l].toDelete = <<>>
    <3>1. Limit' = Limit /\ ToKeep(l) = Range(sessions)
      <4>1. Limit' = Limit
        BY <1>7, <2>3, <2>8
      <4>2. Range(login[l].toDelete) = {}
        BY <2>8 DEF Range
      <4>3. ToKeep(l) = Range(sessions)
        BY <4>2 DEF ToKeep
      <4> QED
        BY <4>1, <4>3
    <3>2. Cardinality(Range(sessions)) + Cardinality(Inserting) + Cardinality(Before(l)) <= Limit
      BY <2>1, <2>6, <3>1
    <3>3. l \in Before(l) /\ IsFiniteSet(Before(l)) /\ Cardinality(Before(l)) \in Nat
      BY <1>0, <1>2, <2>1, CrowdSizes DEF Before
    <3>4. Cardinality(Before(l)) >= 1
      BY <3>3, FS_EmptySet
    <3>5. Cardinality(Range(sessions')) + Cardinality(Inserting') <= Limit'
      BY <1>1, <2>2, <2>3, <2>5, <3>1, <3>2, <3>3, <3>4
    <3>6. ASSUME NEW m \in Cleaning'
          PROVE  Cardinality(ToKeep(m)') + Cardinality(Inserting') + Cardinality(Before(m)') <= Limit'
      <4>1. CASE l \in Before(m)
        <5>1. Cardinality(ToKeep(m)) + Cardinality(Inserting) + Cardinality(Before(m)) <= Limit
          BY <2>4, <2>6
        <5> QED
          BY <2>2, <2>3, <2>4, <3>1, <4>1, <5>1
      <4>2. CASE l \notin Before(m)
        <5>1. login[m].id \in Nat /\ login[l].id \in Nat /\ ~(login[l].id <= login[m].id)
          <6>1. login[m].id \in Nat /\ login[l].id \in Nat
            BY <1>0, <2>4, SessionSizes
          <6>2. ~(login[l].id <= login[m].id)
            BY <2>1, <4>2 DEF Before
          <6> QED
            BY <6>1, <6>2
        <5>2. \A o \in Cleaning : login[o].id \in Nat
          BY <1>0, SessionSizes DEF Cleaning
        <5>3. Before(m) \subseteq Before(l) \ {l}
          BY <4>2, <5>1, <5>2 DEF Before
        <5>4. IsFiniteSet(Before(l) \ {l}) /\ Cardinality(Before(l) \ {l}) = Cardinality(Before(l)) - 1
          BY <3>3, FS_RemoveElement
        <5>5. Cardinality(Before(m)) <= Cardinality(Before(l)) - 1
          BY <5>3, <5>4, PartSize
        <5>6. ToKeep(m) \subseteq Range(sessions) /\ IsFiniteSet(Range(sessions))
          BY <1>0, SessionSizes DEF ToKeep
        <5>7. Cardinality(ToKeep(m)) <= Cardinality(Range(sessions))
          BY <5>6, PartSize
        <5> QED
          BY <2>2, <2>3, <2>4, <2>5, <3>1, <3>2, <3>3, <5>5, <5>7
      <4> QED
        BY <4>1, <4>2
    <3> QED
      BY <3>5, <3>6 DEF Crowd
  <2> QED
    BY <1>1, <2>7, <2>8
<1> QED
  BY <1>1, <1>8, <1>9, <1>10, <1>11 DEF SessionsInv

\* A login inserts its session, or fails to.
LEMMA Inserts ==
  ASSUME SessionsInv, NEW l \in Login, InsertSession(l)
  PROVE  SessionsInv' /\ ~(Len(sessions') < Len(sessions))
<1> DEFINE rec == [pc |-> "idle", toDelete |-> <<>>, id |-> login[l].id]
<1> DEFINE new == login[l].id
<1>0. SessionsTypeOK /\ SessionsKeyed /\ ListedAreOld /\ Crowd
  BY DEF SessionsInv
<1>1. /\ login[l].pc = "inserting" /\ login' = [login EXCEPT ![l].pc = "idle"]
      /\ (sessions' = Append(sessions, new) \/ sessions' = sessions)
      /\ refresh' = refresh /\ logins' = logins /\ uses' = uses /\ failures' = failures /\ overtaken' = overtaken
  BY DEF InsertSession
<1>2. login[l] \in LoginRecord /\ login \in [Login -> LoginRecord] /\ new \in 0 .. MaxLogins /\ MaxLogins \in Nat
  BY <1>0, SessionSizes DEF SessionsTypeOK
<1>3. /\ login[l].toDelete = <<>> /\ new > 0 /\ new <= logins /\ new \notin Range(sessions)
      /\ \A m \in Login : new \notin Range(login[m].toDelete)
      /\ \A m \in Login : login[m].pc # "idle" /\ login[m].id = new => m = l
  BY <1>0, <1>1 DEF SessionsKeyed
<1>4. login' = [login EXCEPT ![l] = rec] /\ rec \in LoginRecord
  <2>1. rec \in LoginRecord
    BY <1>2, EmptySeq DEF LoginRecord
  <2>2. login' = [login EXCEPT ![l] = [login[l] EXCEPT !.pc = "idle"]]
    BY <1>1, <1>2
  <2>3. [login[l] EXCEPT !.pc = "idle"] = rec
    BY <1>2, <1>3, LoginRewritten
  <2> QED
    BY <2>1, <2>2, <2>3
<1>5. /\ login' \in [Login -> LoginRecord] /\ login'[l].pc = "idle" /\ login'[l].toDelete = <<>>
      /\ login'[l].id = login[l].id /\ \A m \in Login : m # l => login'[m] = login[m]
  BY <1>2, <1>4, LoginMoves
<1> HIDE DEF rec, new
<1>6. \A m \in Login : login'[m].id = login[m].id /\ login'[m].toDelete = login[m].toDelete
  BY <1>3, <1>5
<1>7. /\ Len(sessions) \in Nat /\ DOMAIN sessions = 1 .. Len(sessions) /\ Distinct(sessions)
      /\ sessions \in Seq(1 .. MaxLogins) /\ new \in 1 .. MaxLogins /\ maxSessions \in Nat
  BY <1>0, <1>2, <1>3, SessionSizes
<1>8. /\ sessions' \in Seq(1 .. MaxLogins) /\ Distinct(sessions') /\ Range(sessions') \subseteq Range(sessions) \cup {new}
      /\ ~(Len(sessions') < Len(sessions)) /\ ListedAreOld'
  <2>1. CASE sessions' = sessions
    BY <1>0, <1>1, <1>6, <1>7, <2>1 DEF ListedAreOld
  <2>2. CASE sessions' = Append(sessions, new)
    <3>1. /\ sessions' \in Seq(1 .. MaxLogins) /\ Range(sessions') = Range(sessions) \cup {new}
      <4>1. sessions \in Seq(1 .. MaxLogins) /\ new \in 1 .. MaxLogins
        BY <1>7
      <4>2. /\ Append(sessions, new) \in Seq(1 .. MaxLogins)
            /\ Range(Append(sessions, new)) = Range(sessions) \cup {new}
        <5> DEFINE Ids == 1 .. MaxLogins
        <5> HIDE DEF Ids
        <5>1. sessions \in Seq(Ids) /\ new \in Ids
          BY <4>1 DEF Ids
        <5>2. Append(sessions, new) \in Seq(Ids) /\ Range(Append(sessions, new)) = Range(sessions) \cup {new}
          BY <5>1, RangeAppend
        <5> QED
          BY <5>2 DEF Ids
      <4> QED
        BY <2>2, <4>2, Zenon
    <3>2. /\ Len(sessions') = Len(sessions) + 1 /\ (\A i \in 1 .. Len(sessions) : sessions'[i] = sessions[i])
          /\ sessions'[Len(sessions) + 1] = new
      BY <1>7, <2>2, AppendProperties
    <3>3. DOMAIN sessions' = 1 .. Len(sessions) + 1
      BY <3>1, <3>2, LenProperties
    <3>4. \A i \in 1 .. Len(sessions) + 1 : i \in 1 .. Len(sessions) \/ i = Len(sessions) + 1
      BY <1>7
    <3>5. \A i \in 1 .. Len(sessions) : sessions[i] # new
      BY <1>3, <1>7 DEF Range
    <3>6. Distinct(sessions')
      BY <1>7, <3>2, <3>3, <3>4, <3>5 DEF Distinct
    <3>7. ASSUME ~overtaken, NEW m \in Login, NEW i \in 1 .. Len(sessions'),
                 sessions'[i] \in Range(login'[m].toDelete)
          PROVE  i + maxSessions <= Len(sessions')
      <4>1. sessions'[i] # new /\ sessions'[i] \in Range(login[m].toDelete)
        BY <1>3, <1>6, <3>7
      <4>2. i \in 1 .. Len(sessions) /\ sessions'[i] = sessions[i]
        BY <3>2, <3>4, <3>7, <4>1
      <4>3. i + maxSessions <= Len(sessions)
        BY <1>0, <3>7, <4>1, <4>2 DEF ListedAreOld
      <4> QED
        BY <1>7, <3>2, <4>2, <4>3
    <3>8. ListedAreOld'
      BY <1>1, <3>7 DEF ListedAreOld
    <3> QED
      BY <1>7, <3>1, <3>2, <3>6, <3>8
  <2> QED
    BY <1>1, <2>1, <2>2
<1>9. SessionsTypeOK'
  BY <1>0, <1>1, <1>5, <1>8 DEF SessionsTypeOK, Distinct
<1>10. SessionsKeyed'
  <2>1. failures' <= uses' /\ \A x \in Range(sessions') : x <= logins
    BY <1>0, <1>1, <1>3, <1>8 DEF SessionsKeyed
  <2>2. \A m \in Login : login'[m].pc # "cleaning" => login'[m].toDelete = <<>>
    BY <1>0, <1>5 DEF SessionsKeyed
  <2>3. ASSUME NEW m \in Login, login'[m].pc # "idle" PROVE login[m].pc # "idle" /\ login[m].id \notin Range(sessions')
    <3>1. m # l /\ login[m].pc # "idle"
      BY <1>5, <2>3
    <3>2. login[m].id \notin Range(sessions)
      BY <1>0, <3>1 DEF SessionsKeyed
    <3>3. login[m].id # new
      BY <1>3, <3>1
    <3> QED
      BY <1>8, <3>1, <3>2, <3>3
  <2>4. \A m \in Login : login'[m].id = login[m].id /\ Range(login'[m].toDelete) \subseteq Range(login[m].toDelete)
    BY <1>6
  <2> QED
    BY <1>0, <1>1, <2>1, <2>2, <2>3, <2>4, KeysKept
<1>11. Crowd'
  <2>1. l \in Inserting /\ Inserting' = Inserting \ {l} /\ Cleaning' = Cleaning
    BY <1>1, <1>5 DEF Inserting, Cleaning
  <2>2. /\ Cardinality(Inserting) \in Nat /\ Cardinality(Inserting') = Cardinality(Inserting) - 1
        /\ Cardinality(Inserting') \in Nat
    <3>1. IsFiniteSet(Inserting) /\ Cardinality(Inserting) \in Nat
      BY <1>0, SessionSizes
    <3>2. Cardinality(Inserting \ {l}) = Cardinality(Inserting) - 1
      BY <2>1, <3>1, FS_RemoveElement
    <3>3. Cardinality(Inserting \ {l}) \in Nat
      BY <3>1, PartSize
    <3> QED
      BY <2>1, <3>1, <3>2, <3>3
  <2>3. Limit' = Limit /\ Limit \in Nat
    BY <1>0, <1>1, CrowdSizes DEF Limit
  <2>4. ASSUME NEW S, NEW S2, IsFiniteSet(S), S2 \subseteq S \cup {new}
        PROVE  Cardinality(S) \in Nat /\ Cardinality(S2) \in Nat /\ Cardinality(S2) <= Cardinality(S) + 1
    <3>1. IsFiniteSet(S \cup {new}) /\ Cardinality(S \cup {new}) = IF new \in S THEN Cardinality(S) ELSE Cardinality(S) + 1
      BY <2>4, FS_AddElement
    <3>2. Cardinality(S) \in Nat
      BY <2>4, FS_CardinalityType
    <3>3. Cardinality(S2) \in Nat /\ Cardinality(S2) <= Cardinality(S \cup {new})
      BY <2>4, <3>1, PartSize
    <3> QED
      BY <3>1, <3>2, <3>3
  <2>5. Cardinality(Range(sessions')) + Cardinality(Inserting') <= Limit'
    <3>1. IsFiniteSet(Range(sessions))
      BY <1>0, SessionSizes
    <3>2. /\ Cardinality(Range(sessions)) \in Nat /\ Cardinality(Range(sessions')) \in Nat
          /\ Cardinality(Range(sessions')) <= Cardinality(Range(sessions)) + 1
      BY <1>8, <2>4, <3>1
    <3>3. Cardinality(Range(sessions)) + Cardinality(Inserting) <= Limit
      BY <1>0 DEF Crowd
    <3> QED
      BY <2>2, <2>3, <3>2, <3>3
  <2>6. ASSUME NEW m \in Cleaning'
        PROVE  Cardinality(ToKeep(m)') + Cardinality(Inserting') + Cardinality(Before(m)') <= Limit'
    <3>1. m \in Login /\ m \in Cleaning
      BY <2>1, <2>6 DEF Cleaning
    <3>2. Before(m)' = Before(m)
      BY <1>6, <2>1, <3>1 DEF Before, Cleaning
    <3>3. ToKeep(m)' \subseteq ToKeep(m) \cup {new}
      BY <1>6, <1>8, <3>1 DEF ToKeep
    <3>4. IsFiniteSet(ToKeep(m)) /\ Cardinality(Before(m)) \in Nat
      BY <1>0, <3>1, CrowdSizes
    <3>5. /\ Cardinality(ToKeep(m)) \in Nat /\ Cardinality(ToKeep(m)') \in Nat
          /\ Cardinality(ToKeep(m)') <= Cardinality(ToKeep(m)) + 1
      BY <2>4, <3>3, <3>4
    <3>6. Cardinality(ToKeep(m)) + Cardinality(Inserting) + Cardinality(Before(m)) <= Limit
      BY <1>0, <3>1 DEF Crowd
    <3> QED
      BY <2>2, <2>3, <3>2, <3>4, <3>5, <3>6
  <2> QED
    BY <2>5, <2>6 DEF Crowd
<1> QED
  BY <1>8, <1>9, <1>10, <1>11 DEF SessionsInv

\* A session is found, and then used.
LEMMA Refreshes ==
  ASSUME SessionsInv, NEW f \in Refresh, UpdateSession(f) \/ \E s \in Range(sessions) : FindSession(f, s)
  PROVE  SessionsInv' /\ ~(Len(sessions') < Len(sessions))
<1>0. SessionsTypeOK /\ SessionsKeyed /\ ListedAreOld /\ Crowd
  BY DEF SessionsInv
<1>1. CASE \E s \in Range(sessions) : FindSession(f, s)
  <2>1. PICK s \in Range(sessions) : FindSession(f, s)
    BY <1>1
  <2>2. /\ uses < MaxUses /\ uses' = uses + 1 /\ refresh' = [refresh EXCEPT ![f] = s]
        /\ sessions' = sessions /\ login' = login /\ logins' = logins /\ failures' = failures /\ overtaken' = overtaken
    BY <2>1 DEF FindSession
  <2>3. s \in 0 .. MaxLogins /\ uses \in Nat /\ MaxUses \in Nat /\ failures \in Nat /\ Len(sessions) \in Nat
    <3>1. Range(sessions) \subseteq 1 .. MaxLogins /\ MaxLogins \in Nat
      BY <1>0, SessionSizes
    <3>2. s \in 0 .. MaxLogins
      BY <3>1
    <3> QED
      BY <1>0, <3>2, SessionSizes
  <2>4. refresh' \in [Refresh -> 0 .. MaxLogins] /\ uses' \in 0 .. MaxUses
    BY <1>0, <2>2, <2>3 DEF SessionsTypeOK
  <2>5. SessionsTypeOK'
    BY <1>0, <2>2, <2>4 DEF SessionsTypeOK
  <2>6. SessionsKeyed'
    <3>1. failures' <= uses'
      BY <1>0, <2>2, <2>3 DEF SessionsKeyed
    <3> QED
      BY <1>0, <2>2, <3>1 DEF SessionsKeyed
  <2>7. ListedAreOld' /\ Crowd'
    BY <1>0, <2>2 DEF ListedAreOld, Crowd, Cleaning, Inserting, ToKeep, Before, Limit
  <2> QED
    BY <2>2, <2>3, <2>5, <2>6, <2>7 DEF SessionsInv
<1>2. CASE UpdateSession(f)
  <2> DEFINE u == refresh[f]
  <2>1. /\ sessions' = IF u \in Range(sessions) THEN Append(Without(u), u) ELSE sessions
        /\ refresh' = [refresh EXCEPT ![f] = 0]
        /\ overtaken' = (overtaken \/ \E l \in Login : u \in Range(login[l].toDelete))
        /\ login' = login /\ logins' = logins /\ uses' = uses /\ failures' = failures
    BY <1>2 DEF UpdateSession
  <2>2. refresh' \in [Refresh -> 0 .. MaxLogins] /\ overtaken' \in BOOLEAN
    <3>1. MaxLogins \in Nat
      BY <1>0, SessionSizes
    <3>2. refresh' \in [Refresh -> 0 .. MaxLogins]
      BY <1>0, <2>1, <3>1 DEF SessionsTypeOK
    <3>3. overtaken' \in BOOLEAN
      BY <2>1, Zenon
    <3> QED
      BY <3>2, <3>3
  <2> HIDE DEF u
  <2>3. ASSUME ~overtaken' PROVE ~overtaken /\ \A l \in Login : u \notin Range(login[l].toDelete)
    BY <2>1, <2>3, Zenon
  <2>4. Len(sessions) \in Nat /\ maxSessions \in Nat
    BY <1>0, SessionSizes
  <2>5. /\ sessions' \in Seq(1 .. MaxLogins) /\ Distinct(sessions') /\ Range(sessions') = Range(sessions)
        /\ Len(sessions') = Len(sessions) /\ ListedAreOld'
    <3>1. CASE u \notin Range(sessions)
      <4>1. sessions' = sessions
        BY <2>1, <3>1, Zenon
      <4>2. ListedAreOld'
        BY <1>0, <2>1, <2>3, <4>1 DEF ListedAreOld
      <4> QED
        BY <1>0, <4>1, <4>2, SessionSizes
    <3>2. CASE u \in Range(sessions)
      <4> DEFINE w == Without(u)
      <4>1. PICK p \in 1 .. Len(sessions) :
              /\ sessions[p] = u
              /\ w \in Seq(1 .. MaxLogins) /\ Len(w) = Len(sessions) - 1
              /\ Distinct(w) /\ Range(w) = Range(sessions) \ {u}
              /\ \A i \in 1 .. Len(sessions) - 1 : w[i] = IF i < p THEN sessions[i] ELSE sessions[i + 1]
        BY <1>0, <3>2, WithoutRow
      <4>2. sessions' = Append(w, u)
        BY <2>1, <3>2, Zenon
      <4> HIDE DEF w
      <4>3. u \in 1 .. MaxLogins
        BY <1>0, <3>2, SessionSizes
      <4>4. Append(w, u) \in Seq(1 .. MaxLogins) /\ Range(Append(w, u)) = Range(w) \cup {u}
        <5> DEFINE Ids == 1 .. MaxLogins
        <5> HIDE DEF Ids
        <5>1. w \in Seq(Ids) /\ u \in Ids
          BY <4>1, <4>3 DEF Ids
        <5>2. Append(w, u) \in Seq(Ids) /\ Range(Append(w, u)) = Range(w) \cup {u}
          BY <5>1, RangeAppend
        <5> QED
          BY <5>2 DEF Ids
      <4>5. sessions' \in Seq(1 .. MaxLogins) /\ Range(sessions') = Range(sessions)
        <5>1. Range(w) \cup {u} = Range(sessions)
          BY <3>2, <4>1
        <5> QED
          BY <4>2, <4>4, <5>1, Zenon
      <4>6. /\ Len(Append(w, u)) = Len(w) + 1 /\ (\A i \in 1 .. Len(w) : Append(w, u)[i] = w[i])
            /\ Append(w, u)[Len(w) + 1] = u
        BY <4>1, <4>3, AppendProperties
      <4>7. /\ Len(sessions') = Len(sessions) /\ (\A i \in 1 .. Len(sessions) - 1 : sessions'[i] = w[i])
            /\ sessions'[Len(sessions)] = u
        <5>1. Len(w) + 1 = Len(sessions) /\ Len(w) = Len(sessions) - 1
          BY <2>4, <4>1
        <5> QED
          BY <4>2, <4>6, <5>1
      <4>8. DOMAIN sessions' = 1 .. Len(sessions) /\ DOMAIN w = 1 .. Len(sessions) - 1
        BY <4>1, <4>5, <4>7, LenProperties
      <4>9. \A i \in 1 .. Len(sessions) : i \in 1 .. Len(sessions) - 1 \/ i = Len(sessions)
        BY <2>4
      <4>10. \A i \in 1 .. Len(sessions) - 1 : w[i] # u
        BY <4>1, <4>8 DEF Range
      <4>11. Distinct(sessions')
        BY <4>1, <4>7, <4>8, <4>9, <4>10 DEF Distinct
      <4>12. ASSUME ~overtaken', NEW m \in Login, NEW i \in 1 .. Len(sessions'),
                    sessions'[i] \in Range(login'[m].toDelete)
             PROVE  i + maxSessions <= Len(sessions')
        <5>1. sessions'[i] # u /\ sessions'[i] \in Range(login[m].toDelete)
          BY <2>1, <2>3, <4>12
        <5>2. i \in 1 .. Len(sessions) - 1 /\ sessions'[i] = w[i]
          BY <4>7, <4>9, <5>1
        <5>3. PICK j \in 1 .. Len(sessions) : i <= j /\ w[i] = sessions[j]
          BY <2>4, <4>1, <5>2
        <5>4. j + maxSessions <= Len(sessions)
          BY <1>0, <2>3, <4>12, <5>1, <5>2, <5>3 DEF ListedAreOld
        <5> QED
          BY <2>4, <4>7, <5>2, <5>3, <5>4
      <4>13. ListedAreOld'
        BY <4>12 DEF ListedAreOld
      <4> QED
        BY <4>5, <4>7, <4>11, <4>13
    <3> QED
      BY <3>1, <3>2
  <2>6. SessionsTypeOK'
    BY <1>0, <2>1, <2>2, <2>5 DEF SessionsTypeOK, Distinct
  <2>7. SessionsKeyed'
    BY <1>0, <2>1, <2>5 DEF SessionsKeyed
  <2>8. Crowd'
    <3>1. \A m \in Cleaning : ToKeep(m)' \subseteq ToKeep(m)
      BY <2>1, <2>5 DEF ToKeep
    <3> QED
      BY <1>0, <2>1, <2>5, <3>1, CrowdShrinks
  <2> QED
    BY <2>4, <2>5, <2>6, <2>7, <2>8 DEF SessionsInv
<1> QED
  BY <1>1, <1>2

\* In the beginning there are no sessions and no logins.
LEMMA SessionsStart ==
  ASSUME SessionsInit
  PROVE  SessionsInv
<1>1. /\ sessions = <<>> /\ login = [l \in Login |-> [pc |-> "idle", toDelete |-> <<>>, id |-> 0]]
      /\ refresh = [f \in Refresh |-> 0] /\ logins = 0 /\ uses = 0 /\ failures = 0 /\ overtaken = FALSE
  BY DEF SessionsInit
<1>2. MaxLogins \in Nat /\ MaxUses \in Nat /\ maxSessions \in Nat /\ IsFiniteSet(Login)
  BY SessionsAssumption
<1>3. sessions \in Seq(1 .. MaxLogins) /\ DOMAIN sessions = {} /\ Range(sessions) = {} /\ Len(sessions) = 0
  <2>1. sessions \in Seq(1 .. MaxLogins) /\ Len(sessions) = 0
    BY <1>1, EmptySeq
  <2>2. DOMAIN sessions = {}
    BY <1>1
  <2> QED
    BY <2>1, <2>2 DEF Range
<1>4. \A l \in Login : login[l].pc = "idle" /\ login[l].toDelete = <<>> /\ login[l].id = 0
  BY <1>1
<1>5. login \in [Login -> LoginRecord]
  <2>1. [pc |-> "idle", toDelete |-> <<>>, id |-> 0] \in LoginRecord
    BY <1>2, EmptySeq DEF LoginRecord
  <2> QED
    BY <1>1, <2>1
<1>6. SessionsTypeOK
  <2>1. \A i, j \in DOMAIN sessions : sessions[i] = sessions[j] => i = j
    BY <1>3
  <2>2. refresh \in [Refresh -> 0 .. MaxLogins] /\ logins \in 0 .. MaxLogins /\ uses \in 0 .. MaxUses /\ failures \in 0 .. MaxUses
    BY <1>1, <1>2
  <2> QED
    BY <1>1, <1>3, <1>5, <2>1, <2>2 DEF SessionsTypeOK
<1>7. SessionsKeyed
  <2>1. Range(<<>>) = {}
    BY DEF Range
  <2> QED
    BY <1>1, <1>3, <1>4, <2>1 DEF SessionsKeyed
<1>8. ListedAreOld
  BY <1>3 DEF ListedAreOld
<1>9. Crowd
  <2>1. Cleaning = {} /\ Inserting = {}
    BY <1>4 DEF Cleaning, Inserting
  <2>2. Cardinality({}) = 0
    BY FS_EmptySet
  <2>3. Limit \in Nat
    BY <1>6, CrowdSizes
  <2> QED
    BY <1>3, <2>1, <2>2, <2>3 DEF Crowd
<1> QED
  BY <1>6, <1>7, <1>8, <1>9 DEF SessionsInv

\* A step of a login, of a refresh, or none: the invariant holds after it, and it left
\* enough sessions.
LEMMA SessionsStep ==
  ASSUME SessionsInv, [SessionsNext]_sessionVars
  PROVE  SessionsInv' /\ (Len(sessions') < Len(sessions) => overtaken \/ Len(sessions') >= maxSessions)
<1>0. Len(sessions) \in Nat
  BY SessionSizes DEF SessionsInv
<1>1. ASSUME NEW l \in Login, CleanupUserSessions(l)
      PROVE  SessionsInv' /\ sessions' = sessions
  <2>1. sessions' = sessions
    BY <1>1 DEF CleanupUserSessions
  <2> QED
    BY <1>1, <2>1, CleanupBegins
<1>2. ASSUME NEW l \in Login, DeleteSession(l)
      PROVE  SessionsInv' /\ (Len(sessions') < Len(sessions) => overtaken \/ Len(sessions') >= maxSessions)
  BY <1>2, Deletes
<1>3. ASSUME NEW l \in Login, CleanupFails(l) \/ CleanupDone(l)
      PROVE  SessionsInv' /\ sessions' = sessions
  <2>1. sessions' = sessions
    BY <1>3 DEF CleanupFails, CleanupDone
  <2> QED
    BY <1>3, <2>1, CleanupEnds
<1>4. ASSUME NEW l \in Login, InsertSession(l)
      PROVE  SessionsInv' /\ ~(Len(sessions') < Len(sessions))
  BY <1>4, Inserts
<1>5. ASSUME NEW f \in Refresh, UpdateSession(f) \/ \E s \in Range(sessions) : FindSession(f, s)
      PROVE  SessionsInv' /\ ~(Len(sessions') < Len(sessions))
  BY <1>5, Refreshes
<1>6. ASSUME UNCHANGED sessionVars
      PROVE  SessionsInv' /\ sessions' = sessions
  BY <1>6 DEF sessionVars, SessionsInv, SessionsTypeOK, SessionsKeyed, ListedAreOld, Crowd, Cleaning, Inserting,
              ToKeep, Before, Limit
<1>7. ASSUME sessions' = sessions PROVE ~(Len(sessions') < Len(sessions))
  BY <1>0, <1>7
<1> QED
  BY <1>1, <1>2, <1>3, <1>4, <1>5, <1>6, <1>7, Zenon DEF SessionsNext

\* The invariant of the session table.
LEMMA SessionsInvariant == SessionsSpec => []SessionsInv
<1>1. SessionsInit => SessionsInv
  BY SessionsStart
<1>2. SessionsInv /\ [SessionsNext]_sessionVars => SessionsInv'
  BY SessionsStep
<1> QED
  BY <1>1, <1>2, PTL DEF SessionsSpec

\* The types of the session table, in which no session ever has two rows.
THEOREM SessionsTypeCorrect == SessionsSpec => []SessionsTypeOK
<1>1. SessionsInv => SessionsTypeOK
  BY DEF SessionsInv
<1> QED
  BY <1>1, SessionsInvariant, PTL

\* However many logins run at the same time, the table of a user holds no more than
\* maxSessions sessions, one per login and one per clean-up that failed.
THEOREM SessionsStayLimited == SessionsSpec => []SessionsLimited
<1>1. SessionsInv => SessionsLimited
  <2> SUFFICES ASSUME SessionsInv PROVE SessionsLimited
    OBVIOUS
  <2>1. SessionsTypeOK /\ Crowd
    BY DEF SessionsInv
  <2>2. /\ Cardinality(Range(sessions)) = Len(sessions) /\ Len(sessions) \in Nat /\ Cardinality(Inserting) \in Nat
        /\ maxSessions \in Nat /\ Cardinality(Login) \in Nat /\ failures \in Nat
    BY <2>1, SessionSizes
  <2>3. Len(sessions) + Cardinality(Inserting) <= maxSessions + Cardinality(Login) + failures
    BY <2>1, <2>2 DEF Crowd, Limit
  <2> QED
    BY <2>2, <2>3 DEF SessionsLimited
<1> QED
  BY <1>1, SessionsInvariant, PTL

\* Clean-ups that run at the same time leave maxSessions sessions, unless a session on
\* one of their lists was used after it was read.
THEOREM RecentSessionsKept == SessionsSpec => MostRecentKept
<1>1. SessionsInv /\ [SessionsNext]_sessionVars
        => [Len(sessions') < Len(sessions) => overtaken \/ Len(sessions') >= maxSessions]_sessionVars
  BY SessionsStep
<1> QED
  BY <1>1, SessionsInvariant, PTL DEF SessionsSpec, MostRecentKept

-----------------------------------------------------------------------------
(* The setup commands.                                                     *)

InChunks(chunks) == UNION {Range(chunks[k]) : k \in DOMAIN chunks}

\* What a run knows: its successes are installed where it runs, it has a chunk as long
\* as it runs, and a chunk whose correction it waits for has been tried there.
RunKept(run) ==
    /\ Range(run.successful) \subseteq installed[run.on]
    /\ run.pc \in {"executing", "regenerating"} => run.chunks # <<>>
    /\ run.pc = "regenerating" => Range(run.chunks[1]) \subseteq installed[run.on] \cup excused[run.on]

\* The replay of the current sandbox runs there.
CommandsInv ==
    /\ CommandsTypeOK /\ HistoryInstalled
    /\ commandRun[sandbox].on = sandbox
    /\ \A r \in CommandRun : RunKept(commandRun[r])

\* A list is one of its elements.
LEMMA SeqListed ==
  ASSUME NEW S, NEW s \in Seq(S)
  PROVE  Listed(s)
<1>1. Len(s) \in Nat /\ s \in [1 .. Len(s) -> Range(s)]
  BY LenProperties DEF Range
<1> QED
  BY <1>1, SeqDef DEF Listed

\* What holds of a quotient rounded down.
LEMMA Quotient ==
  \A a \in Nat : \A b \in Nat \ {0} : a \div b \in Nat /\ b * (a \div b) <= a /\ a < b * (a \div b) + b
  BY SMT

\* Multiples of a positive number are in order.
LEMMA Multiples ==
  \A k, m \in Int : \A b \in Nat \ {0} : k * b < m * b => k < m
  BY SMT

\* The chunks of a list of commands are lists of commands, with every command in one.
LEMMA ChunksWhole ==
  ASSUME NEW commands \in Seq(Cmd), NEW size \in Nat \ {0}
  PROVE  /\ Chunks(commands, size) \in Seq(Seq(Cmd))
         /\ commands # <<>> => Chunks(commands, size) # <<>>
         /\ Range(commands) \subseteq InChunks(Chunks(commands, size))
<1> DEFINE n == Len(commands)
<1> DEFINE m == (n + size - 1) \div size
<1> DEFINE end(k) == IF k * size < n THEN k * size ELSE n
<1> DEFINE chunk(k) == SubSeq(commands, (k - 1) * size + 1, end(k))
<1>1. n \in Nat /\ DOMAIN commands = 1 .. n /\ \A i \in 1 .. n : commands[i] \in Cmd
  BY LenProperties, ElementOfSeq
<1>2. n + size - 1 \in Nat
  BY <1>1
<1>3. m \in Nat /\ size * m <= n + size - 1 /\ n + size - 1 < size * m + size
  BY <1>2, Quotient
<1>4. Chunks(commands, size) = [k \in 1 .. m |-> chunk(k)]
  BY DEF Chunks
<1> HIDE DEF n, m
<1>5. \A k \in 1 .. m : end(k) \in Nat /\ end(k) <= n /\ (k - 1) * size + 1 \in Nat \ {0}
  <2> SUFFICES ASSUME NEW k \in 1 .. m PROVE end(k) \in Nat /\ end(k) <= n /\ (k - 1) * size + 1 \in Nat \ {0}
    OBVIOUS
  <2>1. k - 1 \in Nat /\ k \in Nat
    BY <1>3
  <2>2. (k - 1) * size \in Nat /\ k * size \in Nat
    BY <2>1
  <2> QED
    BY <1>1, <2>2
<1> HIDE DEF end
<1>6. \A k \in 1 .. m : /\ chunk(k) \in Seq(Cmd)
                        /\ \A i \in (k - 1) * size + 1 .. end(k) : commands[i] \in Range(chunk(k))
  <2> SUFFICES ASSUME NEW k \in 1 .. m
               PROVE  /\ chunk(k) \in Seq(Cmd)
                      /\ \A i \in (k - 1) * size + 1 .. end(k) : commands[i] \in Range(chunk(k))
    OBVIOUS
  <2> DEFINE a == (k - 1) * size + 1
  <2> DEFINE b == end(k)
  <2> DEFINE c == SubSeq(commands, a, b)
  <2>1. a \in Nat \ {0} /\ b \in Nat /\ b <= n /\ chunk(k) = c
    BY <1>5
  <2> HIDE DEF a, b, chunk
  <2>2. a \in Int /\ b \in Int /\ \A i \in a .. b : commands[i] \in Cmd
    BY <1>1, <2>1
  <2>3. /\ c \in Seq(Cmd) /\ Len(c) = (IF a <= b THEN b - a + 1 ELSE 0)
        /\ \A i \in 1 .. b - a + 1 : c[i] = commands[a + i - 1]
    BY <2>2, SubSeqProperties
  <2> HIDE DEF c
  <2>4. ASSUME NEW i \in a .. b PROVE commands[i] \in Range(c)
    <3>1. i - a + 1 \in 1 .. b - a + 1 /\ a + (i - a + 1) - 1 = i /\ a <= b
      BY <2>1
    <3>2. i - a + 1 \in DOMAIN c
      BY <2>3, <3>1, LenProperties
    <3>3. c[i - a + 1] = commands[i]
      BY <2>3, <3>1
    <3> QED
      BY <3>2, <3>3 DEF Range
  <2> QED
    BY <2>1, <2>3, <2>4 DEF a, b
<1>7. Chunks(commands, size) \in Seq(Seq(Cmd)) /\ DOMAIN Chunks(commands, size) = 1 .. m
  <2> HIDE DEF chunk
  <2> QED
    BY <1>3, <1>4, <1>6
<1>8. \A k \in 1 .. m : Chunks(commands, size)[k] = chunk(k)
  <2> HIDE DEF chunk
  <2> QED
    BY <1>4
<1> HIDE DEF chunk
<1>9. ASSUME NEW i \in 1 .. n PROVE \E k \in 1 .. m : commands[i] \in Range(chunk(k))
  <2> DEFINE q == (i - 1) \div size
  <2>1. i - 1 \in Nat /\ i \in Nat
    OBVIOUS
  <2>2. q \in Nat /\ size * q <= i - 1 /\ i - 1 < size * q + size
    BY <2>1, Quotient
  <2> HIDE DEF q
  <2>3. q * size + 1 <= i /\ i <= (q + 1) * size /\ q * size \in Nat /\ (q + 1) * size = q * size + size
    BY <2>1, <2>2
  <2>4. q < m
    <3>1. q * size < m * size
      <4>1. size * m = m * size /\ m * size \in Nat
        BY <1>3
      <4>2. n < m * size + 1
        BY <1>1, <1>3, <4>1
      <4> QED
        BY <1>1, <2>1, <2>3, <4>1, <4>2
    <3> QED
      BY <1>3, <2>2, <3>1, Multiples
  <2> DEFINE k == q + 1
  <2>5. k \in 1 .. m /\ k - 1 = q /\ i <= k * size /\ k * size \in Nat
    BY <1>3, <2>2, <2>3, <2>4
  <2> HIDE DEF k
  <2>6. (k - 1) * size + 1 <= i /\ i <= end(k)
    BY <1>1, <2>1, <2>3, <2>5 DEF end
  <2>7. i \in (k - 1) * size + 1 .. end(k)
    BY <1>5, <2>1, <2>5, <2>6
  <2>8. commands[i] \in Range(chunk(k))
    BY <1>6, <2>5, <2>7
  <2> QED
    BY <2>5, <2>8
<1>10. Range(commands) \subseteq InChunks(Chunks(commands, size))
  <2>1. ASSUME NEW i \in 1 .. n PROVE commands[i] \in InChunks(Chunks(commands, size))
    <3>1. PICK k \in 1 .. m : commands[i] \in Range(chunk(k))
      BY <1>9
    <3>2. k \in DOMAIN Chunks(commands, size) /\ commands[i] \in Range(Chunks(commands, size)[k])
      BY <1>7, <1>8, <3>1
    <3> QED
      BY <3>2 DEF InChunks
  <2> QED
    BY <1>1, <2>1 DEF Range
<1>11. commands # <<>> => Chunks(commands, size) # <<>>
  <2> SUFFICES ASSUME commands # <<>> PROVE Chunks(commands, size) # <<>>
    OBVIOUS
  <2>1. n # 0
    BY EmptySeq DEF n
  <2>2. 1 \in 1 .. n
    BY <1>1, <2>1
  <2>3. \E k \in 1 .. m : commands[1] \in Range(chunk(k))
    BY <1>9, <2>2
  <2>4. DOMAIN Chunks(commands, size) # {}
    BY <1>7, <2>3
  <2> QED
    BY <2>4
<1> QED
  BY <1>7, <1>10, <1>11

\* The commands at some positions, as a list.
LEMMA PickedList ==
  ASSUME NEW chunk \in Seq(Cmd), NEW S \in SUBSET DOMAIN chunk
  PROVE  Picked(chunk, S) \in Seq(Cmd) /\ Range(Picked(chunk, S)) = {chunk[k] : k \in S}
<1> DEFINE n == Cardinality(S)
<1> DEFINE below == [j \in S |-> {i \in S : i < j}]
<1> DEFINE key == [j \in S |-> j]
<1> DEFINE rank(j) == Cardinality({i \in S : i < j})
<1> DEFINE next(k) == CHOOSE j \in S : rank(j) = k - 1
<1>1. Len(chunk) \in Nat /\ DOMAIN chunk = 1 .. Len(chunk) /\ \A i \in S : i \in Nat /\ chunk[i] \in Cmd
  BY LenProperties, ElementOfSeq
<1>2. IsFiniteSet(S) /\ n \in Nat
  <2>1. IsFiniteSet(1 .. Len(chunk)) /\ S \subseteq 1 .. Len(chunk)
    BY <1>1, FS_Interval
  <2> QED
    BY <2>1, PartSize
<1>3. Picked(chunk, S) = [k \in 1 .. n |-> chunk[next(k)]]
  BY DEF Picked
<1>4. /\ \A j \in S : key[j] \in Nat /\ key[j] = j
      /\ \A j, i \in S : key[j] = key[i] => j = i
  BY <1>1
<1> HIDE DEF key
<1>5. \A j \in S : below[j] = {i \in S : key[i] < key[j]} /\ Cardinality(below[j]) = rank(j)
  BY <1>4
<1> HIDE DEF below
<1>6. /\ \A x \in S : Cardinality(below[x]) \in 0 .. n - 1
      /\ \A k \in 0 .. n - 1 : \E x \in S : Cardinality(below[x]) = k
      /\ \A x, z \in S : Cardinality(below[x]) = Cardinality(below[z]) => x = z
  <2>1. \A x \in S : key[x] \in Nat
    BY <1>4
  <2>2. \A x, y \in S : key[x] = key[y] => x = y
    BY <1>4
  <2>3. \A x \in S : below[x] = {y \in S : key[y] < key[x]}
    BY <1>5
  <2> QED
    BY <1>2, <2>1, <2>2, <2>3, Ranked, SMTT(30)
<1> HIDE DEF rank, n
<1>7. /\ \A x \in S : rank(x) \in 0 .. n - 1
      /\ \A k \in 0 .. n - 1 : \E x \in S : rank(x) = k
      /\ \A x, z \in S : rank(x) = rank(z) => x = z
  BY <1>5, <1>6
<1>8. \A k \in 1 .. n : next(k) \in S /\ rank(next(k)) = k - 1
  <2> SUFFICES ASSUME NEW k \in 1 .. n PROVE next(k) \in S /\ rank(next(k)) = k - 1
    OBVIOUS
  <2>1. k - 1 \in 0 .. n - 1
    BY <1>2
  <2>2. \E x \in S : rank(x) = k - 1
    BY <1>7, <2>1
  <2> QED
    BY <2>2
<1> HIDE DEF next
<1>9. \A x \in S : \E k \in 1 .. n : next(k) = x
  <2> SUFFICES ASSUME NEW x \in S PROVE \E k \in 1 .. n : next(k) = x
    OBVIOUS
  <2> DEFINE k == rank(x) + 1
  <2>1. k \in 1 .. n /\ k - 1 = rank(x)
    BY <1>2, <1>7
  <2> HIDE DEF k
  <2> QED
    BY <1>7, <1>8, <2>1
<1>10. Picked(chunk, S) \in Seq(Cmd)
  <2>1. \A k \in 1 .. n : chunk[next(k)] \in Cmd
    BY <1>1, <1>8
  <2> QED
    BY <1>2, <1>3, <2>1
<1>11. Range(Picked(chunk, S)) = {chunk[k] : k \in S}
  <2>1. \A k \in 1 .. n : Picked(chunk, S)[k] = chunk[next(k)]
    BY <1>3
  <2>2. DOMAIN Picked(chunk, S) = 1 .. n
    BY <1>3
  <2> QED
    BY <1>8, <1>9, <2>1, <2>2 DEF Range
<1> QED
  BY <1>10, <1>11

\* A list of chunks, its first and the others.
LEMMA ChunksParts ==
  ASSUME NEW chunks \in Seq(Seq(Cmd)), chunks # <<>>
  PROVE  /\ chunks[1] \in Seq(Cmd) /\ Tail(chunks) \in Seq(Seq(Cmd))
         /\ InChunks(chunks) = Range(chunks[1]) \cup InChunks(Tail(chunks))
         /\ (Len(chunks) > 1 => Tail(chunks) # <<>>)
         /\ (~(Len(chunks) > 1) => InChunks(chunks) = Range(chunks[1]))
<1> DEFINE rest == Tail(chunks)
<1>1. /\ Len(chunks) \in Nat /\ Len(chunks) # 0 /\ DOMAIN chunks = 1 .. Len(chunks)
      /\ rest \in Seq(Seq(Cmd)) /\ Len(rest) = Len(chunks) - 1 /\ \A i \in 1 .. Len(chunks) - 1 : rest[i] = chunks[i + 1]
  BY HeadTailProperties, LenProperties, EmptySeq
<1>2. DOMAIN rest = 1 .. Len(chunks) - 1
  BY <1>1, LenProperties
<1>3. chunks[1] \in Seq(Cmd)
  BY <1>1, ElementOfSeq
<1>4. \A i \in 1 .. Len(chunks) : i = 1 \/ (i - 1 \in 1 .. Len(chunks) - 1 /\ i - 1 + 1 = i)
  BY <1>1
<1>5. 1 \in 1 .. Len(chunks) /\ \A i \in 1 .. Len(chunks) - 1 : i + 1 \in 1 .. Len(chunks)
  BY <1>1
<1> HIDE DEF rest
<1>6. ASSUME NEW i \in 1 .. Len(chunks) PROVE Range(chunks[i]) \subseteq Range(chunks[1]) \cup InChunks(rest)
  <2>1. CASE i = 1
    BY <2>1
  <2>2. CASE i # 1
    <3>1. PICK j \in DOMAIN rest : rest[j] = chunks[i]
      BY <1>1, <1>2, <1>4, <2>2
    <3> QED
      BY <3>1 DEF InChunks
  <2> QED
    BY <2>1, <2>2
<1>7. ASSUME NEW i \in DOMAIN rest PROVE Range(rest[i]) \subseteq InChunks(chunks)
  <2>1. PICK j \in 1 .. Len(chunks) : rest[i] = chunks[j]
    BY <1>1, <1>2, <1>5, <1>7
  <2> QED
    BY <1>1, <2>1 DEF InChunks
<1>8. InChunks(chunks) = Range(chunks[1]) \cup InChunks(rest)
  <2>1. InChunks(chunks) \subseteq Range(chunks[1]) \cup InChunks(rest)
    BY <1>1, <1>6 DEF InChunks
  <2>2. InChunks(rest) \subseteq InChunks(chunks)
    BY <1>7 DEF InChunks
  <2>3. Range(chunks[1]) \subseteq InChunks(chunks)
    BY <1>1, <1>5 DEF InChunks
  <2> QED
    BY <2>1, <2>2, <2>3
<1>9. Len(chunks) > 1 => rest # <<>>
  BY <1>1, EmptySeq
<1>10. ASSUME ~(Len(chunks) > 1) PROVE InChunks(chunks) = Range(chunks[1])
  <2>1. 1 .. Len(chunks) - 1 = {}
    BY <1>1, <1>10
  <2>2. InChunks(rest) = {}
    BY <1>2, <2>1 DEF InChunks
  <2> QED
    BY <1>8, <2>2
<1> QED
  BY <1>1, <1>3, <1>8, <1>9, <1>10 DEF rest

\* A chunk put before others.
LEMMA ChunkPutBack ==
  ASSUME NEW chunk \in Seq(Cmd), NEW rest \in Seq(Seq(Cmd))
  PROVE  /\ <<chunk>> \o rest \in Seq(Seq(Cmd)) /\ <<chunk>> \o rest # <<>>
         /\ InChunks(rest) \subseteq InChunks(<<chunk>> \o rest)
<1> DEFINE s == <<chunk>> \o rest
<1>1. <<chunk>> \in Seq(Seq(Cmd)) /\ Len(<<chunk>>) = 1 /\ Len(rest) \in Nat /\ DOMAIN rest = 1 .. Len(rest)
  BY LenProperties
<1>2. /\ s \in Seq(Seq(Cmd)) /\ Len(s) = 1 + Len(rest)
      /\ \A i \in 1 .. 1 + Len(rest) : s[i] = IF i <= 1 THEN <<chunk>>[i] ELSE rest[i - 1]
  BY <1>1, ConcatProperties
<1> HIDE DEF s
<1>3. DOMAIN s = 1 .. 1 + Len(rest)
  BY <1>2, LenProperties
<1>4. s # <<>>
  BY <1>1, <1>2, EmptySeq
<1>5. ASSUME NEW i \in DOMAIN rest PROVE Range(rest[i]) \subseteq InChunks(s)
  <2>1. i + 1 \in DOMAIN s /\ ~(i + 1 <= 1) /\ i + 1 - 1 = i
    BY <1>1, <1>3
  <2>2. s[i + 1] = rest[i]
    BY <1>2, <1>3, <2>1
  <2> QED
    BY <2>1, <2>2 DEF InChunks
<1>6. InChunks(rest) \subseteq InChunks(s)
  BY <1>5 DEF InChunks
<1> QED
  BY <1>2, <1>4, <1>6 DEF s

\* The parts of the state.
LEMMA CommandParts ==
  ASSUME CommandsTypeOK, NEW r \in CommandRun
  PROVE  /\ commandRun[r] \in RunRecord /\ commandRun[r].on \in Sandbox /\ commandRun[r].chunks \in Seq(Seq(Cmd))
         /\ commandRun[r].tries \in 0 .. 2 /\ commandRun[r].successful \in Seq(Cmd)
         /\ commandRun[r].pc \in {"idle", "executing", "regenerating", "done"}
<1>1. commandRun[r] \in RunRecord
  BY DEF CommandsTypeOK
<1> QED
  BY <1>1 DEF RunRecord

\* The commands of typed chunks.
LEMMA ChunksTyped ==
  ASSUME NEW chunks \in Seq(Seq(Cmd))
  PROVE  InChunks(chunks) \subseteq Cmd
<1>1. \A k \in DOMAIN chunks : chunks[k] \in Seq(Cmd)
  BY LenProperties
<1>2. \A k \in DOMAIN chunks : Range(chunks[k]) \subseteq Cmd
  BY <1>1, RangeOf
<1> QED
  BY <1>2 DEF InChunks

\* A run moves on: enough that what leaves its chunks has been tried or is excused where
\* it runs, and that what enters the history is there or excused in the current sandbox.
LEMMA RunMoves ==
  ASSUME CommandsInv, NEW r \in CommandRun, NEW rec \in RunRecord,
         commandRun' = [commandRun EXCEPT ![r] = rec], rec.on = commandRun[r].on, sandbox' = sandbox,
         commandsHistory' \in Seq(Cmd), installed' \in [Sandbox -> SUBSET Cmd], excused' \in [Sandbox -> SUBSET Cmd],
         \A i \in Sandbox : installed[i] \subseteq installed'[i] /\ excused[i] \subseteq excused'[i],
         Range(rec.successful) \subseteq installed'[rec.on],
         rec.pc \in {"executing", "regenerating"} => rec.chunks # <<>>,
         rec.pc = "regenerating" => Range(rec.chunks[1]) \subseteq installed'[rec.on] \cup excused'[rec.on],
         InChunks(commandRun[r].chunks) \subseteq InChunks(rec.chunks) \cup installed'[rec.on] \cup excused'[rec.on],
         Range(commandsHistory') \subseteq Range(commandsHistory) \cup installed'[sandbox] \cup excused'[sandbox]
  PROVE  CommandsInv'
<1>0. CommandsTypeOK /\ HistoryInstalled /\ commandRun[sandbox].on = sandbox /\ \A x \in CommandRun : RunKept(commandRun[x])
  BY DEF CommandsInv
<1>1. sandbox \in Sandbox /\ sandbox \in CommandRun /\ commandRun \in [CommandRun -> RunRecord]
  BY <1>0 DEF CommandsTypeOK, CommandRun
<1>2. commandRun' \in [CommandRun -> RunRecord] /\ commandRun'[r] = rec /\ \A x \in CommandRun : x # r => commandRun'[x] = commandRun[x]
  BY <1>1
<1>3. CommandsTypeOK'
  BY <1>1, <1>2 DEF CommandsTypeOK
<1>4. \A x \in CommandRun : RunKept(commandRun[x])'
  <2> SUFFICES ASSUME NEW x \in CommandRun PROVE RunKept(commandRun[x])'
    OBVIOUS
  <2>1. CASE x = r
    BY <1>2, <2>1 DEF RunKept
  <2>2. CASE x # r
    <3>1. commandRun'[x] = commandRun[x] /\ RunKept(commandRun[x]) /\ commandRun[x].on \in Sandbox
      BY <1>0, <1>2, <2>2, CommandParts
    <3> QED
      BY <3>1 DEF RunKept
  <2> QED
    BY <2>1, <2>2
<1>5. commandRun'[sandbox].on = sandbox
  BY <1>0, <1>1, <1>2
<1>6. InChunks(commandRun[sandbox].chunks) \subseteq InChunks(commandRun'[sandbox].chunks) \cup installed'[sandbox] \cup excused'[sandbox]
  <2>1. CASE r = sandbox
    BY <1>0, <1>2, <2>1
  <2>2. CASE r # sandbox
    BY <1>1, <1>2, <2>2
  <2> QED
    BY <2>1, <2>2
<1>7. Range(commandsHistory) \subseteq installed[sandbox] \cup excused[sandbox] \cup InChunks(commandRun[sandbox].chunks)
  BY <1>0 DEF HistoryInstalled, Outstanding, InChunks
<1>8. Range(commandsHistory') \subseteq installed'[sandbox] \cup excused'[sandbox] \cup InChunks(commandRun'[sandbox].chunks)
  <2>1. installed[sandbox] \subseteq installed'[sandbox] /\ excused[sandbox] \subseteq excused'[sandbox]
    BY <1>1
  <2> QED
    BY <1>6, <1>7, <2>1
<1>9. HistoryInstalled'
  BY <1>8 DEF HistoryInstalled, Outstanding, InChunks
<1> QED
  BY <1>3, <1>4, <1>5, <1>9 DEF CommandsInv

\* Who is excused.
LEMMA Excuses ==
  ASSUME CommandsTypeOK, NEW r \in CommandRun, NEW failed \in SUBSET Cmd, Excuse(r, failed),
         commandRun'[r].successful \in Seq(Cmd)
  PROVE  /\ excused' \in [Sandbox -> SUBSET Cmd] /\ \A i \in Sandbox : excused[i] \subseteq excused'[i]
         /\ failed \subseteq excused'[commandRun[r].on]
         /\ (commandRun[r].on # sandbox /\ commandRun'[r].pc = "done"
               => Range(commandRun'[r].successful) \subseteq excused'[sandbox])
<1> DEFINE new == Range(commandRun'[r].successful)
<1> DEFINE on == commandRun[r].on
<1> DEFINE past == on # sandbox /\ commandRun'[r].pc = "done"
<1>1. on \in Sandbox /\ sandbox \in Sandbox /\ excused \in [Sandbox -> SUBSET Cmd]
  BY CommandParts DEF CommandsTypeOK
<1>2. new \subseteq Cmd
  BY RangeOf
<1>3. excused' = [i \in Sandbox |-> excused[i] \cup (IF i = on THEN failed ELSE {})
                                               \cup (IF i = sandbox /\ past THEN new ELSE {})]
  BY DEF Excuse
<1> HIDE DEF new, on, past
<1>4. excused' \in [Sandbox -> SUBSET Cmd] /\ \A i \in Sandbox : excused[i] \subseteq excused'[i]
  BY <1>1, <1>2, <1>3
<1>5. failed \subseteq excused'[on] /\ (past => new \subseteq excused'[sandbox])
  BY <1>1, <1>3
<1> QED
  BY <1>4, <1>5 DEF new, on, past

\* A run goes on after a try of its chunk: to the next chunk or to its end, to a model
\* that corrects the chunk, or to another try.
LEMMA RunGoesOn ==
  ASSUME CommandsInv, NEW r \in CommandRun, commandRun[r].pc \in {"executing", "regenerating"},
         NEW successful \in Seq(Cmd), NEW failed \in SUBSET Cmd, NEW chunk \in Seq(Cmd),
         \/ ChunkOver(r, successful)
         \/ /\ Proceed(r, "regenerating", commandRun[r].chunks, commandRun[r].tries, successful)
            /\ UNCHANGED commandsHistory
         \/ /\ commandRun[r].tries # 2
            /\ Proceed(r, "executing", <<chunk>> \o Tail(commandRun[r].chunks), commandRun[r].tries + 1, successful)
            /\ UNCHANGED commandsHistory,
         Excuse(r, failed), sandbox' = sandbox, installed' \in [Sandbox -> SUBSET Cmd],
         \A i \in Sandbox : installed[i] \subseteq installed'[i],
         Range(successful) \subseteq installed'[commandRun[r].on],
         Range(commandRun[r].chunks[1]) \subseteq installed'[commandRun[r].on] \cup excused[commandRun[r].on] \cup failed
  PROVE  CommandsInv'
<1> DEFINE run == commandRun[r]
<1> DEFINE first == Range(run.chunks[1])
<1> DEFINE rec(pc, chunks, tries) ==
             [pc |-> pc, on |-> run.on, chunks |-> chunks, tries |-> tries, successful |-> successful]
<1>0. CommandsTypeOK /\ RunKept(run) /\ commandsHistory \in Seq(Cmd) /\ sandbox \in Sandbox
  BY DEF CommandsInv, CommandsTypeOK
<1>1. /\ run.on \in Sandbox /\ run.chunks \in Seq(Seq(Cmd)) /\ run.tries \in 0 .. 2 /\ run.chunks # <<>>
      /\ commandRun \in [CommandRun -> RunRecord]
  BY <1>0, CommandParts DEF RunKept, CommandsTypeOK
<1>2. /\ Tail(run.chunks) \in Seq(Seq(Cmd)) /\ InChunks(run.chunks) = first \cup InChunks(Tail(run.chunks))
      /\ (Len(run.chunks) > 1 => Tail(run.chunks) # <<>>) /\ (~(Len(run.chunks) > 1) => InChunks(run.chunks) = first)
  <2> HIDE DEF run
  <2> QED
    BY <1>1, ChunksParts
<1>3. ASSUME NEW rec0 \in RunRecord, commandRun' = [commandRun EXCEPT ![r] = rec0],
             rec0.on = run.on, rec0.successful = successful,
             rec0.pc \in {"executing", "regenerating"} => rec0.chunks # <<>>,
             rec0.pc = "regenerating" => rec0.chunks = run.chunks,
             InChunks(run.chunks) \subseteq InChunks(rec0.chunks) \cup first,
             \/ rec0.pc = "done" /\ commandsHistory' = commandsHistory \o successful
             \/ commandsHistory' = commandsHistory
      PROVE  CommandsInv'
  <2>1. commandRun'[r] = rec0
    BY <1>1, <1>3
  <2>2. /\ excused' \in [Sandbox -> SUBSET Cmd] /\ (\A i \in Sandbox : excused[i] \subseteq excused'[i])
        /\ failed \subseteq excused'[run.on]
        /\ (run.on # sandbox /\ rec0.pc = "done" => Range(successful) \subseteq excused'[sandbox])
    <3>1. commandRun'[r].successful \in Seq(Cmd) /\ commandRun'[r].successful = successful /\ commandRun'[r].pc = rec0.pc
      BY <1>3, <2>1
    <3> QED
      BY <1>0, <3>1, Excuses
  <2>3. first \subseteq installed'[run.on] \cup excused'[run.on]
    <3>1. excused[run.on] \subseteq excused'[run.on]
      BY <1>1, <2>2
    <3> QED
      BY <2>2, <3>1
  <2>4. commandsHistory' \in Seq(Cmd) /\ Range(commandsHistory') \subseteq Range(commandsHistory) \cup installed'[sandbox] \cup excused'[sandbox]
    <3>1. CASE commandsHistory' = commandsHistory
      BY <1>0, <3>1
    <3>2. CASE rec0.pc = "done" /\ commandsHistory' = commandsHistory \o successful
      <4>1. Listed(commandsHistory) /\ Listed(successful)
        BY <1>0, SeqListed
      <4>2. Range(commandsHistory') = Range(commandsHistory) \cup Range(successful)
        BY <3>2, <4>1, ListsJoined
      <4>3. commandsHistory' \in Seq(Cmd)
        BY <1>0, <3>2, ConcatProperties
      <4>4. Range(successful) \subseteq installed'[sandbox] \cup excused'[sandbox]
        BY <2>2, <3>2
      <4> QED
        BY <4>2, <4>3, <4>4
    <3> QED
      BY <1>3, <3>1, <3>2
  <2>5. \A i \in Sandbox : installed[i] \subseteq installed'[i] /\ excused[i] \subseteq excused'[i]
    BY <2>2
  <2>6. rec0.pc = "regenerating" => Range(rec0.chunks[1]) \subseteq installed'[rec0.on] \cup excused'[rec0.on]
    BY <1>3, <2>3
  <2>7. InChunks(run.chunks) \subseteq InChunks(rec0.chunks) \cup installed'[rec0.on] \cup excused'[rec0.on]
    BY <1>3, <2>3
  <2>8. Range(rec0.successful) \subseteq installed'[rec0.on]
    BY <1>3
  <2> QED
    BY <1>3, <2>2, <2>4, <2>5, <2>6, <2>7, <2>8, RunMoves
<1>4. ASSUME NEW pc \in {"executing", "regenerating", "done"}, NEW chunks \in Seq(Seq(Cmd)), NEW tries \in 0 .. 2,
             Proceed(r, pc, chunks, tries, successful),
             pc # "done" => chunks # <<>>, pc = "regenerating" => chunks = run.chunks,
             InChunks(run.chunks) \subseteq InChunks(chunks) \cup first,
             \/ pc = "done" /\ commandsHistory' = commandsHistory \o successful
             \/ commandsHistory' = commandsHistory
      PROVE  CommandsInv'
  <2> DEFINE new == rec(pc, chunks, tries)
  <2>1. /\ new \in RunRecord /\ new.pc = pc /\ new.chunks = chunks /\ new.on = run.on /\ new.successful = successful
    BY <1>1, <1>4 DEF RunRecord
  <2>2. commandRun' = [commandRun EXCEPT ![r] = new]
    BY <1>4 DEF Proceed
  <2> HIDE DEF new
  <2> QED
    BY <1>3, <1>4, <2>1, <2>2
<1>5. CASE ChunkOver(r, successful)
  <2>1. CASE Len(run.chunks) > 1
    <3>1. Proceed(r, "executing", Tail(run.chunks), 0, successful) /\ commandsHistory' = commandsHistory
      BY <1>5, <2>1 DEF ChunkOver
    <3> DEFINE rest == Tail(run.chunks)
    <3>2. 0 \in 0 .. 2 /\ rest \in Seq(Seq(Cmd)) /\ rest # <<>> /\ InChunks(run.chunks) \subseteq InChunks(rest) \cup first
      BY <1>2, <2>1
    <3> HIDE DEF rest, first
    <3>3. Proceed(r, "executing", rest, 0, successful)
      BY <3>1 DEF rest
    <3> QED
      BY <1>4, <3>1, <3>2, <3>3
  <2>2. CASE ~(Len(run.chunks) > 1)
    <3>1. Proceed(r, "done", <<>>, run.tries, successful) /\ commandsHistory' = commandsHistory \o successful
      BY <1>5, <2>2 DEF ChunkOver, Record
    <3>2. <<>> \in Seq(Seq(Cmd))
      BY EmptySeq
    <3> QED
      BY <1>1, <1>2, <1>4, <2>2, <3>1, <3>2
  <2> QED
    BY <2>1, <2>2
<1>6. CASE /\ Proceed(r, "regenerating", run.chunks, run.tries, successful)
           /\ UNCHANGED commandsHistory
  BY <1>1, <1>2, <1>4, <1>6
<1>7. CASE /\ run.tries # 2
           /\ Proceed(r, "executing", <<chunk>> \o Tail(run.chunks), run.tries + 1, successful)
           /\ UNCHANGED commandsHistory
  <2> DEFINE again == <<chunk>> \o Tail(run.chunks)
  <2>1. again \in Seq(Seq(Cmd)) /\ again # <<>> /\ InChunks(Tail(run.chunks)) \subseteq InChunks(again)
    BY <1>2, ChunkPutBack
  <2>2. run.tries + 1 \in 0 .. 2
    BY <1>1, <1>7
  <2>3. Proceed(r, "executing", again, run.tries + 1, successful) /\ commandsHistory' = commandsHistory
    BY <1>7
  <2> HIDE DEF again
  <2> QED
    BY <1>2, <1>4, <2>1, <2>2, <2>3
<1> QED
  BY <1>5, <1>6, <1>7

\* A try fails, and its chunk is not changed but for what a model answers.
LEMMA Retries ==
  ASSUME CommandsInv, NEW r \in CommandRun, commandRun[r].pc \in {"executing", "regenerating"},
         NEW failed \in SUBSET Cmd, NEW chunk \in Seq(Cmd), Retry(r, chunk),
         Excuse(r, failed), sandbox' = sandbox, installed' \in [Sandbox -> SUBSET Cmd],
         \A i \in Sandbox : installed[i] \subseteq installed'[i],
         Range(commandRun[r].chunks[1]) \subseteq installed'[commandRun[r].on] \cup excused[commandRun[r].on] \cup failed
  PROVE  CommandsInv'
<1>1. CommandsTypeOK /\ RunKept(commandRun[r])
  BY DEF CommandsInv
<1>2. commandRun[r].successful \in Seq(Cmd) /\ commandRun[r].on \in Sandbox
  BY <1>1, CommandParts
<1>3. Range(commandRun[r].successful) \subseteq installed'[commandRun[r].on]
  BY <1>1, <1>2 DEF RunKept
<1>4. \/ ChunkOver(r, commandRun[r].successful)
      \/ /\ commandRun[r].tries # 2
         /\ Proceed(r, "executing", <<chunk>> \o Tail(commandRun[r].chunks), commandRun[r].tries + 1,
                    commandRun[r].successful)
         /\ UNCHANGED commandsHistory
  BY DEF Retry
<1> QED
  BY <1>2, <1>3, <1>4, RunGoesOn

\* The steps of a run in which the sandbox or a model answers or fails.
LEMMA RunSteps ==
  ASSUME CommandsInv, NEW r \in CommandRun,
         \/ ChunkExecuted(r) \/ ChunkThrows(r) \/ RegenerationFails(r)
         \/ \E commands \in {<<>>} \cup {<<c>> : c \in Cmd} : Regenerated(r, commands)
  PROVE  CommandsInv'
<1> DEFINE run == commandRun[r]
<1> DEFINE chunk == run.chunks[1]
<1>1. CommandsTypeOK /\ RunKept(run) /\ installed \in [Sandbox -> SUBSET Cmd]
  BY DEF CommandsInv, CommandsTypeOK
<1>2. run.on \in Sandbox /\ run.chunks \in Seq(Seq(Cmd)) /\ run.successful \in Seq(Cmd)
  BY <1>1, CommandParts
<1>3. ASSUME run.pc \in {"executing", "regenerating"} PROVE chunk \in Seq(Cmd)
  <2>1. run.chunks # <<>>
    BY <1>1, <1>3 DEF RunKept
  <2> HIDE DEF run
  <2> QED
    BY <1>2, <2>1, ChunksParts
<1>4. ASSUME NEW S \in SUBSET DOMAIN chunk, chunk \in Seq(Cmd)
      PROVE  /\ At(r, S) \subseteq Cmd /\ Range(chunk) = At(r, S) \cup At(r, DOMAIN chunk \ S)
             /\ At(r, DOMAIN chunk \ S) \subseteq Cmd
  <2>1. Range(chunk) \subseteq Cmd
    BY <1>4, RangeOf
  <2>2. At(r, S) = {chunk[k] : k \in S} /\ At(r, DOMAIN chunk \ S) = {chunk[k] : k \in DOMAIN chunk \ S}
    BY DEF At
  <2>3. Range(chunk) = {chunk[k] : k \in DOMAIN chunk}
    BY DEF Range
  <2> HIDE DEF chunk
  <2> QED
    BY <2>1, <2>2, <2>3
<1>5. ASSUME NEW X \in SUBSET Cmd, installed' = [installed EXCEPT ![run.on] = @ \cup X]
      PROVE  /\ installed' \in [Sandbox -> SUBSET Cmd] /\ \A i \in Sandbox : installed[i] \subseteq installed'[i]
             /\ X \subseteq installed'[run.on]
  BY <1>1, <1>2, <1>5
<1>6. CASE ChunkExecuted(r)
  <2>1. PICK S \in SUBSET DOMAIN chunk :
          /\ run.pc = "executing" /\ sandbox' = sandbox
          /\ \/ ChunkOver(r, run.successful \o Picked(chunk, S))
             \/ /\ Proceed(r, "regenerating", run.chunks, run.tries, run.successful \o Picked(chunk, S))
                /\ UNCHANGED commandsHistory
          /\ installed' = [installed EXCEPT ![run.on] = @ \cup At(r, S)]
          /\ Excuse(r, At(r, DOMAIN chunk \ S))
    BY <1>6 DEF ChunkExecuted
  <2> DEFINE new == Picked(chunk, S)
  <2> DEFINE successful == run.successful \o new
  <2>2. chunk \in Seq(Cmd)
    BY <1>3, <2>1
  <2>3. new \in Seq(Cmd) /\ Range(new) = At(r, S)
    <3>1. At(r, S) = {chunk[k] : k \in S}
      BY DEF At
    <3> HIDE DEF chunk
    <3> QED
      BY <2>2, <3>1, PickedList
  <2>4. At(r, S) \in SUBSET Cmd /\ At(r, DOMAIN chunk \ S) \in SUBSET Cmd /\ Range(chunk) = At(r, S) \cup At(r, DOMAIN chunk \ S)
    BY <1>4, <2>2
  <2>5. /\ installed' \in [Sandbox -> SUBSET Cmd] /\ (\A i \in Sandbox : installed[i] \subseteq installed'[i])
        /\ At(r, S) \subseteq installed'[run.on]
    BY <1>5, <2>1, <2>4
  <2> HIDE DEF new
  <2>6. successful \in Seq(Cmd) /\ Range(successful) = Range(run.successful) \cup Range(new)
    <3>1. Listed(run.successful) /\ Listed(new)
      BY <1>2, <2>3, SeqListed
    <3> HIDE DEF run
    <3> QED
      BY <1>2, <2>3, <3>1, ListsJoined, ConcatProperties
  <2>7. Range(successful) \subseteq installed'[run.on]
    <3>1. Range(run.successful) \subseteq installed'[run.on]
      BY <1>1, <1>2, <2>5 DEF RunKept
    <3> QED
      BY <2>3, <2>5, <2>6, <3>1
  <2>8. Range(chunk) \subseteq installed'[run.on] \cup excused[run.on] \cup At(r, DOMAIN chunk \ S)
    BY <2>4, <2>5
  <2>9. \/ ChunkOver(r, successful)
        \/ /\ Proceed(r, "regenerating", run.chunks, run.tries, successful)
           /\ UNCHANGED commandsHistory
    BY <2>1 DEF new
  <2> HIDE DEF successful
  <2> QED
    BY <2>1, <2>2, <2>4, <2>5, <2>6, <2>7, <2>8, <2>9, RunGoesOn
<1>7. CASE ChunkThrows(r)
  <2>1. PICK S \in SUBSET DOMAIN chunk :
          /\ run.pc = "executing" /\ sandbox' = sandbox /\ Retry(r, chunk)
          /\ installed' = [installed EXCEPT ![run.on] = @ \cup At(r, S)]
          /\ Excuse(r, At(r, DOMAIN chunk \ S))
    BY <1>7 DEF ChunkThrows
  <2>2. chunk \in Seq(Cmd)
    BY <1>3, <2>1
  <2>3. At(r, S) \in SUBSET Cmd /\ At(r, DOMAIN chunk \ S) \in SUBSET Cmd /\ Range(chunk) = At(r, S) \cup At(r, DOMAIN chunk \ S)
    BY <1>4, <2>2
  <2>4. /\ installed' \in [Sandbox -> SUBSET Cmd] /\ (\A i \in Sandbox : installed[i] \subseteq installed'[i])
        /\ At(r, S) \subseteq installed'[run.on]
    BY <1>5, <2>1, <2>3
  <2>5. Range(chunk) \subseteq installed'[run.on] \cup excused[run.on] \cup At(r, DOMAIN chunk \ S)
    BY <2>3, <2>4
  <2> QED
    BY <2>1, <2>2, <2>3, <2>4, <2>5, Retries
<1>8. ASSUME NEW commands \in Seq(Cmd), run.pc = "regenerating", Retry(r, commands), Excuse(r, {}),
             sandbox' = sandbox, installed' = installed
      PROVE  CommandsInv'
  <2>1. Range(chunk) \subseteq installed'[run.on] \cup excused[run.on] \cup {}
    BY <1>1, <1>8 DEF RunKept
  <2>2. installed' \in [Sandbox -> SUBSET Cmd] /\ \A i \in Sandbox : installed[i] \subseteq installed'[i]
    BY <1>1, <1>8
  <2>3. {} \in SUBSET Cmd
    OBVIOUS
  <2> QED
    BY <1>8, <2>1, <2>2, <2>3, Retries
<1>9. CASE RegenerationFails(r)
  <2>1. run.pc = "regenerating" /\ Retry(r, chunk) /\ Excuse(r, {}) /\ sandbox' = sandbox /\ installed' = installed
    BY <1>9 DEF RegenerationFails
  <2>2. chunk \in Seq(Cmd)
    BY <1>3, <2>1
  <2> QED
    BY <1>8, <2>1, <2>2
<1>10. CASE \E commands \in {<<>>} \cup {<<c>> : c \in Cmd} : Regenerated(r, commands)
  <2>1. PICK commands \in {<<>>} \cup {<<c>> : c \in Cmd} : Regenerated(r, commands)
    BY <1>10
  <2>2. commands \in Seq(Cmd)
    <3>1. <<>> \in Seq(Cmd) /\ \A c \in Cmd : <<c>> \in Seq(Cmd)
      OBVIOUS
    <3> QED
      BY <3>1
  <2>3. run.pc = "regenerating" /\ Retry(r, commands) /\ Excuse(r, {}) /\ sandbox' = sandbox /\ installed' = installed
    BY <2>1 DEF Regenerated
  <2> QED
    BY <1>8, <2>2, <2>3
<1> QED
  BY <1>6, <1>7, <1>9, <1>10

\* Runs that are under way end without recording anything.
LEMMA Abandons ==
  ASSUME CommandsInv, NEW R \in SUBSET CommandRun, Abandon(R)
  PROVE  CommandsInv'
<1> DEFINE left(i) == UNION {Outstanding(r) : r \in {x \in R : commandRun[x].on = i}}
<1>0. CommandsTypeOK /\ HistoryInstalled /\ commandRun[sandbox].on = sandbox /\ \A x \in CommandRun : RunKept(commandRun[x])
  BY DEF CommandsInv
<1>1. /\ commandRun' = [r \in CommandRun |->
                          IF r \in R THEN [pc |-> "done", on |-> commandRun[r].on, chunks |-> <<>>,
                                           tries |-> commandRun[r].tries, successful |-> commandRun[r].successful]
                          ELSE commandRun[r]]
      /\ excused' = [i \in Sandbox |-> excused[i] \cup left(i)]
      /\ commandsHistory' = commandsHistory /\ sandbox' = sandbox /\ installed' = installed
  BY DEF Abandon
<1>2. /\ commandsHistory \in Seq(Cmd) /\ sandbox \in Sandbox /\ sandbox \in CommandRun
      /\ installed \in [Sandbox -> SUBSET Cmd] /\ excused \in [Sandbox -> SUBSET Cmd]
  BY <1>0 DEF CommandsTypeOK, CommandRun
<1>3. \A r \in CommandRun : Outstanding(r) = InChunks(commandRun[r].chunks) /\ Outstanding(r) \subseteq Cmd
  <2> SUFFICES ASSUME NEW r \in CommandRun PROVE Outstanding(r) = InChunks(commandRun[r].chunks) /\ Outstanding(r) \subseteq Cmd
    OBVIOUS
  <2>1. Outstanding(r) = InChunks(commandRun[r].chunks)
    BY DEF Outstanding, InChunks
  <2>2. InChunks(commandRun[r].chunks) \subseteq Cmd
    BY <1>0, CommandParts, ChunksTyped
  <2> QED
    BY <2>1, <2>2
<1>4. \A i \in Sandbox : left(i) \subseteq Cmd
  <2>1. \A r \in R : Outstanding(r) \subseteq Cmd
    BY <1>3
  <2> QED
    BY <2>1
<1>5. sandbox \in R => Outstanding(sandbox) \subseteq left(sandbox)
  <2> SUFFICES ASSUME sandbox \in R PROVE Outstanding(sandbox) \subseteq left(sandbox)
    OBVIOUS
  <2>1. sandbox \in {x \in R : commandRun[x].on = sandbox}
    BY <1>0
  <2> QED
    BY <2>1
<1> HIDE DEF left
<1>6. excused' \in [Sandbox -> SUBSET Cmd] /\ \A i \in Sandbox : excused'[i] = excused[i] \cup left(i)
  BY <1>1, <1>2, <1>4
<1>7. ASSUME NEW r \in CommandRun
      PROVE  commandRun'[r] \in RunRecord /\ commandRun'[r].on = commandRun[r].on /\ RunKept(commandRun[r])'
  <2>1. RunKept(commandRun[r]) /\ commandRun[r].on \in Sandbox
    BY <1>0, CommandParts
  <2>2. CASE r \notin R
    <3>1. commandRun'[r] = commandRun[r]
      BY <1>1, <2>2
    <3>2. RunKept(commandRun[r])'
      BY <1>1, <1>6, <2>1, <3>1 DEF RunKept
    <3> QED
      BY <1>0, <3>1, <3>2, CommandParts
  <2>3. CASE r \in R
    <3>1. commandRun'[r] = [pc |-> "done", on |-> commandRun[r].on, chunks |-> <<>>,
                            tries |-> commandRun[r].tries, successful |-> commandRun[r].successful]
      BY <1>1, <2>3
    <3>2. /\ commandRun'[r].pc = "done" /\ commandRun'[r].on = commandRun[r].on
          /\ commandRun'[r].successful = commandRun[r].successful
      BY <3>1
    <3>3. commandRun'[r] \in RunRecord
      <4>1. <<>> \in Seq(Seq(Cmd)) /\ commandRun[r].tries \in 0 .. 2 /\ commandRun[r].successful \in Seq(Cmd)
        BY <1>0, CommandParts, EmptySeq
      <4> QED
        BY <2>1, <3>1, <4>1 DEF RunRecord
    <3>4. RunKept(commandRun[r])'
      BY <1>1, <2>1, <3>2 DEF RunKept
    <3> QED
      BY <3>2, <3>3, <3>4
  <2> QED
    BY <2>2, <2>3
<1>8. CommandsTypeOK'
  <2>1. commandRun' \in [CommandRun -> RunRecord]
    BY <1>1, <1>7
  <2> QED
    BY <1>1, <1>2, <1>6, <2>1 DEF CommandsTypeOK
<1>9. HistoryInstalled'
  <2>1. Range(commandsHistory) \subseteq installed[sandbox] \cup excused[sandbox] \cup Outstanding(sandbox)
    BY <1>0 DEF HistoryInstalled
  <2>2. excused'[sandbox] = excused[sandbox] \cup left(sandbox)
    BY <1>2, <1>6
  <2>3. sandbox \notin R => commandRun'[sandbox] = commandRun[sandbox]
    BY <1>1, <1>2
  <2>4. sandbox \notin R => Outstanding(sandbox)' = Outstanding(sandbox)
    BY <1>1, <2>3 DEF Outstanding
  <2>5. Range(commandsHistory) \subseteq installed[sandbox] \cup excused'[sandbox] \cup Outstanding(sandbox)'
    BY <1>5, <2>1, <2>2, <2>4
  <2> QED
    BY <1>1, <2>5 DEF HistoryInstalled
<1> QED
  BY <1>0, <1>1, <1>2, <1>7, <1>8, <1>9 DEF CommandsInv

\* A run begins.
LEMMA Begins ==
  ASSUME NEW commands \in Seq(Cmd), NEW size \in Nat \ {0}, NEW i \in Sandbox
  PROVE  /\ Begun(commands, size, i) \in RunRecord /\ Begun(commands, size, i).on = i
         /\ RunKept(Begun(commands, size, i))
         /\ Range(commands) \subseteq InChunks(Begun(commands, size, i).chunks)
<1> DEFINE pieces == Chunks(commands, size)
<1>1. pieces \in Seq(Seq(Cmd)) /\ (commands # <<>> => pieces # <<>>) /\ Range(commands) \subseteq InChunks(pieces)
  BY ChunksWhole
<1>2. Begun(commands, size, i) = [pc |-> IF commands = <<>> THEN "done" ELSE "executing", on |-> i,
                                  chunks |-> pieces, tries |-> 0, successful |-> <<>>]
  BY DEF Begun
<1> HIDE DEF pieces
<1>3. <<>> \in Seq(Cmd) /\ Range(<<>>) = {} /\ 0 \in 0 .. 2
  BY EmptySeq DEF Range
<1>4. Begun(commands, size, i) \in RunRecord
  BY <1>1, <1>2, <1>3 DEF RunRecord
<1>5. RunKept(Begun(commands, size, i))
  BY <1>1, <1>2, <1>3 DEF RunKept
<1> QED
  BY <1>1, <1>2, <1>4, <1>5

\* A caller begins a run, or a new sandbox replays the history.
LEMMA RunsBegin ==
  ASSUME CommandsInv,
         \/ \E r \in CommandRequest, c, d \in Cmd : ExecuteCommands(r, <<c>>) \/ ExecuteCommands(r, <<c, d>>)
         \/ Redeploy
  PROVE  CommandsInv'
<1>0. CommandsTypeOK /\ HistoryInstalled /\ commandRun[sandbox].on = sandbox /\ \A x \in CommandRun : RunKept(commandRun[x])
  BY DEF CommandsInv
<1>1. /\ commandsHistory \in Seq(Cmd) /\ sandbox \in Sandbox /\ sandbox \in CommandRun
      /\ installed \in [Sandbox -> SUBSET Cmd] /\ excused \in [Sandbox -> SUBSET Cmd]
      /\ commandRun \in [CommandRun -> RunRecord]
  BY <1>0 DEF CommandsTypeOK, CommandRun
<1>2. chunkSize \in Nat \ {0} /\ replayChunkSize \in Nat \ {0} /\ MaxSandboxes \in Nat /\ CommandRequest \cap Sandbox = {}
  BY CommandsAssumption DEF Sandbox
<1>3. ASSUME NEW r \in CommandRun, NEW rec \in RunRecord, RunKept(rec), commandRun' = [commandRun EXCEPT ![r] = rec],
             installed' = installed, excused' = excused
      PROVE  /\ commandRun' \in [CommandRun -> RunRecord] /\ commandRun'[r] = rec
             /\ (\A x \in CommandRun : x # r => commandRun'[x] = commandRun[x])
             /\ \A x \in CommandRun : RunKept(commandRun[x])'
  <2>1. /\ commandRun' \in [CommandRun -> RunRecord] /\ commandRun'[r] = rec
        /\ \A x \in CommandRun : x # r => commandRun'[x] = commandRun[x]
    BY <1>1, <1>3
  <2>2. \A x \in CommandRun : RunKept(commandRun'[x])
    BY <1>0, <1>3, <2>1
  <2>3. \A x \in CommandRun : RunKept(commandRun[x])'
    BY <1>3, <2>2 DEF RunKept
  <2> QED
    BY <2>1, <2>3
<1>4. ASSUME NEW r \in CommandRequest, NEW commands \in Seq(Cmd), ExecuteCommands(r, commands)
      PROVE  CommandsInv'
  <2> DEFINE rec == Begun(commands, chunkSize, sandbox)
  <2>1. /\ commandRun' = [commandRun EXCEPT ![r] = rec]
        /\ commandsHistory' = commandsHistory /\ sandbox' = sandbox /\ installed' = installed /\ excused' = excused
    BY <1>4 DEF ExecuteCommands
  <2>2. r \in CommandRun /\ r # sandbox
    BY <1>1, <1>2 DEF CommandRun
  <2>3. rec \in RunRecord /\ RunKept(rec)
    BY <1>1, <1>2, <1>4, Begins
  <2> HIDE DEF rec
  <2>4. /\ commandRun' \in [CommandRun -> RunRecord] /\ commandRun'[sandbox] = commandRun[sandbox]
        /\ \A x \in CommandRun : RunKept(commandRun[x])'
    <3>1. /\ commandRun' \in [CommandRun -> RunRecord] /\ (\A x \in CommandRun : x # r => commandRun'[x] = commandRun[x])
          /\ \A x \in CommandRun : RunKept(commandRun[x])'
      BY <1>3, <2>1, <2>2, <2>3
    <3> QED
      BY <1>1, <2>2, <3>1
  <2>5. CommandsTypeOK'
    BY <1>1, <2>1, <2>4 DEF CommandsTypeOK
  <2>6. HistoryInstalled'
    BY <1>0, <2>1, <2>4 DEF HistoryInstalled, Outstanding
  <2> QED
    BY <1>0, <2>1, <2>4, <2>5, <2>6 DEF CommandsInv
<1>5. CASE Redeploy
  <2> DEFINE next == sandbox + 1
  <2> DEFINE rec == Begun(commandsHistory, replayChunkSize, next)
  <2>1. /\ sandbox < MaxSandboxes /\ sandbox' = next /\ commandRun' = [commandRun EXCEPT ![next] = rec]
        /\ commandsHistory' = commandsHistory /\ installed' = installed /\ excused' = excused
    BY <1>5 DEF Redeploy
  <2>2. next \in Sandbox /\ next \in CommandRun
    BY <1>1, <1>2, <2>1 DEF Sandbox, CommandRun
  <2> HIDE DEF next
  <2>3. rec \in RunRecord /\ rec.on = next /\ RunKept(rec) /\ Range(commandsHistory) \subseteq InChunks(rec.chunks)
    BY <1>1, <1>2, <2>2, Begins
  <2> HIDE DEF rec
  <2>4. /\ commandRun' \in [CommandRun -> RunRecord] /\ commandRun'[next] = rec
        /\ \A x \in CommandRun : RunKept(commandRun[x])'
    BY <1>3, <2>1, <2>2, <2>3
  <2>5. CommandsTypeOK'
    BY <1>1, <2>1, <2>2, <2>4 DEF CommandsTypeOK
  <2>6. Outstanding(sandbox)' = InChunks(rec.chunks)
    BY <2>1, <2>4 DEF Outstanding, InChunks
  <2>7. HistoryInstalled'
    BY <2>1, <2>3, <2>6 DEF HistoryInstalled
  <2> QED
    BY <2>1, <2>3, <2>4, <2>5, <2>7 DEF CommandsInv
<1>6. (\A c \in Cmd : <<c>> \in Seq(Cmd)) /\ \A c, d \in Cmd : <<c, d>> \in Seq(Cmd)
  OBVIOUS
<1> QED
  BY <1>4, <1>5, <1>6, Zenon

\* Nothing has been run at first.
LEMMA CommandsStart == CommandsInit => CommandsInv
<1> SUFFICES ASSUME CommandsInit PROVE CommandsInv
  OBVIOUS
<1> DEFINE idle == [pc |-> "idle", on |-> 1, chunks |-> <<>>, tries |-> 0, successful |-> <<>>]
<1>1. /\ commandsHistory = <<>> /\ sandbox = 1 /\ commandRun = [r \in CommandRun |-> idle]
      /\ installed = [i \in Sandbox |-> {}] /\ excused = [i \in Sandbox |-> {}]
  BY DEF CommandsInit
<1>2. 1 \in Sandbox /\ 1 \in CommandRun
  BY CommandsAssumption DEF Sandbox, CommandRun
<1>3. <<>> \in Seq(Cmd) /\ <<>> \in Seq(Seq(Cmd)) /\ Range(<<>>) = {} /\ 0 \in 0 .. 2
  BY EmptySeq DEF Range
<1>4. idle \in RunRecord /\ idle.on = 1 /\ RunKept(idle)
  BY <1>2, <1>3 DEF RunRecord, RunKept
<1> HIDE DEF idle
<1>5. CommandsTypeOK
  BY <1>1, <1>2, <1>3, <1>4 DEF CommandsTypeOK
<1>6. HistoryInstalled
  BY <1>1, <1>3 DEF HistoryInstalled
<1> QED
  BY <1>1, <1>2, <1>4, <1>5, <1>6 DEF CommandsInv

\* The invariant of the commands.
LEMMA AlwaysCommands == CommandsSpec => []CommandsInv
<1>1. CommandsInv /\ [CommandsNext]_commandVars => CommandsInv'
  <2> SUFFICES ASSUME CommandsInv, [CommandsNext]_commandVars PROVE CommandsInv'
    OBVIOUS
  <2>1. ASSUME NEW r \in CommandRun, RunStep(r) PROVE CommandsInv'
    <3>1. CASE NoResults(r)
      <4>1. Abandon({r}) /\ {r} \in SUBSET CommandRun
        BY <3>1 DEF NoResults
      <4> QED
        BY <4>1, Abandons
    <3> QED
      BY <2>1, <3>1, RunSteps DEF RunStep
  <2>2. CASE EvictRuns
    <3>1. Abandon(ActiveRuns) /\ ActiveRuns \in SUBSET CommandRun
      BY <2>2 DEF EvictRuns, ActiveRuns
    <3> QED
      BY <3>1, Abandons
  <2>3. CASE UNCHANGED commandVars
    <3>1. UNCHANGED <<commandsHistory, sandbox, commandRun, installed, excused>>
      BY <2>3 DEF commandVars
    <3>2. CommandsTypeOK' /\ commandRun'[sandbox'].on = sandbox'
      BY <3>1 DEF CommandsInv, CommandsTypeOK
    <3>3. Outstanding(sandbox)' = Outstanding(sandbox)
      BY <3>1 DEF Outstanding
    <3>4. HistoryInstalled'
      BY <3>1, <3>3 DEF CommandsInv, HistoryInstalled
    <3>5. ASSUME NEW r \in CommandRun PROVE RunKept(commandRun[r])'
      BY <3>1 DEF CommandsInv, RunKept
    <3> QED
      BY <3>2, <3>4, <3>5 DEF CommandsInv
  <2> QED
    BY <2>1, <2>2, <2>3, RunsBegin DEF CommandsNext
<1> QED
  BY <1>1, CommandsStart, PTL DEF CommandsSpec

\* The history, the runs and the sandboxes stay within their types; no run tries a
\* chunk more than three times.
THEOREM CommandsTypeCorrect == CommandsSpec => []CommandsTypeOK
<1>1. CommandsInv => CommandsTypeOK
  BY DEF CommandsInv
<1> QED
  BY <1>1, AlwaysCommands, PTL

\* Whatever fails, throws or is evicted, the current sandbox has what the history says,
\* is excused for it, or will still come to it in the replay.
THEOREM HistoryReplayed == CommandsSpec => []HistoryInstalled
<1>1. CommandsInv => HistoryInstalled
  BY DEF CommandsInv
<1> QED
  BY <1>1, AlwaysCommands, PTL

-----------------------------------------------------------------------------
(* The chat page's connection.  The retries are bounded because retryCount *)
(* accounts for every retry made or pending; the page is never stranded    *)
(* because a socket that is replaced or fails always leaves something      *)
(* behind that reports it.                                                 *)

ChatTypes ==
    /\ connectionStatus \in {"idle", "connecting", "connected", "failed", "retrying"}
    /\ retryCount \in 0 .. maxRetries /\ retryTimeouts \in Nat
    /\ socket \in [Socket -> ReadyState]
    /\ websocket \in 0 .. MaxSockets /\ rendered \in 0 .. MaxSockets
    /\ mounted \in BOOLEAN /\ dismissed \in BOOLEAN
    /\ attempts \in Nat

\* Before the first connect nothing has happened.
IdleIsFresh ==
    connectionStatus = "idle" =>
        /\ retryTimeouts = 0 /\ attempts = 0 /\ websocket = 0 /\ rendered = 0
        /\ \A s \in Socket : socket[s] = "none"

\* Sockets are created in order.
SocketsInOrder == \A s, t \in Socket : t < s /\ socket[s] # "none" => socket[t] # "none"

\* retryCount is reset only together with the timers, so it counts the retries
\* that were made and those that are pending.
Counting == attempts + retryTimeouts <= retryCount

\* Between a retry and the render of its socket two sockets may be live.
LiveSockets ==
    mounted => \A s \in Socket :
        socket[s] \in {"connecting", "open"} => s = websocket \/ s = rendered

\* The page that is not dismissed has something to wait for: a timer, its own
\* connection attempt, or, while connected, the close of a socket that is open,
\* which will be reported; or it has used up its retries.
Awaited ==
    mounted /\ connectionStatus # "idle" =>
        \/ dismissed
        \/ retryTimeouts > 0
        \/ connectionStatus = "failed" /\ retryCount = maxRetries
        \/ websocket # 0 /\ socket[websocket] = "connecting"
        \/ /\ connectionStatus = "connected"
           /\ \E s \in Socket : \/ socket[s] = "closing"
                                \/ socket[s] = "open" /\ (s = websocket \/ rendered # websocket)

ChatInv == ChatTypes /\ IdleIsFresh /\ SocketsInOrder /\ Counting /\ LiveSockets /\ Awaited

-----------------------------------------------------------------------------
\* What the invariant is for: it implies the four properties of the page.
LEMMA ChatInvImplies ==
  ASSUME ChatInv
  PROVE  ChatTypeOK /\ RetriesBounded /\ NeverStranded /\ OnlyOwnSocket
<1> USE ChatAssumption
<1>1. ChatTypeOK
  <2>1. retryTimeouts \in 0 .. maxRetries
    BY DEF ChatInv, ChatTypes, Counting
  <2>2. attempts \in 0 .. maxRetries
    BY DEF ChatInv, ChatTypes, Counting
  <2> QED
    BY <2>1, <2>2 DEF ChatInv, ChatTypes, ChatTypeOK
<1>2. RetriesBounded
  BY DEF ChatInv, ChatTypes, Counting, RetriesBounded
<1>3. NeverStranded
  <2> SUFFICES ASSUME mounted, Quiet, connectionStatus # "idle", ~dismissed,
                      ~(connectionStatus = "failed" /\ retryCount = maxRetries)
               PROVE  websocket # 0 /\ socket[websocket] = "open"
    BY DEF NeverStranded
  <2>1. websocket # 0 => websocket \in Socket
    BY DEF ChatInv, ChatTypes, Socket
  <2>4. 0 \notin Socket
    BY DEF Socket
  <2>2. rendered = websocket /\ ~(retryTimeouts > 0)
    BY DEF Quiet
  <2>3. \A s \in Socket : socket[s] # "connecting" /\ socket[s] # "closing"
    BY DEF Quiet
  <2> QED
    BY <2>1, <2>2, <2>3, <2>4 DEF ChatInv, Awaited
<1>4. OnlyOwnSocket
  BY DEF ChatInv, LiveSockets, OnlyOwnSocket
<1> QED
  BY <1>1, <1>2, <1>3, <1>4

\* A socket that is created is the one the page waits for.
LEMMA AttemptKeeps ==
  ASSUME ChatInv, NEW s \in Socket, NEW status \in {"connecting", "retrying"},
         Attempt(s, status), mounted => rendered = websocket
  PROVE  /\ connectionStatus' = status
         /\ socket' \in [Socket -> ReadyState] /\ websocket' \in 0 .. MaxSockets
         /\ rendered' = rendered /\ mounted' = mounted /\ dismissed' \in BOOLEAN
         /\ SocketsInOrder' /\ LiveSockets' /\ Awaited'
<1> USE ChatAssumption
<1>1. socket \in [Socket -> ReadyState] /\ mounted \in BOOLEAN /\ websocket \in 0 .. MaxSockets
  BY DEF ChatInv, ChatTypes
<1>2. /\ socket[s] = "none" /\ \A t \in Socket : t < s => socket[t] # "none"
      /\ socket' = [socket EXCEPT ![s] = "connecting"]
  BY DEF Attempt, NewSocket
<1>3. /\ socket' \in [Socket -> ReadyState] /\ socket'[s] = "connecting"
      /\ \A t \in Socket : t # s => socket'[t] = socket[t]
  BY <1>1, <1>2 DEF ReadyState
<1>4. SocketsInOrder'
  BY <1>2, <1>3 DEF ChatInv, SocketsInOrder, Socket
<1>5. /\ connectionStatus' = status /\ websocket' = (IF mounted THEN s ELSE websocket)
      /\ rendered' = rendered /\ mounted' = mounted /\ dismissed' \in BOOLEAN
  <2>1. dismissed' \in BOOLEAN
    BY Zenon DEF Attempt
  <2> QED
    BY <2>1 DEF Attempt
<1>6. websocket' \in 0 .. MaxSockets
  BY <1>1, <1>5 DEF Socket
<1>7. LiveSockets'
  BY <1>3, <1>5 DEF ChatInv, LiveSockets
<1>8. Awaited'
  <2>1. mounted => websocket' = s /\ s # 0
    BY <1>5 DEF Socket
  <2> QED
    BY <1>3, <1>5, <2>1 DEF Awaited
<1> QED
  BY <1>3, <1>4, <1>5, <1>6, <1>7, <1>8

\* A reported failure leaves a timer or a page that has used up its retries.
LEMMA FailureKeeps ==
  ASSUME ChatInv, NEW pending \in Nat, NEW made \in Nat, FailureReported(pending),
         attempts' = made, made + pending = attempts + retryTimeouts
  PROVE  /\ connectionStatus' = "failed"
         /\ retryCount' \in 0 .. maxRetries /\ retryTimeouts' \in Nat /\ Counting'
         /\ retryTimeouts' > 0 \/ retryCount' = maxRetries
         /\ Awaited'
<1> USE ChatAssumption
<1>1. retryCount \in 0 .. maxRetries /\ retryTimeouts \in Nat /\ attempts \in Nat
  BY DEF ChatInv, ChatTypes
<1>2. connectionStatus' = "failed"
  BY DEF FailureReported
<1>3. /\ retryCount' \in 0 .. maxRetries /\ retryTimeouts' \in Nat
      /\ retryTimeouts' > 0 \/ retryCount' = maxRetries
  BY <1>1 DEF FailureReported
<1>4. Counting'
  <2>1. made + pending <= retryCount
    BY DEF ChatInv, Counting
  <2>2. made + (pending + 1) <= retryCount + 1
    BY <1>1, <2>1
  <2>3. \/ retryCount' = retryCount /\ retryTimeouts' = pending
        \/ retryCount' = retryCount + 1 /\ retryTimeouts' = pending + 1
    BY DEF FailureReported
  <2> QED
    BY <2>1, <2>2, <2>3 DEF Counting
<1>5. CASE retryTimeouts' > 0
  <2>1. Awaited'
    BY <1>5 DEF Awaited
  <2> QED
    BY <1>2, <1>3, <1>4, <2>1
<1>6. CASE retryCount' = maxRetries
  <2>1. Awaited'
    BY <1>2, <1>6 DEF Awaited
  <2> QED
    BY <1>2, <1>3, <1>4, <2>1
<1> QED
  BY <1>3, <1>5, <1>6

\* The same for a failure that a handler reports.
LEMMA HandlerKeeps ==
  ASSUME ChatInv, HandleConnectionFailure, attempts' = attempts
  PROVE  /\ connectionStatus' = "failed"
         /\ retryCount' \in 0 .. maxRetries /\ retryTimeouts' \in Nat /\ Counting'
         /\ Awaited'
<1>1. retryTimeouts \in Nat /\ attempts \in Nat
  BY DEF ChatInv, ChatTypes
<1>2. attempts' + retryTimeouts = attempts + retryTimeouts
  OBVIOUS
<1> QED
  BY <1>1, <1>2, FailureKeeps DEF HandleConnectionFailure

\* A socket changes its state and is not made live by it.
LEMMA SocketChanges ==
  ASSUME ChatInv, NEW s \in Socket, NEW r \in ReadyState, socket[s] # "none",
         r # "none", r \in {"connecting", "open"} => socket[s] \in {"connecting", "open"},
         socket' = [socket EXCEPT ![s] = r], UNCHANGED page, attempts' \in {0, attempts}
  PROVE  /\ socket' \in [Socket -> ReadyState] /\ SocketsInOrder' /\ LiveSockets'
         /\ websocket' \in 0 .. MaxSockets /\ rendered' \in 0 .. MaxSockets
         /\ mounted' \in BOOLEAN /\ attempts' \in Nat
         /\ connectionStatus # "idle"
<1> USE ChatAssumption
<1>1. /\ socket \in [Socket -> ReadyState] /\ attempts \in Nat
      /\ websocket \in 0 .. MaxSockets /\ rendered \in 0 .. MaxSockets /\ mounted \in BOOLEAN
  BY DEF ChatInv, ChatTypes
<1>2. /\ socket' \in [Socket -> ReadyState] /\ socket'[s] = r
      /\ \A t \in Socket : t # s => socket'[t] = socket[t]
  BY <1>1
<1>3. \A t \in Socket : socket'[t] = "none" <=> socket[t] = "none"
  BY <1>2
<1>4. SocketsInOrder'
  BY <1>1, <1>3 DEF ChatInv, SocketsInOrder, Socket
<1>5. /\ websocket' = websocket /\ rendered' = rendered /\ mounted' = mounted
  BY DEF page
<1>6. LiveSockets'
  BY <1>2, <1>5 DEF ChatInv, LiveSockets
<1>7. connectionStatus # "idle"
  BY DEF ChatInv, IdleIsFresh
<1> QED
  BY <1>1, <1>2, <1>4, <1>5, <1>6, <1>7

\* The page's effect: the socket rendered before is closed.
LEMMA CleanupKeeps ==
  ASSUME ChatInv, socket' = IF rendered = 0 THEN socket ELSE Closed(rendered),
         attempts' = attempts
  PROVE  /\ socket' \in [Socket -> ReadyState] /\ SocketsInOrder'
         /\ \A t \in Socket : t # rendered => socket'[t] = socket[t]
         /\ \A t \in Socket : socket'[t] = "none" <=> socket[t] = "none"
         /\ rendered # 0 => /\ socket'[rendered] \notin {"connecting", "open"}
                            /\ socket[rendered] = "open" => socket'[rendered] = "closing"
                            /\ socket[rendered] = "closing" => socket'[rendered] = "closing"
<1> USE ChatAssumption
<1>1. socket \in [Socket -> ReadyState] /\ rendered \in 0 .. MaxSockets
  BY DEF ChatInv, ChatTypes
<1>2. CASE rendered = 0
  BY <1>1, <1>2 DEF ChatInv, SocketsInOrder
<1>3. CASE rendered # 0
  <2>1. rendered \in Socket
    BY <1>1, <1>3 DEF Socket
  <2>2. /\ \A t \in Socket : t # rendered => socket'[t] = socket[t]
        /\ socket'[rendered] = CASE socket[rendered] = "connecting" -> "failing"
                                 [] socket[rendered] = "open" -> "closing"
                                 [] OTHER -> socket[rendered]
        /\ DOMAIN socket' = Socket /\ socket' = [t \in Socket |-> socket'[t]]
    BY <1>1, <1>3, <2>1 DEF Closed
  <2>3. /\ socket'[rendered] \in ReadyState
        /\ socket'[rendered] = "none" <=> socket[rendered] = "none"
        /\ socket'[rendered] \notin {"connecting", "open"}
        /\ socket[rendered] = "open" => socket'[rendered] = "closing"
        /\ socket[rendered] = "closing" => socket'[rendered] = "closing"
    BY <1>1, <2>1, <2>2 DEF ReadyState
  <2>4. socket' \in [Socket -> ReadyState]
    BY <1>1, <2>2, <2>3
  <2>5. \A t \in Socket : socket'[t] = "none" <=> socket[t] = "none"
    BY <2>2, <2>3
  <2>6. SocketsInOrder'
    BY <2>5 DEF ChatInv, SocketsInOrder
  <2> QED
    BY <2>2, <2>3, <2>4, <2>5, <2>6
<1> QED
  BY <1>2, <1>3

-----------------------------------------------------------------------------
\* The page as it is opened.
LEMMA ChatInitially == ChatInit => ChatInv
<1> SUFFICES ASSUME ChatInit PROVE ChatInv
  OBVIOUS
<1> USE ChatAssumption
<1>1. mounted \in BOOLEAN /\ dismissed \in BOOLEAN
  BY Zenon DEF ChatInit
<1>2. ChatTypes
  BY <1>1 DEF ChatInit, ChatTypes, ReadyState
<1>3. IdleIsFresh /\ SocketsInOrder /\ Counting
  BY DEF ChatInit, IdleIsFresh, SocketsInOrder, Counting
<1>4. LiveSockets /\ Awaited
  BY DEF ChatInit, LiveSockets, Awaited
<1> QED
  BY <1>2, <1>3, <1>4 DEF ChatInv

\* Every step of the page keeps the invariant.
LEMMA ChatStep == ChatInv /\ [ChatNext]_chatVars => ChatInv'
<1> SUFFICES ASSUME ChatInv, [ChatNext]_chatVars PROVE ChatInv'
  OBVIOUS
<1> USE ChatAssumption
<1>1. ASSUME NEW s \in Socket, Connect(s) PROVE ChatInv'
  <2>1. /\ Attempt(s, "connecting") /\ retryCount' = 0
        /\ retryTimeouts' = retryTimeouts /\ attempts' = attempts
    BY <1>1 DEF Connect
  <2>2. retryTimeouts = 0 /\ attempts = 0 /\ rendered = websocket
    BY <1>1 DEF Connect, ChatInv, IdleIsFresh
  <2>3. /\ connectionStatus' = "connecting"
        /\ socket' \in [Socket -> ReadyState] /\ websocket' \in 0 .. MaxSockets
        /\ rendered' = rendered /\ mounted' = mounted /\ dismissed' \in BOOLEAN
        /\ SocketsInOrder' /\ LiveSockets' /\ Awaited'
    BY <2>1, <2>2, AttemptKeeps
  <2>5. ChatTypes'
    BY <2>1, <2>2, <2>3 DEF ChatInv, ChatTypes
  <2>6. IdleIsFresh' /\ Counting'
    BY <2>1, <2>2, <2>3 DEF IdleIsFresh, Counting
  <2> QED
    BY <2>3, <2>5, <2>6 DEF ChatInv
<1>2. ASSUME NEW s \in Socket, RetryFires(s) PROVE ChatInv'
  <2>1. /\ Attempt(s, "retrying") /\ retryCount' = retryCount
        /\ retryTimeouts > 0 /\ retryTimeouts' = retryTimeouts - 1 /\ attempts' = attempts + 1
        /\ mounted => rendered = websocket
    BY <1>2 DEF RetryFires, RetryDue
  <2>2. retryTimeouts \in Nat /\ attempts \in Nat /\ retryCount \in 0 .. maxRetries
    BY DEF ChatInv, ChatTypes
  <2>3. retryTimeouts' \in Nat /\ attempts' \in Nat /\ Counting'
    BY <2>1, <2>2 DEF ChatInv, Counting
  <2>4. /\ connectionStatus' = "retrying"
        /\ socket' \in [Socket -> ReadyState] /\ websocket' \in 0 .. MaxSockets
        /\ rendered' = rendered /\ mounted' = mounted /\ dismissed' \in BOOLEAN
        /\ SocketsInOrder' /\ LiveSockets' /\ Awaited'
    BY <2>1, AttemptKeeps
  <2>5. ChatTypes' /\ IdleIsFresh'
    BY <2>1, <2>2, <2>3, <2>4 DEF ChatInv, ChatTypes, IdleIsFresh
  <2> QED
    BY <2>3, <2>4, <2>5 DEF ChatInv
<1>3. ASSUME NEW s \in Socket, Open(s) PROVE ChatInv'
  <2>1. /\ socket[s] = "connecting" /\ socket' = [socket EXCEPT ![s] = "open"]
        /\ UNCHANGED page /\ attempts' = 0 /\ retryCount' = 0 /\ retryTimeouts' = 0
        /\ connectionStatus' = "connected" /\ dismissed' = dismissed
    BY <1>3 DEF Open
  <2>2. /\ socket' \in [Socket -> ReadyState] /\ SocketsInOrder' /\ LiveSockets'
        /\ websocket' \in 0 .. MaxSockets /\ rendered' \in 0 .. MaxSockets
        /\ mounted' \in BOOLEAN /\ attempts' \in Nat
    BY <2>1, SocketChanges, "open" \in ReadyState DEF ReadyState
  <2>3. ChatTypes'
    BY <2>1, <2>2 DEF ChatInv, ChatTypes
  <2>4. IdleIsFresh' /\ Counting'
    BY <2>1 DEF IdleIsFresh, Counting
  <2>5. Awaited'
    <3>1. socket'[s] = "open"
      BY <2>1 DEF ChatInv, ChatTypes
    <3>2. mounted => s = websocket \/ s = rendered
      BY <2>1 DEF ChatInv, LiveSockets
    <3> QED
      BY <2>1, <3>1, <3>2 DEF Awaited, page
  <2> QED
    BY <2>2, <2>3, <2>4, <2>5 DEF ChatInv
<1>4. ASSUME NEW s \in Socket, NEW r \in ReadyState, socket[s] # "none",
             r \notin {"none", "connecting", "open"},
             socket' = [socket EXCEPT ![s] = r], HandleConnectionFailure,
             UNCHANGED page, attempts' = attempts
      PROVE  dismissed' \in BOOLEAN => ChatInv'
  <2>1. /\ socket' \in [Socket -> ReadyState] /\ SocketsInOrder' /\ LiveSockets'
        /\ websocket' \in 0 .. MaxSockets /\ rendered' \in 0 .. MaxSockets
        /\ mounted' \in BOOLEAN /\ attempts' \in Nat
    BY <1>4, SocketChanges
  <2>2. /\ connectionStatus' = "failed"
        /\ retryCount' \in 0 .. maxRetries /\ retryTimeouts' \in Nat /\ Counting' /\ Awaited'
    BY <1>4, HandlerKeeps
  <2> QED
    BY <1>4, <2>1, <2>2 DEF ChatInv, ChatTypes, IdleIsFresh
<1>5. ASSUME NEW s \in Socket, ConnectionTimeout(s) PROVE ChatInv'
  <2>1. socket[s] = "connecting" /\ socket' = [socket EXCEPT ![s] = "failing"]
    BY <1>5 DEF ConnectionTimeout, Closed, ChatInv, ChatTypes
  <2>2. "failing" \in ReadyState /\ dismissed \in BOOLEAN
    BY DEF ReadyState, ChatInv, ChatTypes
  <2> QED
    BY <1>4, <1>5, <2>1, <2>2 DEF ConnectionTimeout
<1>6. ASSUME NEW s \in Socket, ErrorEvent(s) PROVE ChatInv'
  <2>1. "closed" \in ReadyState /\ dismissed \in BOOLEAN
    BY DEF ReadyState, ChatInv, ChatTypes
  <2> QED
    BY <1>4, <1>6, <2>1 DEF ErrorEvent
<1>7. ASSUME NEW s \in Socket, NEW code \in {NormalClosure, NoStatus}, CloseEvent(s, code) PROVE ChatInv'
  <2>1. /\ socket[s] \in {"open", "closing"} /\ socket' = [socket EXCEPT ![s] = "closed"]
        /\ UNCHANGED page /\ attempts' = attempts
    BY <1>7, Zenon DEF CloseEvent
  <2>2. dismissed' \in BOOLEAN /\ (dismissed' <=> (dismissed \/ code = NormalClosure))
    <3>1. dismissed' = (dismissed \/ code = NormalClosure)
      BY <1>7, Zenon DEF CloseEvent
    <3> QED
      BY <3>1, Zenon
  <2>3. /\ "closed" \in ReadyState /\ "closed" \notin {"none", "connecting", "open"}
        /\ socket[s] # "none" /\ dismissed' \in BOOLEAN /\ attempts' \in {0, attempts}
    BY <2>1, <2>2 DEF ReadyState
  <2>4. /\ socket' \in [Socket -> ReadyState] /\ SocketsInOrder' /\ LiveSockets'
        /\ websocket' \in 0 .. MaxSockets /\ rendered' \in 0 .. MaxSockets
        /\ mounted' \in BOOLEAN /\ attempts' \in Nat /\ connectionStatus # "idle"
    BY <2>1, <2>3, SocketChanges
  <2>5. CASE code # NormalClosure /\ connectionStatus = "connected"
    <3>1. HandleConnectionFailure
      BY <1>7, <2>5, Zenon DEF CloseEvent
    <3>2. /\ connectionStatus' = "failed"
          /\ retryCount' \in 0 .. maxRetries /\ retryTimeouts' \in Nat /\ Counting' /\ Awaited'
      BY <2>1, <3>1, HandlerKeeps
    <3> QED
      BY <2>2, <2>4, <3>2 DEF ChatInv, ChatTypes, IdleIsFresh
  <2>6. CASE ~(code # NormalClosure /\ connectionStatus = "connected")
    <3>1. /\ connectionStatus' = connectionStatus /\ retryCount' = retryCount
          /\ retryTimeouts' = retryTimeouts
      BY <1>7, <2>6, Zenon DEF CloseEvent
    <3>2. ChatTypes' /\ IdleIsFresh' /\ Counting'
      BY <2>1, <2>2, <2>4, <3>1 DEF ChatInv, ChatTypes, IdleIsFresh, Counting
    <3>3. Awaited'
      <4>1. CASE code = NormalClosure
        BY <2>2, <4>1 DEF Awaited
      <4>2. CASE connectionStatus # "connected"
        <5> SUFFICES ASSUME mounted, ~dismissed, ~(retryTimeouts > 0),
                            ~(connectionStatus = "failed" /\ retryCount = maxRetries)
                     PROVE  websocket # 0 /\ socket'[websocket] = "connecting"
          BY <2>1, <2>2, <3>1 DEF Awaited, page
        <5>1. websocket # 0 /\ socket[websocket] = "connecting"
          BY <2>4, <4>2 DEF ChatInv, Awaited
        <5>2. websocket \in Socket /\ websocket # s
          BY <5>1, <2>1 DEF ChatInv, ChatTypes, Socket
        <5> QED
          BY <5>1, <5>2, <2>1 DEF ChatInv, ChatTypes
      <4> QED
        BY <2>6, <4>1, <4>2
    <3> QED
      BY <2>4, <3>2, <3>3 DEF ChatInv
  <2> QED
    BY <2>5, <2>6
<1>8. ASSUME Commit PROVE ChatInv'
  <2>1. /\ mounted /\ rendered # websocket /\ rendered' = websocket
        /\ socket' = IF rendered = 0 THEN socket ELSE Closed(rendered)
        /\ UNCHANGED <<connectionStatus, retryCount, retryTimeouts, websocket, mounted,
                       dismissed, attempts>>
    BY <1>8 DEF Commit
  <2>2. /\ socket' \in [Socket -> ReadyState] /\ SocketsInOrder'
        /\ \A t \in Socket : t # rendered => socket'[t] = socket[t]
        /\ \A t \in Socket : socket'[t] = "none" <=> socket[t] = "none"
        /\ rendered # 0 => /\ socket'[rendered] \notin {"connecting", "open"}
                           /\ socket[rendered] = "open" => socket'[rendered] = "closing"
                           /\ socket[rendered] = "closing" => socket'[rendered] = "closing"
    BY <2>1, CleanupKeeps
  <2>3. ChatTypes' /\ Counting'
    BY <2>1, <2>2 DEF ChatInv, ChatTypes, Counting
  <2>4. IdleIsFresh'
    BY <2>1, <2>2 DEF ChatInv, IdleIsFresh
  <2>5. LiveSockets'
    <3>1. 0 \notin Socket
      BY DEF Socket
    <3> QED
      BY <2>1, <2>2, <3>1 DEF ChatInv, LiveSockets
  <2>6. Awaited'
    <3> SUFFICES ASSUME connectionStatus # "idle", ~dismissed, ~(retryTimeouts > 0),
                        ~(connectionStatus = "failed" /\ retryCount = maxRetries),
                        ~(websocket # 0 /\ socket'[websocket] = "connecting")
                 PROVE  /\ connectionStatus = "connected"
                        /\ \E s \in Socket : \/ socket'[s] = "closing"
                                             \/ socket'[s] = "open" /\ s = websocket
      BY <2>1 DEF Awaited
    <3>1. websocket # 0 => websocket \in Socket /\ socket'[websocket] = socket[websocket]
      BY <2>1, <2>2 DEF ChatInv, ChatTypes, Socket
    <3>2. PICK s \in Socket : \/ socket[s] = "closing"
                              \/ socket[s] = "open" /\ (s = websocket \/ rendered # websocket)
      BY <2>1, <3>1 DEF ChatInv, Awaited
    <3>3. connectionStatus = "connected"
      BY <2>1, <3>1 DEF ChatInv, Awaited
    <3>4. 0 \notin Socket
      BY DEF Socket
    <3>5. CASE s = rendered
      <4>1. socket'[s] = "closing"
        BY <2>2, <3>2, <3>4, <3>5
      <4> QED
        BY <3>3, <4>1
    <3>6. CASE s # rendered
      <4>1. socket[s] = "open" => s = websocket
        BY <2>1, <3>6 DEF ChatInv, LiveSockets
      <4> QED
        BY <2>2, <3>2, <3>3, <3>6, <4>1
    <3> QED
      BY <3>5, <3>6
  <2> QED
    BY <2>2, <2>3, <2>4, <2>5, <2>6 DEF ChatInv
<1>9. ASSUME Unmount PROVE ChatInv'
  <2>1. /\ mounted' = FALSE
        /\ socket' = IF rendered = 0 THEN socket ELSE Closed(rendered)
        /\ UNCHANGED <<connectionStatus, retryCount, retryTimeouts, websocket, rendered,
                       dismissed, attempts>>
    BY <1>9 DEF Unmount
  <2>2. /\ socket' \in [Socket -> ReadyState] /\ SocketsInOrder'
        /\ \A t \in Socket : socket'[t] = "none" <=> socket[t] = "none"
    BY <2>1, CleanupKeeps
  <2>3. ChatTypes' /\ Counting'
    BY <2>1, <2>2 DEF ChatInv, ChatTypes, Counting
  <2>4. IdleIsFresh' /\ LiveSockets' /\ Awaited'
    BY <2>1, <2>2 DEF ChatInv, IdleIsFresh, LiveSockets, Awaited
  <2> QED
    BY <2>2, <2>3, <2>4 DEF ChatInv
<1>11. CASE SetupFails
  <2>1. UNCHANGED <<socket, page>> /\ dismissed' = FALSE
    BY <1>11 DEF SetupFails
  <2>2. retryTimeouts \in Nat /\ attempts \in Nat
    BY DEF ChatInv, ChatTypes
  <2>3. /\ connectionStatus' = "failed" /\ attempts' \in Nat
        /\ retryCount' \in 0 .. maxRetries /\ retryTimeouts' \in Nat /\ Counting' /\ Awaited'
    <3>1. CASE HandleConnectionFailure /\ attempts' = attempts
      BY <2>2, <3>1, HandlerKeeps
    <3>2. CASE retryTimeouts > 0 /\ FailureReported(retryTimeouts - 1) /\ attempts' = attempts + 1
      <4>1. retryTimeouts - 1 \in Nat /\ attempts' \in Nat /\ attempts' + (retryTimeouts - 1) = attempts + retryTimeouts
        BY <2>2, <3>2
      <4> QED
        BY <3>2, <4>1, FailureKeeps
    <3> QED
      BY <1>11, <3>1, <3>2 DEF SetupFails, RetryDue
  <2>4. SocketsInOrder' /\ LiveSockets'
    BY <2>1 DEF ChatInv, SocketsInOrder, LiveSockets, page
  <2>5. ChatTypes' /\ IdleIsFresh'
    BY <2>1, <2>3 DEF ChatInv, ChatTypes, IdleIsFresh, page
  <2> QED
    BY <2>3, <2>4, <2>5 DEF ChatInv
<1>10. CASE UNCHANGED chatVars
  BY <1>10 DEF chatVars, ChatInv, ChatTypes, IdleIsFresh, SocketsInOrder, Counting, LiveSockets, Awaited
<1> QED
  BY <1>1, <1>2, <1>3, <1>5, <1>6, <1>7, <1>8, <1>9, <1>10, <1>11 DEF ChatNext, SocketEvent

\* The invariant holds throughout.
LEMMA ChatInvariant == ChatSpec => []ChatInv
  BY ChatInitially, ChatStep, PTL DEF ChatSpec

\* The page's refs stay within their types: in particular the counters never
\* pass maxRetries and there is never a timer that was not counted.
THEOREM ChatTypeCorrect == ChatSpec => []ChatTypeOK
  BY ChatInvariant, ChatInvImplies, PTL

\* Between two open connections no more than maxRetries retries are made or
\* pending, however often a failure is reported.
THEOREM RetriesStayBounded == ChatSpec => []RetriesBounded
  BY ChatInvariant, ChatInvImplies, PTL

\* A page that nothing will happen to any more is connected, has used up its
\* retries or was dismissed by the server.
THEOREM PageNeverStranded == ChatSpec => []NeverStranded
  BY ChatInvariant, ChatInvImplies, PTL

\* Once its socket is rendered no other socket of the page can be open.
THEOREM SocketsCleanedUp == ChatSpec => []OnlyOwnSocket
  BY ChatInvariant, ChatInvImplies, PTL
=============================================================================
