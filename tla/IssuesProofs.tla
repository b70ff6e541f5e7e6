---------------------------- MODULE IssuesProofs ----------------------------
(***************************************************************************)
(* No error of a generated app disappears unread, for any errors, readers, *)
(* readings, redeployments and evictions.  What makes it true is an        *)
(* obligation the code never writes down: from the reading of a database   *)
(* until the clearing that follows it, everything stored there has been    *)
(* handed to a model or was found by the very reader that clears, or is    *)
(* known to have raced; and a clearing that nobody waits for any more only *)
(* meets what has been handed on, or was dropped with its reader.          *)
(***************************************************************************)
EXTENDS Issues, FiniteSetTheorems, TLAPS

\* Errors that will not be missed when the database is cleared.
Done == delivered \cup raced \cup unreadable \cup dropped

\* Readings that have not delivered, and calls of resetIssues under way.
Busy == {r \in Reader : reader[r].pc # "idle"}
ClearingsSent == {p \in Instance \X Nat : p[2] \in 1 .. sent[p[1]]}

IssuesTypes ==
    /\ runtimeErrors \in [Instance -> SUBSET RuntimeError]
    /\ clientReportedErrors \in SUBSET ClientError
    /\ instance \in Instance /\ redeploys \in Nat
    /\ reader \in [Reader -> ReaderRecord]
    /\ sent \in [Instance -> Nat] /\ answered \in Nat
    /\ abandoned \in [Instance -> Nat]
    /\ reads \in 0 .. MaxReads
    /\ occurred \in SUBSET (RuntimeError \cup ClientError)
    /\ delivered \in SUBSET (RuntimeError \cup ClientError)
    /\ raced \in SUBSET (RuntimeError \cup ClientError)
    /\ unreadable \in SUBSET RuntimeError /\ replaced \in SUBSET ClientError
    /\ dropped \in SUBSET RuntimeError

\* An instance that is not there yet has no errors.
InstancesAhead ==
    /\ instance + redeploys <= MaxInstances
    /\ \A i \in Instance : i > instance => runtimeErrors[i] = {}

\* A reader between two readings holds nothing; only a cached one waits for its clearing.
ReaderShape ==
    \A r \in Reader : /\ reader[r].pc = "idle" => reader[r].found = {}
                      /\ reader[r].pc \in {"clearing", "cleared"} => reader[r].kind = "cached"

\* Every resetIssues under way stems from a reading of its own.
CallsCounted ==
    /\ IsFiniteSet(ClearingsSent)
    /\ Cardinality(ClearingsSent) + answered + Cardinality(Busy) <= reads
    /\ \A i \in Instance : sent[i] + Cardinality(Busy) <= reads

\* A reader that will clear or reset the instance that is current then.
WillClear(r) == reader[r].pc = "fetched" /\ (reader[r].kind = "fresh" \/ ClearsWhileReading(r))

\* What a clearing will remove is done with, or was found by its reader: a call
\* already made hits its instance, one still to be made the current one.
ClearingCovered ==
    /\ \A i \in Instance : sent[i] > 0 \/ abandoned[i] > 0 => runtimeErrors[i] \subseteq Done
    /\ \A r \in Reader : reader[r].pc = "clearing" =>
           runtimeErrors[reader[r].target] \subseteq Done \cup reader[r].found
    /\ \A r \in Reader : WillClear(r) => runtimeErrors[instance] \subseteq Done \cup reader[r].found

\* What a resetIssues under way will remove has been delivered, or has raced.
ResetCovered == ResetsUnderWay => clientReportedErrors \subseteq delivered \cup raced

\* ErrorsAccounted, for the runtime errors.
RuntimeAccounted ==
    \A e \in occurred \cap RuntimeError :
        e \in Done \cup Held \/ \E i \in Instance : e \in runtimeErrors[i]

ClientAccounted ==
    occurred \cap ClientError \subseteq clientReportedErrors \cup delivered \cup raced \cup replaced

IssuesInv ==
    /\ IssuesTypes /\ InstancesAhead /\ ReaderShape /\ CallsCounted
    /\ ClearingCovered /\ ResetCovered /\ RuntimeAccounted /\ ClientAccounted

-----------------------------------------------------------------------------
\* What the properties of the run need of the invariant.
LEMMA IssuesInvImplies ==
  ASSUME IssuesInv
  PROVE  IssuesTypeOK /\ ErrorsAccounted
<1> USE IssuesAssumption
<1>1. IssuesTypes /\ InstancesAhead /\ CallsCounted /\ RuntimeAccounted /\ ClientAccounted
  BY DEF IssuesInv
<1>2. Busy \subseteq Reader
  BY DEF Busy
<1>3. Cardinality(Busy) \in Nat
  BY <1>2, FS_Subset, FS_CardinalityType
<1>4. Cardinality(ClearingsSent) \in Nat
  BY <1>1, FS_CardinalityType DEF CallsCounted
<1>5. redeploys \in 0 .. MaxInstances
  BY <1>1 DEF IssuesTypes, InstancesAhead, Instance
<1>6. answered \in 0 .. MaxReads
  BY <1>1, <1>3, <1>4 DEF IssuesTypes, CallsCounted
<1>7. sent \in [Instance -> 0 .. MaxReads]
  <2>1. \A i \in Instance : sent[i] \in 0 .. MaxReads
    BY <1>1, <1>3 DEF IssuesTypes, CallsCounted
  <2> QED
    BY <1>1, <2>1 DEF IssuesTypes
<1>8. IssuesTypeOK
  BY <1>1, <1>5, <1>6, <1>7 DEF IssuesTypes, IssuesTypeOK
<1>9. ErrorsAccounted
  <2> DEFINE Stored == UNION {runtimeErrors[i] : i \in Instance}
  <2>1. \A i \in Instance : \A e \in runtimeErrors[i] : e \in Stored
    OBVIOUS
  <2> HIDE DEF Stored
  <2>2. \A e \in occurred \cap RuntimeError : e \in Stored \cup Done \cup Held
    BY <1>1, <2>1 DEF RuntimeAccounted
  <2>3. occurred \cap RuntimeError \subseteq
            Stored \cup Held \cup delivered \cup raced \cup unreadable \cup dropped
    BY <2>2 DEF Done
  <2> QED
    BY <1>1, <2>3 DEF ErrorsAccounted, ClientAccounted, Stored
<1> QED
  BY <1>8, <1>9

\* What a reader that clears has found is held.
LEMMA HeldIs ==
  \A e : e \in Held <=> \E r \in Reader : /\ reader[r].pc \in {"clearing", "cleared"}
                                         /\ e \in reader[r].found
  BY DEF Held

\* The initial state: nothing stored, nothing under way.
LEMMA IssuesInitially == IssuesInit => IssuesInv
<1> SUFFICES ASSUME IssuesInit PROVE IssuesInv
  OBVIOUS
<1> USE IssuesAssumption
<1>1. 1 \in Instance
  BY DEF Instance
<1>2. \A r \in Reader : /\ reader[r] \in ReaderRecord
                        /\ reader[r].pc = "idle" /\ reader[r].found = {}
  BY <1>1 DEF IssuesInit, ReadersBegin, IdleReader, ReaderRecord, ReadMode
<1>3. reader \in [Reader -> ReaderRecord]
  BY <1>2 DEF IssuesInit, ReadersBegin
<1>4. IssuesTypes
  BY <1>1, <1>3 DEF IssuesInit, IssuesTypes
<1>5. InstancesAhead
  BY DEF IssuesInit, InstancesAhead
<1>6. ReaderShape
  BY <1>2 DEF ReaderShape
<1>7. CallsCounted
  <2>1. Busy = {}
    BY <1>2 DEF Busy
  <2>2. ClearingsSent = {}
    BY DEF ClearingsSent, IssuesInit
  <2> QED
    BY <2>1, <2>2, FS_EmptySet DEF CallsCounted, IssuesInit
<1>8. ClearingCovered /\ ResetCovered
  BY <1>2 DEF ClearingCovered, ResetCovered, ResetsUnderWay, WillClear, IssuesInit
<1>9. RuntimeAccounted /\ ClientAccounted
  BY DEF RuntimeAccounted, ClientAccounted, IssuesInit
<1> QED
  BY <1>4, <1>5, <1>6, <1>7, <1>8, <1>9 DEF IssuesInv

-----------------------------------------------------------------------------
\* One more reader is busy.
LEMMA ReaderStarts ==
  ASSUME IssuesInv, NEW r \in Reader, NEW rec \in ReaderRecord,
         reader[r].pc = "idle", rec.pc # "idle", reader' = [reader EXCEPT ![r] = rec],
         reads < MaxReads, reads' = reads + 1, UNCHANGED <<sent, answered>>
  PROVE  CallsCounted' /\ reads' \in 0 .. MaxReads
<1> USE IssuesAssumption
<1>1. reader \in [Reader -> ReaderRecord] /\ reads \in 0 .. MaxReads
  BY DEF IssuesInv, IssuesTypes
<1>2. Busy' = Busy \cup {r} /\ r \notin Busy /\ ClearingsSent' = ClearingsSent
  BY <1>1 DEF Busy, ClearingsSent
<1>3. IsFiniteSet(Busy)
  BY FS_Subset DEF Busy
<1>4. Cardinality(Busy') = Cardinality(Busy) + 1 /\ Cardinality(Busy) \in Nat
  BY <1>2, <1>3, FS_AddElement, FS_CardinalityType
<1>5. Cardinality(ClearingsSent) \in Nat
  BY FS_CardinalityType DEF IssuesInv, CallsCounted
<1>6. IsFiniteSet(ClearingsSent')
  BY <1>2 DEF IssuesInv, CallsCounted
<1>7. Cardinality(ClearingsSent') + answered' + Cardinality(Busy') <= reads'
  BY <1>1, <1>2, <1>4, <1>5 DEF IssuesInv, CallsCounted, IssuesTypes
<1>8. \A i \in Instance : sent'[i] + Cardinality(Busy') <= reads'
  BY <1>1, <1>4 DEF IssuesInv, CallsCounted, IssuesTypes
<1> QED
  BY <1>1, <1>6, <1>7, <1>8 DEF CallsCounted

\* A reader is done; a fresh reading has called resetIssues.
LEMMA ReaderEnds ==
  ASSUME IssuesInv, NEW r \in Reader, NEW k \in ReadMode,
         reader[r].pc # "idle", reader' = [reader EXCEPT ![r] = IdleReader(k)],
         sent' = sent \/ sent' = [sent EXCEPT ![instance] = @ + 1],
         UNCHANGED <<reads, answered, instance>>
  PROVE  CallsCounted' /\ sent' \in [Instance -> Nat]
<1> USE IssuesAssumption
<1>1. /\ reader \in [Reader -> ReaderRecord] /\ reads \in 0 .. MaxReads /\ instance \in Instance
      /\ sent \in [Instance -> Nat] /\ answered \in Nat
  BY DEF IssuesInv, IssuesTypes
<1>2. Busy' = Busy \ {r} /\ r \in Busy
  BY <1>1 DEF Busy, IdleReader
<1>3. IsFiniteSet(Busy)
  BY FS_Subset DEF Busy
<1>4. Cardinality(Busy') = Cardinality(Busy) - 1 /\ Cardinality(Busy) \in Nat
  BY <1>2, <1>3, FS_RemoveElement, FS_CardinalityType
<1>5. IsFiniteSet(ClearingsSent) /\ Cardinality(ClearingsSent) \in Nat
  BY FS_CardinalityType DEF IssuesInv, CallsCounted
<1>6. IsFiniteSet(ClearingsSent') /\ Cardinality(ClearingsSent') <= Cardinality(ClearingsSent) + 1
      /\ Cardinality(ClearingsSent') \in Nat
  <2>1. CASE sent' = sent
    <3>1. ClearingsSent' = ClearingsSent
      BY <2>1 DEF ClearingsSent
    <3> QED
      BY <1>5, <3>1
  <2>2. CASE sent' = [sent EXCEPT ![instance] = @ + 1]
    <3> DEFINE p == <<instance, sent[instance] + 1>>
    <3>1. sent[instance] \in Nat
      BY <1>1
    <3>2. \A i \in Instance : 1 .. sent'[i] = IF i = instance THEN 1 .. (sent[i] + 1) ELSE 1 .. sent[i]
      BY <1>1, <2>2
    <3>3. \A q \in Instance \X Nat : q \in ClearingsSent' <=> q \in ClearingsSent \/ q = p
      <4> TAKE q \in Instance \X Nat
      <4>1. PICK i \in Instance, n \in Nat : q = <<i, n>>
        OBVIOUS
      <4>2. /\ q \in ClearingsSent' <=> n \in 1 .. sent'[i]
            /\ q \in ClearingsSent <=> n \in 1 .. sent[i]
            /\ q = p <=> i = instance /\ n = sent[instance] + 1
        BY <4>1 DEF ClearingsSent
      <4> QED
        BY <1>1, <3>1, <3>2, <4>2
    <3>4. p \in Instance \X Nat
      BY <1>1, <3>1
    <3>5. ClearingsSent' = ClearingsSent \cup {p}
      <4>1. ClearingsSent \subseteq Instance \X Nat /\ ClearingsSent' \subseteq Instance \X Nat
        BY DEF ClearingsSent
      <4> QED
        BY <3>3, <3>4, <4>1
    <3>6. /\ IsFiniteSet(ClearingsSent')
          /\ Cardinality(ClearingsSent') = IF p \in ClearingsSent THEN Cardinality(ClearingsSent)
                                         ELSE Cardinality(ClearingsSent) + 1
      BY <1>5, <3>5, FS_AddElement
    <3> QED
      BY <1>5, <3>6
  <2> QED
    BY <2>1, <2>2
<1>7. Cardinality(ClearingsSent') + answered' + Cardinality(Busy') <= reads'
  BY <1>1, <1>4, <1>5, <1>6 DEF IssuesInv, CallsCounted
<1>8. sent' \in [Instance -> Nat] /\ \A i \in Instance : sent'[i] <= sent[i] + 1
  BY <1>1
<1>9. \A i \in Instance : sent'[i] + Cardinality(Busy') <= reads'
  BY <1>1, <1>4, <1>8 DEF IssuesInv, CallsCounted
<1> QED
  BY <1>6, <1>7, <1>8, <1>9 DEF CallsCounted

\* A resetIssues is answered.
LEMMA CallAnswered ==
  ASSUME IssuesInv, NEW i \in Instance, sent[i] > 0, sent' = [sent EXCEPT ![i] = @ - 1],
         answered' = answered + 1, UNCHANGED <<reader, reads>>
  PROVE  CallsCounted' /\ sent' \in [Instance -> Nat] /\ answered' \in Nat
<1> USE IssuesAssumption
<1>1. /\ reads \in 0 .. MaxReads /\ sent \in [Instance -> Nat] /\ answered \in Nat
  BY DEF IssuesInv, IssuesTypes
<1>2. Busy' = Busy /\ Busy \subseteq Reader
  BY DEF Busy
<1>3. Cardinality(Busy) \in Nat
  BY <1>2, FS_Subset, FS_CardinalityType
<1>4. IsFiniteSet(ClearingsSent) /\ Cardinality(ClearingsSent) \in Nat
  BY FS_CardinalityType DEF IssuesInv, CallsCounted
<1> DEFINE p == <<i, sent[i]>>
<1>5. \A j \in Instance : 1 .. sent'[j] = IF j = i THEN 1 .. (sent[j] - 1) ELSE 1 .. sent[j]
  BY <1>1
<1>6. \A q \in Instance \X Nat : q \in ClearingsSent' <=> q \in ClearingsSent /\ q # p
  <2> TAKE q \in Instance \X Nat
  <2>1. PICK j \in Instance, n \in Nat : q = <<j, n>>
    OBVIOUS
  <2>2. /\ q \in ClearingsSent' <=> n \in 1 .. sent'[j]
        /\ q \in ClearingsSent <=> n \in 1 .. sent[j]
        /\ q = p <=> j = i /\ n = sent[i]
    BY <2>1 DEF ClearingsSent
  <2> QED
    BY <1>1, <1>5, <2>2
<1>7. p \in ClearingsSent
  BY <1>1 DEF ClearingsSent
<1>8. ClearingsSent' = ClearingsSent \ {p}
  <2>1. ClearingsSent \subseteq Instance \X Nat /\ ClearingsSent' \subseteq Instance \X Nat
    BY DEF ClearingsSent
  <2> QED
    BY <1>6, <2>1
<1>9. IsFiniteSet(ClearingsSent') /\ Cardinality(ClearingsSent') = Cardinality(ClearingsSent) - 1
  BY <1>4, <1>7, <1>8, FS_RemoveElement
<1>10. Cardinality(ClearingsSent') + answered' + Cardinality(Busy') <= reads'
  BY <1>1, <1>2, <1>3, <1>4, <1>9 DEF IssuesInv, CallsCounted
<1>11. sent' \in [Instance -> Nat] /\ \A j \in Instance : sent'[j] <= sent[j]
  BY <1>1
<1>12. \A j \in Instance : sent'[j] + Cardinality(Busy') <= reads'
  BY <1>1, <1>2, <1>3, <1>11 DEF IssuesInv, CallsCounted
<1> QED
  BY <1>1, <1>9, <1>10, <1>11, <1>12 DEF CallsCounted

-----------------------------------------------------------------------------
\* A reading begins: what the database holds is found by it, or is unreadable.
LEMMA ReadingKeeps ==
  ASSUME IssuesInv, NEW r \in Reader, NEW F \in SUBSET RuntimeError,
         reader[r].pc = "idle", reads < MaxReads, reads' = reads + 1,
         reader' = [reader EXCEPT ![r] = [@ EXCEPT !.pc = "fetched", !.found = F]],
         runtimeErrors[instance] \subseteq F \cup unreadable',
         unreadable' = unreadable \/ unreadable' = unreadable \cup runtimeErrors[instance],
         redeploys' = redeploys \/ (redeploys' = redeploys + 1 /\ instance + redeploys < MaxInstances),
         UNCHANGED <<runtimeErrors, clientReportedErrors, instance, sent, answered, abandoned,
                     occurred, delivered, raced, replaced, dropped>>
  PROVE  IssuesInv'
<1> USE IssuesAssumption
<1> DEFINE rec == [reader[r] EXCEPT !.pc = "fetched", !.found = F]
<1>1. /\ IssuesTypes /\ InstancesAhead /\ ReaderShape /\ CallsCounted
      /\ ClearingCovered /\ ResetCovered /\ RuntimeAccounted /\ ClientAccounted
  BY DEF IssuesInv
<1>2. reader \in [Reader -> ReaderRecord] /\ instance \in Instance /\ redeploys \in Nat
  BY <1>1 DEF IssuesTypes
<1>3. /\ rec \in ReaderRecord /\ rec.pc = "fetched" /\ rec.found = F
  BY <1>2 DEF ReaderRecord
<1>4. /\ reader' \in [Reader -> ReaderRecord] /\ reader'[r] = rec
      /\ \A q \in Reader : q # r => reader'[q] = reader[q]
  BY <1>2, <1>3
<1>5. CallsCounted' /\ reads' \in 0 .. MaxReads
  BY <1>3, ReaderStarts
<1>6. unreadable \subseteq unreadable' /\ unreadable' \in SUBSET RuntimeError
  BY <1>1, <1>2 DEF IssuesTypes
<1>7. IssuesTypes'
  BY <1>1, <1>2, <1>4, <1>5, <1>6 DEF IssuesTypes
<1>8. InstancesAhead'
  BY <1>1, <1>2 DEF InstancesAhead, Instance
<1>9. ReaderShape'
  BY <1>1, <1>3, <1>4 DEF ReaderShape
<1>10. Done \subseteq Done' /\ Held' = Held
  <2>1. \A q \in Reader : (q # r \/ rec = reader[q]) => reader'[q] = reader[q]
    BY <1>4
  <2>2. \A e : e \in Held' <=> \E q \in Reader : /\ reader'[q].pc \in {"clearing", "cleared"}
                                                /\ e \in reader'[q].found
    BY DEF Held
  <2>3. \A e : e \in Held' <=> e \in Held
    BY <1>3, <1>4, <2>2, HeldIs
  <2> QED
    BY <1>6, <2>3 DEF Done
<1>11. runtimeErrors[instance] \subseteq Done' \cup F
  BY DEF Done
<1>12. ClearingCovered'
  <2>1. \A i \in Instance : sent'[i] > 0 \/ abandoned'[i] > 0 => runtimeErrors'[i] \subseteq Done'
    BY <1>1, <1>10 DEF ClearingCovered
  <2>2. \A q \in Reader : reader'[q].pc = "clearing" =>
            runtimeErrors'[reader'[q].target] \subseteq Done' \cup reader'[q].found
    BY <1>1, <1>3, <1>4, <1>10 DEF ClearingCovered
  <2>3. ASSUME NEW q \in Reader, WillClear(q)'
        PROVE  runtimeErrors'[instance'] \subseteq Done' \cup reader'[q].found
    <3>1. CASE q = r
      BY <1>3, <1>4, <1>11, <3>1
    <3>2. CASE q # r
      <4>1. reader'[q] = reader[q]
        BY <1>4, <3>2
      <4>2. WillClear(q)
        BY <2>3, <4>1 DEF WillClear, ClearsWhileReading
      <4> QED
        BY <1>1, <1>10, <4>1, <4>2 DEF ClearingCovered
    <3> QED
      BY <3>1, <3>2
  <2> QED
    BY <2>1, <2>2, <2>3 DEF ClearingCovered
<1>13. ResetCovered' /\ ClientAccounted'
  BY <1>1 DEF ResetCovered, ResetsUnderWay, ClientAccounted
<1>14. RuntimeAccounted'
  BY <1>1, <1>10 DEF RuntimeAccounted
<1> QED
  BY <1>5, <1>7, <1>8, <1>9, <1>12, <1>13, <1>14 DEF IssuesInv

\* A reading ends: what it found is delivered together with the client errors.
LEMMA DeliverKeeps ==
  ASSUME IssuesInv, NEW r \in Reader, reader[r].pc # "idle", Deliver(r, reader[r].found),
         reader[r].pc # "clearing",
         UNCHANGED <<runtimeErrors, clientReportedErrors, instance, redeploys, answered, abandoned,
                     reads, occurred, raced, unreadable, replaced, dropped>>
  PROVE  IssuesInv'
<1> USE IssuesAssumption
<1>1. /\ IssuesTypes /\ InstancesAhead /\ ReaderShape /\ CallsCounted
      /\ ClearingCovered /\ ResetCovered /\ RuntimeAccounted /\ ClientAccounted
  BY DEF IssuesInv
<1>2. /\ reader \in [Reader -> ReaderRecord] /\ instance \in Instance /\ sent \in [Instance -> Nat]
      /\ 1 \in Instance
  BY <1>1 DEF IssuesTypes, Instance
<1>3. PICK k \in Following(reader[r].kind) : reader' = [reader EXCEPT ![r] = IdleReader(k)]
  BY DEF Deliver
<1>4. k \in ReadMode
  <2>1. reader[r].kind \in ReadMode
    BY <1>2 DEF ReaderRecord
  <2> QED
    BY <1>3, <2>1 DEF Following, ReadMode
<1>5. /\ IdleReader(k) \in ReaderRecord /\ IdleReader(k).pc = "idle" /\ IdleReader(k).found = {}
  BY <1>2, <1>4 DEF IdleReader, ReaderRecord
<1>6. /\ reader' \in [Reader -> ReaderRecord] /\ reader'[r] = IdleReader(k)
      /\ \A q \in Reader : q # r => reader'[q] = reader[q]
  BY <1>2, <1>3, <1>5
<1>7. /\ delivered' = delivered \cup reader[r].found \cup clientReportedErrors
      /\ sent' = IF reader[r].kind = "fresh" THEN [sent EXCEPT ![instance] = @ + 1] ELSE sent
  BY DEF Deliver
<1>8. CallsCounted' /\ sent' \in [Instance -> Nat]
  BY <1>3, <1>4, <1>7, ReaderEnds
<1>9. reader[r].found \in SUBSET RuntimeError
  BY <1>2 DEF ReaderRecord
<1>10. IssuesTypes'
  BY <1>1, <1>6, <1>7, <1>8, <1>9 DEF IssuesTypes
<1>11. InstancesAhead'
  BY <1>1 DEF InstancesAhead
<1>12. ReaderShape'
  BY <1>1, <1>5, <1>6 DEF ReaderShape
<1>13. Done \cup reader[r].found \subseteq Done' /\ \A e \in Held : e \in Held' \/ e \in Done'
  <2>1. Done \cup reader[r].found \subseteq Done'
    BY <1>7 DEF Done
  <2>2. ASSUME NEW e \in Held PROVE e \in Held' \/ e \in Done'
    <3>1. PICK q \in Reader : reader[q].pc \in {"clearing", "cleared"} /\ e \in reader[q].found
      BY HeldIs
    <3>2. CASE q = r
      BY <2>1, <3>1, <3>2
    <3>3. CASE q # r
      <4>1. reader'[q] = reader[q]
        BY <1>6, <3>3
      <4> QED
        BY <3>1, <4>1 DEF Held
    <3> QED
      BY <3>2, <3>3
  <2> QED
    BY <2>1, <2>2
<1>14. ClearingCovered'
  <2>1. ASSUME NEW i \in Instance, sent'[i] > 0 \/ abandoned'[i] > 0
        PROVE  runtimeErrors'[i] \subseteq Done'
    <3>1. CASE sent[i] > 0 \/ abandoned[i] > 0
      BY <1>1, <1>13, <3>1 DEF ClearingCovered
    <3>2. CASE ~(sent[i] > 0 \/ abandoned[i] > 0)
      <4>1. reader[r].kind = "fresh" /\ i = instance
        BY <1>2, <1>7, <2>1, <3>2
      <4>2. reader[r].pc = "fetched"
        BY <1>1, <1>2, <4>1 DEF ReaderShape, ReaderRecord
      <4>3. runtimeErrors[instance] \subseteq Done \cup reader[r].found
        BY <1>1, <4>1, <4>2 DEF ClearingCovered, WillClear
      <4> QED
        BY <1>13, <4>1, <4>3
    <3> QED
      BY <3>1, <3>2
  <2>2. ASSUME NEW q \in Reader, reader'[q].pc = "clearing"
        PROVE  runtimeErrors'[reader'[q].target] \subseteq Done' \cup reader'[q].found
    <3>1. q # r /\ reader'[q] = reader[q]
      BY <1>5, <1>6, <2>2
    <3>2. runtimeErrors[reader[q].target] \subseteq Done \cup reader[q].found
      BY <1>1, <2>2, <3>1 DEF ClearingCovered
    <3> QED
      BY <1>13, <3>1, <3>2
  <2>3. ASSUME NEW q \in Reader, WillClear(q)'
        PROVE  runtimeErrors'[instance'] \subseteq Done' \cup reader'[q].found
    <3>1. q # r /\ reader'[q] = reader[q]
      BY <1>5, <1>6, <2>3 DEF WillClear
    <3>2. WillClear(q)
      BY <2>3, <3>1 DEF WillClear, ClearsWhileReading
    <3>3. runtimeErrors[instance] \subseteq Done \cup reader[q].found
      BY <1>1, <3>2 DEF ClearingCovered
    <3> QED
      BY <1>13, <3>1, <3>3
  <2> QED
    BY <2>1, <2>2, <2>3 DEF ClearingCovered
<1>15. ResetCovered' /\ ClientAccounted'
  BY <1>1, <1>7 DEF ResetCovered, ClientAccounted
<1>16. RuntimeAccounted'
  BY <1>1, <1>13 DEF RuntimeAccounted
<1> QED
  BY <1>8, <1>10, <1>11, <1>12, <1>14, <1>15, <1>16 DEF IssuesInv

-----------------------------------------------------------------------------
\* The app prints an error.
LEMMA OccursKeeps ==
  ASSUME IssuesInv, NEW e \in RuntimeError, RuntimeErrorOccurs(e)
  PROVE  IssuesInv'
<1> USE IssuesAssumption
<1>1. /\ IssuesTypes /\ InstancesAhead /\ ReaderShape /\ CallsCounted
      /\ ClearingCovered /\ ResetCovered /\ RuntimeAccounted /\ ClientAccounted
  BY DEF IssuesInv
<1>2. /\ occurred' = occurred \cup {e}
      /\ runtimeErrors' = [runtimeErrors EXCEPT ![instance] = @ \cup {e}]
      /\ raced' = IF ClearingOwed(instance) THEN raced \cup {e} ELSE raced
      /\ UNCHANGED <<clientReportedErrors, instance, redeploys, reader, sent, answered, abandoned, reads,
                     delivered, unreadable, replaced, dropped>>
  BY DEF RuntimeErrorOccurs
<1>3. instance \in Instance /\ runtimeErrors \in [Instance -> SUBSET RuntimeError]
  BY <1>1 DEF IssuesTypes
<1>4. /\ runtimeErrors' \in [Instance -> SUBSET RuntimeError]
      /\ runtimeErrors'[instance] = runtimeErrors[instance] \cup {e}
      /\ \A i \in Instance : i # instance => runtimeErrors'[i] = runtimeErrors[i]
  BY <1>2, <1>3
<1>5. raced \subseteq raced' /\ raced' \subseteq raced \cup {e}
  BY <1>2
<1>6. Done \subseteq Done' /\ (ClearingOwed(instance) => e \in Done') /\ Held' = Held
  BY <1>2, <1>5 DEF Held, Done
<1>7. IssuesTypes'
  <2>1. /\ occurred' \in SUBSET (RuntimeError \cup ClientError)
        /\ raced' \in SUBSET (RuntimeError \cup ClientError)
    BY <1>1, <1>2, <1>5 DEF IssuesTypes
  <2> QED
    BY <1>1, <1>2, <1>4, <2>1 DEF IssuesTypes
<1>8. InstancesAhead'
  BY <1>1, <1>2, <1>3, <1>4 DEF InstancesAhead, Instance
<1>9. ReaderShape' /\ CallsCounted'
  <2>1. ClearingsSent' = ClearingsSent /\ Busy' = Busy
    BY <1>2 DEF ClearingsSent, Busy
  <2> QED
    BY <1>1, <1>2, <2>1 DEF ReaderShape, CallsCounted
<1>10. ASSUME NEW i \in Instance, NEW F, runtimeErrors[i] \subseteq Done \cup F,
              i = instance => ClearingOwed(i)
       PROVE  runtimeErrors'[i] \subseteq Done' \cup F
  BY <1>4, <1>6, <1>10
<1>11. ClearingCovered'
  <2>1. ASSUME NEW i \in Instance, sent'[i] > 0 \/ abandoned'[i] > 0
        PROVE  runtimeErrors'[i] \subseteq Done'
    <3>1. runtimeErrors[i] \subseteq Done \cup {} /\ ClearingOwed(i)
      BY <1>1, <1>2, <2>1 DEF ClearingCovered, ClearingOwed
    <3> QED
      BY <1>10, <3>1
  <2>2. ASSUME NEW q \in Reader, reader'[q].pc = "clearing"
        PROVE  runtimeErrors'[reader'[q].target] \subseteq Done' \cup reader'[q].found
    <3>1. reader[q].target \in Instance
      BY <1>1 DEF IssuesTypes, ReaderRecord
    <3>2. /\ runtimeErrors[reader[q].target] \subseteq Done \cup reader[q].found
          /\ ClearingOwed(reader[q].target)
      BY <1>1, <1>2, <2>2 DEF ClearingCovered, ClearingOwed
    <3> QED
      BY <1>2, <1>10, <3>1, <3>2
  <2>3. ASSUME NEW q \in Reader, WillClear(q)'
        PROVE  runtimeErrors'[instance'] \subseteq Done' \cup reader'[q].found
    <3>1. WillClear(q)
      BY <1>2, <2>3 DEF WillClear, ClearsWhileReading
    <3>2. runtimeErrors[instance] \subseteq Done \cup reader[q].found /\ ClearingOwed(instance)
      BY <1>1, <3>1 DEF ClearingCovered, ClearingOwed, WillClear
    <3> QED
      BY <1>2, <1>3, <1>10, <3>2
  <2> QED
    BY <2>1, <2>2, <2>3 DEF ClearingCovered
<1>12. ResetCovered'
  BY <1>1, <1>2, <1>5 DEF ResetCovered, ResetsUnderWay
<1>13. RuntimeAccounted'
  BY <1>1, <1>2, <1>3, <1>4, <1>6 DEF RuntimeAccounted
<1>14. ClientAccounted'
  BY <1>1, <1>2, <1>5 DEF ClientAccounted
<1> QED
  BY <1>7, <1>8, <1>9, <1>11, <1>12, <1>13, <1>14 DEF IssuesInv

\* The browser reports errors.
LEMMA ReportsKeep ==
  ASSUME IssuesInv, NEW E \in SUBSET ClientError, ClientReports(E)
  PROVE  IssuesInv'
<1> USE IssuesAssumption
<1>1. /\ IssuesTypes /\ InstancesAhead /\ ReaderShape /\ CallsCounted
      /\ ClearingCovered /\ ResetCovered /\ RuntimeAccounted /\ ClientAccounted
  BY DEF IssuesInv
<1>2. /\ occurred' = occurred \cup E /\ clientReportedErrors' = E
      /\ raced' = IF ResetsUnderWay THEN raced \cup E ELSE raced
      /\ replaced' = replaced \cup clientReportedErrors
      /\ UNCHANGED <<runtimeErrors, instance, redeploys, reader, sent, answered, abandoned, reads,
                     delivered, unreadable, dropped>>
  BY DEF ClientReports
<1>3. raced \subseteq raced' /\ raced' \subseteq raced \cup E
  BY <1>2
<1>4. Done \subseteq Done' /\ Held' = Held
  BY <1>2, <1>3 DEF Held, Done
<1>5. IssuesTypes'
  BY <1>1, <1>2, <1>3 DEF IssuesTypes
<1>6. InstancesAhead' /\ ReaderShape'
  BY <1>1, <1>2 DEF InstancesAhead, ReaderShape
<1>7. CallsCounted'
  <2>1. ClearingsSent' = ClearingsSent /\ Busy' = Busy
    BY <1>2 DEF ClearingsSent, Busy
  <2> QED
    BY <1>1, <1>2, <2>1 DEF CallsCounted
<1>8. ClearingCovered'
  BY <1>1, <1>2, <1>4 DEF ClearingCovered, WillClear, ClearsWhileReading
<1>9. ResetCovered'
  BY <1>2 DEF ResetCovered, ResetsUnderWay
<1>10. RuntimeAccounted'
  <2>1. \A x \in occurred' \cap RuntimeError : x \in occurred
    BY <1>2
  <2> QED
    BY <1>1, <1>2, <1>4, <2>1 DEF RuntimeAccounted
<1>11. ClientAccounted'
  BY <1>1, <1>2, <1>3 DEF ClientAccounted
<1> QED
  BY <1>5, <1>6, <1>7, <1>8, <1>9, <1>10, <1>11 DEF IssuesInv

\* A reading that clears makes the call, to the instance that is current now.
LEMMA ClearCalledKeeps ==
  ASSUME IssuesInv, NEW r \in Reader, ClearCalled(r)
  PROVE  IssuesInv'
<1> USE IssuesAssumption
<1> DEFINE rec == [reader[r] EXCEPT !.pc = "clearing", !.target = instance]
<1>1. /\ IssuesTypes /\ InstancesAhead /\ ReaderShape /\ CallsCounted
      /\ ClearingCovered /\ ResetCovered /\ RuntimeAccounted /\ ClientAccounted
  BY DEF IssuesInv
<1>2. /\ reader[r].pc = "fetched" /\ ClearsWhileReading(r) /\ reader' = [reader EXCEPT ![r] = rec]
      /\ UNCHANGED <<runtimeErrors, clientReportedErrors, instance, redeploys, sent, answered, abandoned,
                     reads, occurred, delivered, raced, unreadable, replaced, dropped>>
  BY DEF ClearCalled, history
<1>3. reader \in [Reader -> ReaderRecord] /\ instance \in Instance
  BY <1>1 DEF IssuesTypes
<1>4. /\ rec \in ReaderRecord /\ rec.pc = "clearing" /\ rec.target = instance
      /\ rec.kind = reader[r].kind /\ rec.found = reader[r].found
  BY <1>3 DEF ReaderRecord
<1>5. /\ reader' \in [Reader -> ReaderRecord] /\ reader'[r] = rec
      /\ \A q \in Reader : q # r => reader'[q] = reader[q]
  BY <1>2, <1>3, <1>4
<1>6. Done' = Done /\ Held \subseteq Held'
  <2>1. \A q \in Reader : reader[q].pc \in {"clearing", "cleared"} =>
            reader'[q].pc \in {"clearing", "cleared"} /\ reader'[q].found = reader[q].found
    BY <1>2, <1>4, <1>5
  <2>2. ASSUME NEW e \in Held PROVE e \in Held'
    <3>1. PICK q \in Reader : reader[q].pc \in {"clearing", "cleared"} /\ e \in reader[q].found
      BY HeldIs
    <3> QED
      BY <2>1, <3>1 DEF Held
  <2> QED
    BY <1>2, <2>2 DEF Done
<1>7. IssuesTypes' /\ InstancesAhead'
  BY <1>1, <1>2, <1>5 DEF IssuesTypes, InstancesAhead
<1>8. ReaderShape'
  BY <1>1, <1>2, <1>4, <1>5 DEF ReaderShape, ClearsWhileReading
<1>9. CallsCounted'
  <2>1. \A q \in Reader : reader'[q].pc = "idle" <=> reader[q].pc = "idle"
    BY <1>2, <1>4, <1>5
  <2>2. ClearingsSent' = ClearingsSent /\ Busy' = Busy
    BY <1>2, <2>1 DEF ClearingsSent, Busy
  <2> QED
    BY <1>1, <1>2, <2>2 DEF CallsCounted
<1>10. ClearingCovered'
  <2>1. runtimeErrors[instance] \subseteq Done \cup reader[r].found
    BY <1>1, <1>2 DEF ClearingCovered, WillClear
  <2>2. \A i \in Instance : sent'[i] > 0 \/ abandoned'[i] > 0 => runtimeErrors'[i] \subseteq Done'
    BY <1>1, <1>2, <1>6 DEF ClearingCovered
  <2>3. \A q \in Reader : reader'[q].pc = "clearing" =>
            runtimeErrors'[reader'[q].target] \subseteq Done' \cup reader'[q].found
    BY <1>1, <1>2, <1>4, <1>5, <1>6, <2>1 DEF ClearingCovered
  <2>4. ASSUME NEW q \in Reader, WillClear(q)'
        PROVE  runtimeErrors'[instance'] \subseteq Done' \cup reader'[q].found
    <3>1. q # r /\ reader'[q] = reader[q]
      BY <1>4, <1>5, <2>4 DEF WillClear
    <3>2. WillClear(q)
      BY <2>4, <3>1 DEF WillClear, ClearsWhileReading
    <3> QED
      BY <1>1, <1>2, <1>6, <3>1, <3>2 DEF ClearingCovered
  <2> QED
    BY <2>2, <2>3, <2>4 DEF ClearingCovered
<1>11. ResetCovered' /\ ClientAccounted'
  BY <1>1, <1>2 DEF ResetCovered, ResetsUnderWay, ClientAccounted
<1>12. RuntimeAccounted'
  BY <1>1, <1>2, <1>6 DEF RuntimeAccounted
<1> QED
  BY <1>7, <1>8, <1>9, <1>10, <1>11, <1>12 DEF IssuesInv

\* The clearing of a reading reaches its database: what it removes was found by the reader.
LEMMA CacheClearsKeeps ==
  ASSUME IssuesInv, NEW r \in Reader, CacheClears(r)
  PROVE  IssuesInv'
<1> USE IssuesAssumption
<1> DEFINE rec == [reader[r] EXCEPT !.pc = "cleared"]
<1>1. /\ IssuesTypes /\ InstancesAhead /\ ReaderShape /\ CallsCounted
      /\ ClearingCovered /\ ResetCovered /\ RuntimeAccounted /\ ClientAccounted
  BY DEF IssuesInv
<1>2. /\ reader[r].pc = "clearing" /\ reader' = [reader EXCEPT ![r] = rec]
      /\ \/ runtimeErrors' = [runtimeErrors EXCEPT ![reader[r].target] = {}]
         \/ runtimeErrors' = runtimeErrors
      /\ UNCHANGED <<clientReportedErrors, instance, redeploys, sent, answered, abandoned,
                     reads, occurred, delivered, raced, unreadable, replaced, dropped>>
  BY DEF CacheClears, history
<1>3. /\ reader \in [Reader -> ReaderRecord] /\ instance \in Instance
      /\ runtimeErrors \in [Instance -> SUBSET RuntimeError]
  BY <1>1 DEF IssuesTypes
<1>4. /\ rec \in ReaderRecord /\ rec.pc = "cleared" /\ rec.kind = reader[r].kind
      /\ rec.found = reader[r].found /\ reader[r].target \in Instance
  BY <1>3 DEF ReaderRecord
<1> HIDE DEF rec
<1>5. /\ reader' \in [Reader -> ReaderRecord] /\ reader'[r] = rec
      /\ \A q \in Reader : q # r => reader'[q] = reader[q]
  BY <1>2, <1>3, <1>4
<1>6. /\ runtimeErrors' \in [Instance -> SUBSET RuntimeError]
      /\ \A i \in Instance : /\ runtimeErrors'[i] \subseteq runtimeErrors[i]
                             /\ i # reader[r].target => runtimeErrors'[i] = runtimeErrors[i]
  BY <1>2, <1>3
<1>7. Done' = Done
  BY <1>2 DEF Done
<1>8. \A e : (e \in Held => e \in Held') /\ (e \in reader[r].found => e \in Held')
  <2>1. \A e \in reader[r].found : e \in Held'
    BY <1>4, <1>5 DEF Held
  <2>2. ASSUME NEW e \in Held PROVE e \in Held'
    <3>1. PICK q \in Reader : reader[q].pc \in {"clearing", "cleared"} /\ e \in reader[q].found
      BY HeldIs
    <3>2. reader'[q].pc \in {"clearing", "cleared"} /\ e \in reader'[q].found
      BY <1>4, <1>5, <3>1
    <3> QED
      BY <3>2 DEF Held
  <2> QED
    BY <2>1, <2>2
<1>9. IssuesTypes'
  BY <1>1, <1>2, <1>5, <1>6 DEF IssuesTypes
<1>10. InstancesAhead'
  <2>1. \A i \in Instance : i > instance' => runtimeErrors'[i] = {}
    BY <1>1, <1>2, <1>6 DEF InstancesAhead
  <2> QED
    BY <1>1, <1>2, <2>1 DEF InstancesAhead
<1>11. ReaderShape'
  BY <1>1, <1>2, <1>4, <1>5 DEF ReaderShape
<1>12. CallsCounted'
  <2>1. \A q \in Reader : reader'[q].pc = "idle" <=> reader[q].pc = "idle"
    BY <1>2, <1>4, <1>5
  <2>2. ClearingsSent' = ClearingsSent /\ Busy' = Busy
    BY <1>2, <2>1 DEF ClearingsSent, Busy
  <2> QED
    BY <1>1, <1>2, <2>2 DEF CallsCounted
<1>13. ClearingCovered'
  <2>1. \A i \in Instance : sent'[i] > 0 \/ abandoned'[i] > 0 => runtimeErrors'[i] \subseteq Done'
    BY <1>1, <1>2, <1>6, <1>7 DEF ClearingCovered
  <2>2. ASSUME NEW q \in Reader, reader'[q].pc = "clearing"
        PROVE  runtimeErrors'[reader'[q].target] \subseteq Done' \cup reader'[q].found
    <3>1. reader'[q] = reader[q] /\ reader[q].target \in Instance
      BY <1>3, <1>4, <1>5, <2>2 DEF ReaderRecord
    <3>2. runtimeErrors[reader[q].target] \subseteq Done \cup reader[q].found
      BY <1>1, <2>2, <3>1 DEF ClearingCovered
    <3> QED
      BY <1>6, <1>7, <3>1, <3>2
  <2>3. ASSUME NEW q \in Reader, WillClear(q)'
        PROVE  runtimeErrors'[instance'] \subseteq Done' \cup reader'[q].found
    <3>1. reader'[q] = reader[q]
      BY <1>4, <1>5, <2>3 DEF WillClear
    <3>2. WillClear(q)
      BY <2>3, <3>1 DEF WillClear, ClearsWhileReading
    <3>3. runtimeErrors[instance] \subseteq Done \cup reader[q].found
      BY <1>1, <3>2 DEF ClearingCovered
    <3> QED
      BY <1>2, <1>3, <1>6, <1>7, <3>1, <3>3
  <2> QED
    BY <2>1, <2>2, <2>3 DEF ClearingCovered
<1>14. ResetCovered' /\ ClientAccounted'
  BY <1>1, <1>2 DEF ResetCovered, ResetsUnderWay, ClientAccounted
<1>15. RuntimeAccounted'
  <2>1. runtimeErrors[reader[r].target] \subseteq Done \cup reader[r].found
    BY <1>1, <1>2 DEF ClearingCovered
  <2> SUFFICES ASSUME NEW e \in occurred \cap RuntimeError, e \notin Done' \cup Held'
               PROVE  \E i \in Instance : e \in runtimeErrors'[i]
    BY <1>2 DEF RuntimeAccounted
  <2>2. PICK i \in Instance : e \in runtimeErrors[i]
    BY <1>1, <1>7, <1>8 DEF RuntimeAccounted
  <2>3. i # reader[r].target
    BY <1>7, <1>8, <2>1, <2>2
  <2> QED
    BY <1>6, <2>2, <2>3
<1> QED
  BY <1>9, <1>10, <1>11, <1>12, <1>13, <1>14, <1>15 DEF IssuesInv

\* The clearing of a resetIssues is answered.
LEMMA ResetClearsKeeps ==
  ASSUME IssuesInv, NEW i \in Instance, ResetClears(i)
  PROVE  IssuesInv'
<1> USE IssuesAssumption
<1>1. /\ IssuesTypes /\ InstancesAhead /\ ReaderShape /\ CallsCounted
      /\ ClearingCovered /\ ResetCovered /\ RuntimeAccounted /\ ClientAccounted
  BY DEF IssuesInv
<1>2. /\ sent[i] > 0 /\ sent' = [sent EXCEPT ![i] = @ - 1] /\ answered' = answered + 1
      /\ runtimeErrors' = [runtimeErrors EXCEPT ![i] = {}] \/ runtimeErrors' = runtimeErrors
      /\ UNCHANGED <<clientReportedErrors, instance, redeploys, reader, abandoned, reads,
                     occurred, delivered, raced, unreadable, replaced, dropped>>
  BY DEF ResetClears, history
<1>3. sent \in [Instance -> Nat] /\ runtimeErrors \in [Instance -> SUBSET RuntimeError]
  BY <1>1 DEF IssuesTypes
<1>4. /\ runtimeErrors' \in [Instance -> SUBSET RuntimeError]
      /\ \A j \in Instance : /\ runtimeErrors'[j] \subseteq runtimeErrors[j]
                             /\ j # i => runtimeErrors'[j] = runtimeErrors[j]
  BY <1>2, <1>3
<1>5. CallsCounted' /\ sent' \in [Instance -> Nat] /\ answered' \in Nat
  BY <1>2, CallAnswered
<1>6. Done' = Done /\ Held' = Held
  BY <1>2 DEF Done, Held
<1>7. IssuesTypes' /\ InstancesAhead' /\ ReaderShape'
  BY <1>1, <1>2, <1>4, <1>5 DEF IssuesTypes, InstancesAhead, ReaderShape
<1>8. ClearingCovered'
  <2>1. ASSUME NEW j \in Instance, sent'[j] > 0 \/ abandoned'[j] > 0
        PROVE  runtimeErrors'[j] \subseteq Done'
    <3>1. sent[j] > 0 \/ abandoned[j] > 0
      BY <1>2, <1>3, <2>1
    <3> QED
      BY <1>1, <1>4, <1>6, <3>1 DEF ClearingCovered
  <2>2. ASSUME NEW q \in Reader, reader'[q].pc = "clearing"
        PROVE  runtimeErrors'[reader'[q].target] \subseteq Done' \cup reader'[q].found
    <3>1. reader[q].target \in Instance
      BY <1>1 DEF IssuesTypes, ReaderRecord
    <3>2. runtimeErrors[reader[q].target] \subseteq Done \cup reader[q].found
      BY <1>1, <1>2, <2>2 DEF ClearingCovered
    <3> QED
      BY <1>2, <1>4, <1>6, <3>1, <3>2
  <2>3. ASSUME NEW q \in Reader, WillClear(q)'
        PROVE  runtimeErrors'[instance'] \subseteq Done' \cup reader'[q].found
    <3>1. WillClear(q) /\ instance \in Instance
      BY <1>1, <1>2, <2>3 DEF WillClear, ClearsWhileReading, IssuesTypes
    <3>2. runtimeErrors[instance] \subseteq Done \cup reader[q].found
      BY <1>1, <3>1 DEF ClearingCovered
    <3> QED
      BY <1>2, <1>4, <1>6, <3>1, <3>2
  <2> QED
    BY <2>1, <2>2, <2>3 DEF ClearingCovered
<1>9. ResetCovered'
  <2>1. ResetsUnderWay
    BY <1>2 DEF ResetsUnderWay
  <2> QED
    BY <1>1, <1>2, <2>1 DEF ResetCovered
<1>10. ClientAccounted'
  BY <1>1, <1>2 DEF ClientAccounted
<1>11. RuntimeAccounted'
  <2>1. runtimeErrors[i] \subseteq Done
    BY <1>1, <1>2 DEF ClearingCovered
  <2> SUFFICES ASSUME NEW e \in occurred \cap RuntimeError, e \notin Done \cup Held
               PROVE  \E j \in Instance : e \in runtimeErrors'[j]
    BY <1>2, <1>6 DEF RuntimeAccounted
  <2>2. PICK j \in Instance : e \in runtimeErrors[j]
    BY <1>1 DEF RuntimeAccounted
  <2> QED
    BY <1>4, <2>1, <2>2
<1> QED
  BY <1>5, <1>7, <1>8, <1>9, <1>10, <1>11 DEF IssuesInv

\* A clearing that nobody waits for any more reaches its database.
LEMMA AbandonedClearsKeeps ==
  ASSUME IssuesInv, NEW i \in Instance, AbandonedClears(i)
  PROVE  IssuesInv'
<1> USE IssuesAssumption
<1>1. /\ IssuesTypes /\ InstancesAhead /\ ReaderShape /\ CallsCounted
      /\ ClearingCovered /\ ResetCovered /\ RuntimeAccounted /\ ClientAccounted
  BY DEF IssuesInv
<1>2. /\ abandoned[i] > 0 /\ abandoned' = [abandoned EXCEPT ![i] = @ - 1]
      /\ runtimeErrors' = [runtimeErrors EXCEPT ![i] = {}] \/ runtimeErrors' = runtimeErrors
      /\ UNCHANGED <<clientReportedErrors, instance, redeploys, reader, sent, answered, reads,
                     occurred, delivered, raced, unreadable, replaced, dropped>>
  BY DEF AbandonedClears, history
<1>3. abandoned \in [Instance -> Nat] /\ runtimeErrors \in [Instance -> SUBSET RuntimeError]
  BY <1>1 DEF IssuesTypes
<1>4. /\ runtimeErrors' \in [Instance -> SUBSET RuntimeError]
      /\ \A j \in Instance : /\ runtimeErrors'[j] \subseteq runtimeErrors[j]
                             /\ j # i => runtimeErrors'[j] = runtimeErrors[j]
  BY <1>2, <1>3
<1>5. CallsCounted' /\ abandoned' \in [Instance -> Nat]
  <2>1. ClearingsSent' = ClearingsSent /\ Busy' = Busy
    BY <1>2 DEF ClearingsSent, Busy
  <2>2. abandoned' \in [Instance -> Nat]
    BY <1>2, <1>3
  <2> QED
    BY <1>1, <1>2, <2>1, <2>2 DEF CallsCounted
<1>6. Done' = Done /\ Held' = Held
  BY <1>2 DEF Done, Held
<1>7. IssuesTypes' /\ InstancesAhead' /\ ReaderShape'
  BY <1>1, <1>2, <1>4, <1>5 DEF IssuesTypes, InstancesAhead, ReaderShape
<1>8. ClearingCovered'
  <2>1. ASSUME NEW j \in Instance, sent'[j] > 0 \/ abandoned'[j] > 0
        PROVE  runtimeErrors'[j] \subseteq Done'
    <3>1. sent[j] > 0 \/ abandoned[j] > 0
      BY <1>2, <1>3, <2>1
    <3> QED
      BY <1>1, <1>4, <1>6, <3>1 DEF ClearingCovered
  <2>2. ASSUME NEW q \in Reader, reader'[q].pc = "clearing"
        PROVE  runtimeErrors'[reader'[q].target] \subseteq Done' \cup reader'[q].found
    <3>1. reader[q].target \in Instance
      BY <1>1 DEF IssuesTypes, ReaderRecord
    <3>2. runtimeErrors[reader[q].target] \subseteq Done \cup reader[q].found
      BY <1>1, <1>2, <2>2 DEF ClearingCovered
    <3> QED
      BY <1>2, <1>4, <1>6, <3>1, <3>2
  <2>3. ASSUME NEW q \in Reader, WillClear(q)'
        PROVE  runtimeErrors'[instance'] \subseteq Done' \cup reader'[q].found
    <3>1. WillClear(q) /\ instance \in Instance
      BY <1>1, <1>2, <2>3 DEF WillClear, ClearsWhileReading, IssuesTypes
    <3>2. runtimeErrors[instance] \subseteq Done \cup reader[q].found
      BY <1>1, <3>1 DEF ClearingCovered
    <3> QED
      BY <1>2, <1>4, <1>6, <3>1, <3>2
  <2> QED
    BY <2>1, <2>2, <2>3 DEF ClearingCovered
<1>9. ResetCovered'
  BY <1>1, <1>2 DEF ResetCovered, ResetsUnderWay
<1>10. ClientAccounted'
  BY <1>1, <1>2 DEF ClientAccounted
<1>11. RuntimeAccounted'
  <2>1. runtimeErrors[i] \subseteq Done
    BY <1>1, <1>2 DEF ClearingCovered
  <2> SUFFICES ASSUME NEW e \in occurred \cap RuntimeError, e \notin Done \cup Held
               PROVE  \E j \in Instance : e \in runtimeErrors'[j]
    BY <1>2, <1>6 DEF RuntimeAccounted
  <2>2. PICK j \in Instance : e \in runtimeErrors[j]
    BY <1>1 DEF RuntimeAccounted
  <2> QED
    BY <1>4, <2>1, <2>2
<1> QED
  BY <1>5, <1>7, <1>8, <1>9, <1>10, <1>11 DEF IssuesInv

\* A resetIssues empties the client errors.
LEMMA ResetEndsKeeps ==
  ASSUME IssuesInv, ResetEnds
  PROVE  IssuesInv'
<1> USE IssuesAssumption
<1>1. /\ IssuesTypes /\ InstancesAhead /\ ReaderShape /\ CallsCounted
      /\ ClearingCovered /\ ResetCovered /\ RuntimeAccounted /\ ClientAccounted
  BY DEF IssuesInv
<1>2. /\ answered > 0 /\ answered' = answered - 1 /\ clientReportedErrors' = {}
      /\ UNCHANGED <<runtimeErrors, instance, redeploys, reader, sent, abandoned, reads,
                     occurred, delivered, raced, unreadable, replaced, dropped>>
  BY DEF ResetEnds, history
<1>3. answered \in Nat /\ answered' \in Nat /\ answered' <= answered
  BY <1>1, <1>2 DEF IssuesTypes
<1>4. Done' = Done /\ Held' = Held /\ ClearingsSent' = ClearingsSent /\ Busy' = Busy
  BY <1>2 DEF Done, Held, ClearingsSent, Busy
<1>5. IssuesTypes' /\ InstancesAhead' /\ ReaderShape'
  BY <1>1, <1>2, <1>3 DEF IssuesTypes, InstancesAhead, ReaderShape
<1>6. CallsCounted'
  <2>1. Busy \subseteq Reader
    BY DEF Busy
  <2>2. Cardinality(Busy) \in Nat /\ Cardinality(ClearingsSent) \in Nat
    BY <1>1, <2>1, FS_Subset, FS_CardinalityType DEF CallsCounted
  <2>3. reads \in Nat
    BY <1>1 DEF IssuesTypes
  <2>4. Cardinality(ClearingsSent') + answered' + Cardinality(Busy') <= reads'
    BY <1>1, <1>2, <1>3, <1>4, <2>2, <2>3 DEF CallsCounted
  <2> QED
    BY <1>1, <1>2, <1>4, <2>4 DEF CallsCounted
<1>7. ClearingCovered' /\ RuntimeAccounted'
  BY <1>1, <1>2, <1>4 DEF ClearingCovered, RuntimeAccounted, WillClear, ClearsWhileReading
<1>8. ResetCovered'
  BY <1>2 DEF ResetCovered
<1>9. ClientAccounted'
  <2>1. clientReportedErrors \subseteq delivered \cup raced
    BY <1>1, <1>2 DEF ResetCovered, ResetsUnderWay
  <2> QED
    BY <1>1, <1>2, <2>1 DEF ClientAccounted
<1> QED
  BY <1>5, <1>6, <1>7, <1>8, <1>9 DEF IssuesInv

\* A redeployment: whatever was to be cleared at the instance that is current then finds a
\* database that is still empty.
LEMMA RedeployedKeeps ==
  ASSUME IssuesInv, Redeployed
  PROVE  IssuesInv'
<1> USE IssuesAssumption
<1>1. /\ IssuesTypes /\ InstancesAhead /\ ReaderShape /\ CallsCounted
      /\ ClearingCovered /\ ResetCovered /\ RuntimeAccounted /\ ClientAccounted
  BY DEF IssuesInv
<1>2. /\ redeploys > 0 /\ redeploys' = redeploys - 1 /\ instance' = instance + 1
      /\ UNCHANGED <<runtimeErrors, clientReportedErrors, reader, sent, answered, abandoned, reads,
                     occurred, delivered, raced, unreadable, replaced, dropped>>
  BY DEF Redeployed, history
<1>3. /\ instance \in Instance /\ redeploys \in Nat /\ redeploys' \in Nat
      /\ instance' \in Instance /\ instance' > instance
      /\ instance' + redeploys' <= MaxInstances
  BY <1>1, <1>2 DEF IssuesTypes, InstancesAhead, Instance
<1>4. runtimeErrors[instance'] = {}
  BY <1>1, <1>3 DEF InstancesAhead
<1>5. Done' = Done /\ Held' = Held /\ ClearingsSent' = ClearingsSent /\ Busy' = Busy
  BY <1>2 DEF Done, Held, ClearingsSent, Busy
<1>6. IssuesTypes'
  BY <1>1, <1>2, <1>3 DEF IssuesTypes
<1>7. InstancesAhead'
  BY <1>1, <1>2, <1>3 DEF InstancesAhead, Instance
<1>8. ReaderShape' /\ CallsCounted'
  BY <1>1, <1>2, <1>5 DEF ReaderShape, CallsCounted
<1>9. ClearingCovered'
  BY <1>1, <1>2, <1>4, <1>5 DEF ClearingCovered
<1>10. ResetCovered' /\ ClientAccounted' /\ RuntimeAccounted'
  BY <1>1, <1>2, <1>5 DEF ResetCovered, ResetsUnderWay, ClientAccounted, RuntimeAccounted
<1> QED
  BY <1>6, <1>7, <1>8, <1>9, <1>10 DEF IssuesInv

\* An eviction: what the readers that clear had found is dropped, the others leave theirs
\* in the database.
LEMMA EvictReadersKeeps ==
  ASSUME IssuesInv, EvictReaders
  PROVE  IssuesInv'
<1> USE IssuesAssumption
<1>1. /\ IssuesTypes /\ InstancesAhead /\ ReaderShape /\ CallsCounted
      /\ ClearingCovered /\ ResetCovered /\ RuntimeAccounted /\ ClientAccounted
  BY DEF IssuesInv
<1>2. /\ reader' \in ReadersBegin
      /\ abandoned' = [i \in Instance |-> abandoned[i] + sent[i] + Cardinality(ClearsAt(i))]
      /\ sent' = [i \in Instance |-> 0] /\ answered' = 0 /\ redeploys' = 0
      /\ dropped' = dropped \cup Held
      /\ UNCHANGED <<runtimeErrors, clientReportedErrors, instance, reads,
                     occurred, delivered, raced, unreadable, replaced>>
  BY DEF EvictReaders
<1>3. \A r \in Reader : /\ reader'[r] \in ReaderRecord
                        /\ reader'[r].pc = "idle" /\ reader'[r].found = {}
  <2>1. 1 \in Instance
    BY DEF Instance
  <2> QED
    BY <1>2, <2>1 DEF ReadersBegin, IdleReader, ReaderRecord, ReadMode
<1>4. reader' \in [Reader -> ReaderRecord]
  BY <1>2, <1>3 DEF ReadersBegin
<1>5. \A i \in Instance : /\ IsFiniteSet(ClearsAt(i)) /\ Cardinality(ClearsAt(i)) \in Nat
                          /\ (ClearsAt(i) = {} => Cardinality(ClearsAt(i)) = 0)
  <2> TAKE i \in Instance
  <2>1. ClearsAt(i) \subseteq Reader
    BY DEF ClearsAt
  <2> QED
    BY <2>1, FS_Subset, FS_CardinalityType, FS_EmptySet
<1>6. abandoned' \in [Instance -> Nat]
  <2>1. \A i \in Instance : abandoned[i] + sent[i] + Cardinality(ClearsAt(i)) \in Nat
    BY <1>1, <1>5 DEF IssuesTypes
  <2> QED
    BY <1>2, <2>1
<1>7. Held \in SUBSET RuntimeError
  <2>1. \A r \in Reader : reader[r].found \in SUBSET RuntimeError
    BY <1>1 DEF IssuesTypes, ReaderRecord
  <2> QED
    BY <2>1 DEF Held
<1>8. IssuesTypes'
  BY <1>1, <1>2, <1>4, <1>6, <1>7 DEF IssuesTypes
<1>9. InstancesAhead' /\ ReaderShape'
  BY <1>1, <1>2, <1>3 DEF InstancesAhead, ReaderShape, IssuesTypes, Instance
<1>10. CallsCounted'
  <2>1. Busy' = {}
    BY <1>3 DEF Busy
  <2>2. ClearingsSent' = {}
    BY <1>2 DEF ClearingsSent
  <2> QED
    BY <1>1, <1>2, <2>1, <2>2, FS_EmptySet DEF CallsCounted, IssuesTypes
<1>11. Done' = Done \cup Held
  BY <1>2 DEF Done
<1>12. ClearingCovered'
  <2>1. ASSUME NEW i \in Instance, abandoned'[i] > 0 PROVE runtimeErrors'[i] \subseteq Done'
    <3>1. abandoned[i] \in Nat /\ sent[i] \in Nat
      BY <1>1 DEF IssuesTypes
    <3>2. CASE sent[i] > 0 \/ abandoned[i] > 0
      BY <1>1, <1>2, <1>11, <3>2 DEF ClearingCovered
    <3>3. CASE ~(sent[i] > 0 \/ abandoned[i] > 0)
      <4>1. Cardinality(ClearsAt(i)) # 0
        BY <1>2, <1>5, <2>1, <3>1, <3>3
      <4>2. PICK r \in Reader : reader[r].pc = "clearing" /\ reader[r].target = i
        BY <1>5, <4>1 DEF ClearsAt
      <4>3. runtimeErrors[i] \subseteq Done \cup reader[r].found
        BY <1>1, <4>2 DEF ClearingCovered
      <4>4. reader[r].found \subseteq Held
        BY <4>2 DEF Held
      <4> QED
        BY <1>2, <1>11, <4>3, <4>4
    <3> QED
      BY <3>2, <3>3
  <2>2. \A i \in Instance : ~(sent'[i] > 0)
    BY <1>2
  <2> QED
    BY <1>3, <2>1, <2>2 DEF ClearingCovered, WillClear
<1>13. ResetCovered' /\ ClientAccounted'
  BY <1>1, <1>2 DEF ResetCovered, ResetsUnderWay, ClientAccounted
<1>14. RuntimeAccounted'
  BY <1>1, <1>2, <1>11 DEF RuntimeAccounted
<1> QED
  BY <1>8, <1>9, <1>10, <1>12, <1>13, <1>14 DEF IssuesInv

-----------------------------------------------------------------------------
\* Every step keeps the invariant.
LEMMA IssuesStep == IssuesInv /\ [IssuesNext]_issuesVars => IssuesInv'
<1> SUFFICES ASSUME IssuesInv, [IssuesNext]_issuesVars PROVE IssuesInv'
  OBVIOUS
<1> USE IssuesAssumption
<1>1. /\ runtimeErrors \in [Instance -> SUBSET RuntimeError] /\ instance \in Instance
      /\ reader \in [Reader -> ReaderRecord]
  BY DEF IssuesInv, IssuesTypes
<1>2. ASSUME NEW r \in Reader, Fetch(r) PROVE IssuesInv'
  <2>1. runtimeErrors[instance] \in SUBSET RuntimeError
    BY <1>1
  <2> QED
    BY <1>2, <2>1, ReadingKeeps DEF Fetch, history
<1>3. ASSUME NEW r \in Reader, FetchFails(r) PROVE IssuesInv'
  <2>1. {} \in SUBSET RuntimeError /\ runtimeErrors[instance] \subseteq {} \cup unreadable'
    BY <1>3 DEF FetchFails
  <2> QED
    BY <1>3, <2>1, ReadingKeeps DEF FetchFails
<1>4. ASSUME NEW r \in Reader, CacheCleared(r) PROVE IssuesInv'
  BY <1>4, DeliverKeeps DEF CacheCleared
<1>5. ASSUME NEW r \in Reader, ReadingComplete(r) PROVE IssuesInv'
  BY <1>5, DeliverKeeps DEF ReadingComplete
<1>6. CASE UNCHANGED issuesVars
  <2>1. Done' = Done /\ Held' = Held /\ ClearingsSent' = ClearingsSent /\ Busy' = Busy
    BY <1>6 DEF issuesVars, Done, Held, ClearingsSent, Busy
  <2>2. IssuesTypes' /\ InstancesAhead' /\ ReaderShape' /\ CallsCounted'
    BY <1>6, <2>1 DEF issuesVars, IssuesInv, IssuesTypes, InstancesAhead, ReaderShape, CallsCounted
  <2>3. ClearingCovered' /\ ResetCovered' /\ RuntimeAccounted' /\ ClientAccounted'
    BY <1>6, <2>1 DEF issuesVars, IssuesInv, ClearingCovered, WillClear, ClearsWhileReading,
                      ResetCovered, ResetsUnderWay, RuntimeAccounted, ClientAccounted
  <2> QED
    BY <2>2, <2>3 DEF IssuesInv
<1> QED
  BY <1>2, <1>3, <1>4, <1>5, <1>6, OccursKeeps, ReportsKeep, ClearCalledKeeps, CacheClearsKeeps,
     ResetClearsKeeps, AbandonedClearsKeeps, ResetEndsKeeps, RedeployedKeeps, EvictReadersKeeps
     DEF IssuesNext

\* The invariant holds throughout.
LEMMA IssuesInvariant == IssuesSpec => []IssuesInv
  BY IssuesInitially, IssuesStep, PTL DEF IssuesSpec

\* The stores, readers and calls stay within their types: no more calls of resetIssues
\* are ever under way than there were readings.
THEOREM IssuesTypeCorrect == IssuesSpec => []IssuesTypeOK
  BY IssuesInvariant, IssuesInvImplies, PTL

\* No error disappears unread, whatever the interleaving of readings, clearings,
\* redeployments, reports and evictions, unless it raced with a clearing, could not be
\* read, was replaced, or its reader was evicted while it cleared.
THEOREM NoErrorLost == IssuesSpec => []ErrorsAccounted
  BY IssuesInvariant, IssuesInvImplies, PTL
=============================================================================
