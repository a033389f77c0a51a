--------------------------- MODULE Findings_proofs ---------------------------
(***************************************************************************)
(* Proofs about Findings: for any set of findings, manifests and requests, *)
(* the properties of the run MCFindings, the dates of the archive as long  *)
(* as no two requests are about one finding.                               *)
(***************************************************************************)
EXTENDS Findings, TLAPS

\* The findings the running scan has read.
Taken(f) == f \in done \/ FileOf[f] \in reading

\* A scan reads a manifest once, and nothing is left over from the last one.
ReadOnce ==
  /\ phase = "idle" => done = {} /\ reading = {}
  /\ \A m \in reading : m \notin todo
  /\ \A f \in done : FileOf[f] \notin todo

\* Rows are not deleted, so the row a request is about stays stored; a row
\* that was never stored was never found actionable.
StaysStored ==
  /\ \A q \in Request, f \in Finding : edit[q].finding = f => row[f].status # "none"
  /\ \A f \in Finding : row[f].status = "none" => row[f].verdict = "suppressed"

\* What can have happened to a row since the scan read it: the owner may have
\* opened or dismissed it, and nothing else.
OwnerOnly ==
  \A f \in Finding : Taken(f) =>
    /\ loaded[f].verdict = row[f].verdict
    /\ loaded[f].status = row[f].status \/ row[f].status \in {"open", "dismissed"}
    /\ loaded[f].status = "none" <=> row[f].status = "none"
    /\ loaded[f].status = "filtered" => loaded[f].verdict = "suppressed"

\* What the session holds is the reconciliation of what it read, up to the
\* notified mark, and the news are exactly the findings worth telling.
SessionReconciled ==
  /\ \A f \in done :
       /\ work[f].verdict = Reconciled(loaded[f], saw[f]).verdict
       /\ work[f].status = Reconciled(loaded[f], saw[f]).status
  /\ \A f \in Finding : f \in news <=> f \in done /\ WorthTelling(loaded[f], saw[f])

\* The owner has been told of a finding only while its row is still news told:
\* the telling scan itself, up to its commit, is the exception.
ToldIsNews ==
  \A f \in Finding : told[f] =>
    \/ phase = "closing" /\ f \in news
    \/ /\ StillNews(row[f])
       /\ phase # "closing" /\ Taken(f) => StillNews(loaded[f]) /\ loaded[f].status # "none"

IInv ==
  /\ TypeOK
  /\ ReadOnce
  /\ StaysStored
  /\ OwnerOnly
  /\ SessionReconciled
  /\ ToldIsNews
  /\ ResolvedMeansGone
  /\ VerdictIsCurrent

-----------------------------------------------------------------------------
(***************************************************************************)
(* The reconciliation of one row.                                          *)
(***************************************************************************)

\* The verdict and the status _reconcile_matches leaves in a row, column by
\* column (the branches of the code put together).
LEMMA ReconciledRow ==
  ASSUME NEW old \in Row, NEW v \in Seen
  PROVE  /\ Reconciled(old, v) \in Row
         /\ Reconciled(old, v).verdict = IF v = "absent" THEN old.verdict ELSE v
         /\ v = "absent" =>
              Reconciled(old, v).status = IF old.status = "none" THEN "none" ELSE "resolved"
         /\ v = "suppressed" =>
              Reconciled(old, v).status =
                IF old.status = "dismissed" THEN "dismissed" ELSE "filtered"
         /\ v = "actionable" =>
              Reconciled(old, v).status =
                IF old.status \in {"none", "resolved", "filtered"} THEN "open" ELSE old.status
<1>1. CASE v = "absent"
  BY <1>1 DEF Reconciled, Unseen, Row, Statuses, Verdicts
<1>2. CASE v = "suppressed"
  BY <1>2 DEF Reconciled, Suppressed, Row, Statuses, Verdicts
<1>3. CASE v = "actionable"
  BY <1>3 DEF Reconciled, Raised, Row, Statuses, Verdicts
<1> QED
  BY <1>1, <1>2, <1>3 DEF Seen, Verdicts

\* A commit writes a column the session changed and leaves the others as
\* they are stored.
LEMMA MergedRow ==
  ASSUME NEW stored \in Row, NEW read \in Row, NEW new \in Row
  PROVE  /\ Merge(stored, read, new) \in Row
         /\ Merge(stored, read, new).verdict =
              IF new.verdict # read.verdict THEN new.verdict ELSE stored.verdict
         /\ Merge(stored, read, new).status =
              IF new.status # read.status THEN new.status ELSE stored.status
  BY DEF Merge, Column, Row

\* The owner's request sets the status it was asked for, or leaves the row's.
LEMMA UpdatedRow ==
  ASSUME NEW r \in Row, NEW e \in EditRecord
  PROVE  /\ Updated(r, e) \in Row
         /\ Updated(r, e).verdict = r.verdict
         /\ Updated(r, e).status \in {r.status, e.to}
         /\ e.to \in {"open", "dismissed"}
  BY DEF Updated, Row, EditRecord, Statuses

\* NoRow is a row, NoEdit a request.
LEMMA EmptyRecords == NoRow \in Row /\ NoEdit \in EditRecord
  BY DEF NoRow, Row, NoEdit, EditRecord, Statuses, Verdicts

-----------------------------------------------------------------------------
(***************************************************************************)
(* Type correctness.                                                       *)
(***************************************************************************)

LEMMA InitTyped == Init => TypeOK
  BY EmptyRecords DEF Init, TypeOK, Seen

\* The end of a scan, by commit or by rollback, clears what it held.
LEMMA NoScanTyped ==
  ASSUME NoScan
  PROVE  /\ phase' = "idle" /\ todo' = {} /\ reading' = {}
         /\ done' = {} /\ news' = {} /\ mailed' = {}
         /\ saw' \in [Finding -> Seen]
         /\ loaded' \in [Finding -> Row]
         /\ work' \in [Finding -> Row]
  BY EmptyRecords DEF NoScan, Seen

LEMMA MarkNotifiedTyped ==
  ASSUME TypeOK, NEW F \in SUBSET Finding, MarkNotified(F)
  PROVE  /\ work' \in [Finding -> Row]
         /\ \A f \in Finding : /\ work'[f].verdict = work[f].verdict
                               /\ work'[f].status = work[f].status
  BY DEF TypeOK, MarkNotified, Row

LEMMA StepTyped == TypeOK /\ [Next]_vars => TypeOK'
<1> SUFFICES ASSUME TypeOK, [Next]_vars PROVE TypeOK'
  OBVIOUS
<1> USE FindingsAssumption
<1>1. CASE StartScan
  BY <1>1 DEF StartScan, TypeOK
<1>2. ASSUME NEW m \in Manifest, SkipUnreadable(m) PROVE TypeOK'
  BY <1>2 DEF SkipUnreadable, TypeOK
<1>3. ASSUME NEW m \in Manifest, Load(m) PROVE TypeOK'
  <2>1. saw' \in [Finding -> Seen]
    BY <1>3 DEF Load, TypeOK, FindingsIn
  <2>2. loaded' \in [Finding -> Row]
    BY <1>3 DEF Load, TypeOK
  <2> QED
    BY <1>3, <2>1, <2>2 DEF Load, TypeOK
<1>4. ASSUME NEW m \in Manifest, Reconcile(m) PROVE TypeOK'
  <2>1. \A f \in Finding : Reconciled(loaded[f], saw[f]) \in Row
    BY ReconciledRow DEF TypeOK
  <2>2. work' \in [Finding -> Row]
    BY <1>4, <2>1 DEF Reconcile, TypeOK
  <2>3. news' \subseteq Finding /\ done' \subseteq Finding
    BY <1>4 DEF Reconcile, TypeOK, FindingsIn
  <2> QED
    BY <1>4, <2>2, <2>3 DEF Reconcile, TypeOK
<1>5. Sendable \in SUBSET Finding /\ news \in SUBSET Finding
  BY DEF Sendable, TypeOK
<1>6. CASE FinishDelivered
  <2>1. work' \in [Finding -> Row]
    BY <1>5, <1>6, MarkNotifiedTyped DEF FinishDelivered
  <2> QED
    BY <1>5, <1>6, <2>1 DEF FinishDelivered, Finishing, TypeOK
<1>7. CASE FinishUndelivered
  BY <1>7 DEF FinishUndelivered, Finishing, TypeOK
<1>8. CASE FinishOptedOut
  <2>1. work' \in [Finding -> Row]
    BY <1>5, <1>8, MarkNotifiedTyped DEF FinishOptedOut
  <2> QED
    BY <1>8, <2>1 DEF FinishOptedOut, Finishing, TypeOK
<1>9. CASE FinishWatched
  <2>1. work' \in [Finding -> Row]
    BY <1>5, <1>9, MarkNotifiedTyped DEF FinishWatched
  <2> QED
    BY <1>9, <2>1 DEF FinishWatched, Finishing, TypeOK
<1>10. CASE FinishManual
  BY <1>10 DEF FinishManual, Finishing, TypeOK
<1>11. CASE Commit
  <2>1. \A f \in Finding : Merge(row[f], loaded[f], work[f]) \in Row
    BY MergedRow DEF TypeOK
  <2>2. row' \in [Finding -> Row]
    BY <1>11, <2>1 DEF Commit, TypeOK
  <2>3. /\ current' \in [Finding -> Seen]
        /\ edit' \in [Request -> EditRecord]
    BY <1>11 DEF Commit, TypeOK
  <2>4. told' \in [Finding -> BOOLEAN]
    <3>1. told' = [f \in Finding |-> told[f] /\ StillNews(row'[f])]
      BY <1>11 DEF Commit
    <3> QED
      BY <3>1, Zenon
  <2>5. NoScan
    BY <1>11 DEF Commit
  <2> QED
    BY <2>2, <2>3, <2>4, <2>5, NoScanTyped DEF TypeOK
<1>12. CASE Abort
  <2>1. told' \in [Finding -> BOOLEAN]
    <3>1. told' = [f \in Finding |-> told[f] /\ f \notin news]
      BY <1>12 DEF Abort
    <3> QED
      BY <3>1, Zenon
  <2>2. NoScan /\ UNCHANGED <<row, current, edit>>
    BY <1>12 DEF Abort
  <2> QED
    BY <2>1, <2>2, NoScanTyped DEF TypeOK
<1>13. ASSUME NEW q \in Request, NEW f \in Finding, NEW to \in {"open", "dismissed"},
              ReadStatus(q, f, to)
       PROVE  TypeOK'
  <2>1. [finding |-> f, to |-> to, moves |-> row[f].status # to,
         undates |-> to = "open" /\ row[f].dismissedAt] \in EditRecord
    BY DEF TypeOK, Row, EditRecord
  <2> QED
    BY <1>13, <2>1 DEF ReadStatus, scanVars, TypeOK
<1>14. ASSUME NEW q \in Request, NEW f \in Finding, WriteStatus(q, f)
       PROVE  TypeOK'
  <2>1. Updated(row[f], edit[q]) \in Row
    BY UpdatedRow DEF TypeOK
  <2> QED
    BY <1>14, <2>1, EmptyRecords DEF WriteStatus, scanVars, TypeOK
<1>15. CASE UNCHANGED vars
  BY <1>15 DEF vars, scanVars, TypeOK
<1> QED
  BY <1>1, <1>2, <1>3, <1>4, <1>6, <1>7, <1>8, <1>9, <1>10, <1>11, <1>12, <1>13,
     <1>14, <1>15 DEF Next, Scan, Owner

\* Every variable keeps its type, whatever the scans and the requests do.
THEOREM TypeCorrect == Spec => []TypeOK
<1> QED
  BY InitTyped, StepTyped, PTL DEF Spec

-----------------------------------------------------------------------------
(***************************************************************************)
(* The inductive invariant.                                                *)
(***************************************************************************)

LEMMA InitInv == Init => IInv
<1> SUFFICES ASSUME Init PROVE IInv
  OBVIOUS
<1>1. TypeOK
  BY InitTyped
<1>2. ReadOnce /\ StaysStored /\ OwnerOnly /\ SessionReconciled /\ ToldIsNews
  BY FindingsAssumption
  DEF Init, ReadOnce, StaysStored, OwnerOnly, SessionReconciled, ToldIsNews, Taken,
      NoRow, NoEdit
<1>3. ResolvedMeansGone /\ VerdictIsCurrent
  BY DEF Init, ResolvedMeansGone, VerdictIsCurrent, NoRow
<1> QED
  BY <1>1, <1>2, <1>3 DEF IInv

\* Finishing marks rows as notified and adds to what the owner was told, and
\* leaves the rest of the scan alone.
LEMMA FinishStep ==
  ASSUME IInv, TypeOK', NEW t \in Triggers, Finishing(t),
         \A f \in Finding : /\ work'[f].verdict = work[f].verdict
                            /\ work'[f].status = work[f].status,
         \A f \in Finding : told'[f] => told[f] \/ f \in news
  PROVE  IInv'
<1> USE DEF IInv, Finishing
<1>1. ReadOnce' /\ StaysStored'
  BY DEF ReadOnce, StaysStored
<1>2. OwnerOnly'
  BY DEF OwnerOnly, Taken
<1>3. SessionReconciled'
  BY DEF SessionReconciled, TypeOK
<1>4. ToldIsNews'
  BY DEF ToldIsNews, Taken
<1>5. ResolvedMeansGone' /\ VerdictIsCurrent'
  BY DEF ResolvedMeansGone, VerdictIsCurrent
<1> QED
  BY <1>1, <1>2, <1>3, <1>4, <1>5

\* A finding the owner has been told of is not reconciled into news again.
LEMMA ToldIsNotNews ==
  ASSUME NEW old \in Row, StillNews(old), old.status # "none", NEW v \in Seen
  PROVE  ~WorthTelling(old, v)
  BY DEF StillNews, WorthTelling, IsNews

\* What a commit stores in the row of a finding it has reconciled.
LEMMA CommittedRow ==
  ASSUME IInv, Commit, NEW f \in done
  PROVE  /\ row'[f].verdict = IF saw[f] = "absent" THEN row[f].verdict ELSE saw[f]
         /\ row'[f].status =
              IF work[f].status # loaded[f].status THEN work[f].status ELSE row[f].status
         /\ row'[f] \in Row
<1> USE DEF IInv
<1>1. /\ f \in Finding /\ row[f] \in Row /\ loaded[f] \in Row /\ work[f] \in Row
      /\ saw[f] \in Seen
  BY DEF TypeOK
<1>2. row'[f] = Merge(row[f], loaded[f], work[f])
  BY <1>1 DEF Commit
<1>3. work[f].verdict = IF saw[f] = "absent" THEN loaded[f].verdict ELSE saw[f]
  BY <1>1, ReconciledRow DEF SessionReconciled
<1>4. loaded[f].verdict = row[f].verdict
  BY <1>1 DEF OwnerOnly, Taken
<1> QED
  BY <1>1, <1>2, <1>3, <1>4, MergedRow

\* The status a commit stores, in the terms of what the scan concluded: the
\* reconciliation of the status read, unless that leaves the column unchanged
\* and the owner has changed it since.
LEMMA CommittedStatus ==
  ASSUME IInv, Commit, NEW f \in done
  PROVE  /\ saw[f] = "actionable" =>
              \/ row'[f].status = "open"
              \/ row'[f].status = "dismissed" /\ row[f].status = "dismissed"
         /\ saw[f] = "suppressed" =>
              \/ row'[f].status = "filtered"
              \/ row'[f].status = row[f].status /\ row[f].status \in {"open", "dismissed"}
         /\ saw[f] = "absent" =>
              \/ row'[f].status = "none" /\ row[f].status = "none"
              \/ row'[f].status = "resolved" /\ row[f].status # "none"
              \/ row'[f].status = row[f].status /\ row[f].status \in {"open", "dismissed"}
<1> USE DEF IInv
<1>1. /\ f \in Finding /\ row[f] \in Row /\ loaded[f] \in Row /\ work[f] \in Row
      /\ saw[f] \in Seen
  BY DEF TypeOK
<1>2. work[f].status = Reconciled(loaded[f], saw[f]).status
  BY <1>1 DEF SessionReconciled
<1>3. /\ loaded[f].status = row[f].status \/ row[f].status \in {"open", "dismissed"}
      /\ loaded[f].status = "none" <=> row[f].status = "none"
  BY <1>1 DEF OwnerOnly, Taken
<1>4. loaded[f].status \in Statuses
  BY <1>1 DEF Row
<1>5. CASE saw[f] = "actionable"
  BY <1>1, <1>2, <1>3, <1>4, <1>5, ReconciledRow, CommittedRow DEF Statuses
<1>6. CASE saw[f] = "suppressed"
  BY <1>1, <1>2, <1>3, <1>4, <1>6, ReconciledRow, CommittedRow DEF Statuses
<1>7. CASE saw[f] = "absent"
  BY <1>1, <1>2, <1>3, <1>4, <1>7, ReconciledRow, CommittedRow DEF Statuses
<1> QED
  BY <1>5, <1>6, <1>7

\* A commit: the verdicts are current, and a resolved row is gone.
LEMMA CommitStep == IInv /\ TypeOK' /\ Commit => IInv'
<1> SUFFICES ASSUME IInv, TypeOK', Commit PROVE IInv'
  OBVIOUS
<1> USE DEF IInv
<1>1. /\ phase = "closing"
      /\ \A f \in Finding : f \notin done => row'[f] = row[f] /\ current'[f] = current[f]
      /\ \A f \in Finding : f \in done => current'[f] = saw[f]
      /\ \A f \in Finding : told'[f] => told[f] /\ StillNews(row'[f])
      /\ NoScan /\ edit' = edit
      /\ done \subseteq Finding
      /\ row \in [Finding -> Row] /\ saw \in [Finding -> Seen]
  BY DEF Commit, TypeOK
<1>2. phase' = "idle" /\ done' = {} /\ reading' = {} /\ todo' = {} /\ news' = {}
  BY <1>1 DEF NoScan
<1>3. ReadOnce' /\ OwnerOnly' /\ SessionReconciled'
  BY <1>2 DEF ReadOnce, OwnerOnly, SessionReconciled, Taken
<1>4. StaysStored'
  <2>1. ASSUME NEW f \in Finding, row'[f].status = "none"
        PROVE  row[f].status = "none" /\ row'[f].verdict = row[f].verdict
    <3>1. CASE f \in done
      <4>1. saw[f] = "absent" /\ row[f].status = "none"
        BY <1>1, <2>1, <3>1, CommittedStatus DEF Seen, Verdicts
      <4> QED
        BY <3>1, <4>1, CommittedRow
    <3>2. CASE f \notin done
      BY <1>1, <2>1, <3>2
    <3> QED
      BY <3>1, <3>2
  <2> QED
    BY <1>1, <2>1 DEF StaysStored
<1>5. ToldIsNews'
  BY <1>1, <1>2 DEF ToldIsNews, Taken
<1>6. ResolvedMeansGone'
  <2> SUFFICES ASSUME NEW f \in Finding, row'[f].status = "resolved"
               PROVE  current'[f] = "absent"
    BY DEF ResolvedMeansGone
  <2>1. CASE f \in done
    BY <1>1, <2>1, CommittedStatus DEF Seen, Verdicts
  <2>2. CASE f \notin done
    BY <1>1, <2>2 DEF ResolvedMeansGone
  <2> QED
    BY <2>1, <2>2
<1>7. VerdictIsCurrent'
  <2> SUFFICES ASSUME NEW f \in Finding
               PROVE  /\ current'[f] # "absent" => row'[f].verdict = current'[f]
                      /\ row'[f].status = "filtered" => row'[f].verdict = "suppressed"
    BY DEF VerdictIsCurrent
  <2>1. CASE f \in done
    BY <1>1, <2>1, CommittedStatus, CommittedRow DEF Seen, Verdicts
  <2>2. CASE f \notin done
    BY <1>1, <2>2 DEF VerdictIsCurrent
  <2> QED
    BY <2>1, <2>2
<1> QED
  BY <1>3, <1>4, <1>5, <1>6, <1>7

\* A request writes one row nobody holds: it stays stored, keeps its verdict
\* and is neither resolved nor filtered unless it was.
LEMMA WriteStep ==
  ASSUME IInv, TypeOK', NEW q \in Request, NEW f \in Finding, WriteStatus(q, f)
  PROVE  IInv'
<1> USE DEF IInv
<1>1. /\ UNCHANGED <<scanVars, current, told>>
      /\ edit' = [edit EXCEPT ![q] = NoEdit]
      /\ row' = [row EXCEPT ![f] = Updated(row[f], edit[q])]
      /\ row \in [Finding -> Row] /\ edit \in [Request -> EditRecord]
  BY DEF WriteStatus, TypeOK
<1>2. /\ row'[f].verdict = row[f].verdict
      /\ row'[f].status \in {row[f].status, "open", "dismissed"}
      /\ row[f].status # "none"
  <2>1. row'[f] = Updated(row[f], edit[q]) /\ row[f] \in Row /\ edit[q] \in EditRecord
    BY <1>1
  <2>2. row[f].status # "none"
    BY DEF WriteStatus, StaysStored
  <2> QED
    BY <2>1, <2>2, UpdatedRow
<1>3. \A g \in Finding : g # f => row'[g] = row[g]
  BY <1>1
<1>4. \A r \in Request : edit'[r] = NoEdit \/ edit'[r] = edit[r]
  BY <1>1
<1>5. ReadOnce'
  BY <1>1 DEF ReadOnce, scanVars
<1>6. StaysStored'
  BY <1>2, <1>3, <1>4, FindingsAssumption DEF StaysStored, NoEdit
<1>7. OwnerOnly'
  BY <1>1, <1>2, <1>3 DEF OwnerOnly, Taken, scanVars
<1>8. SessionReconciled'
  BY <1>1 DEF SessionReconciled, scanVars
<1>9. ToldIsNews'
  BY <1>1, <1>2, <1>3 DEF ToldIsNews, Taken, StillNews, scanVars
<1>10. ResolvedMeansGone'
  BY <1>1, <1>2, <1>3 DEF ResolvedMeansGone
<1>11. VerdictIsCurrent'
  BY <1>1, <1>2, <1>3 DEF VerdictIsCurrent
<1> QED
  BY <1>5, <1>6, <1>7, <1>8, <1>9, <1>10, <1>11

LEMMA InvStep == IInv /\ [Next]_vars => IInv'
<1> SUFFICES ASSUME IInv, [Next]_vars PROVE IInv'
  OBVIOUS
<1> TypeOK /\ TypeOK'
  BY StepTyped DEF IInv
<1> USE FindingsAssumption DEF IInv
<1>1. CASE StartScan
  BY <1>1 DEF StartScan, ReadOnce, StaysStored, OwnerOnly, SessionReconciled, ToldIsNews,
              ResolvedMeansGone, VerdictIsCurrent, Taken
<1>2. ASSUME NEW m \in Manifest, SkipUnreadable(m) PROVE IInv'
  BY <1>2 DEF SkipUnreadable, Turn, ReadOnce, StaysStored, OwnerOnly, SessionReconciled,
              ToldIsNews, ResolvedMeansGone, VerdictIsCurrent, Taken
<1>3. ASSUME NEW m \in Manifest, Load(m) PROVE IInv'
  <2>1. /\ m \in todo /\ todo' = todo \ {m} /\ reading' = {m} /\ phase' = "loaded"
        /\ phase = "scanning"
        /\ UNCHANGED <<row, work, done, news, mailed, current, told, edit>>
    BY <1>3 DEF Load, Turn
  <2>2. \A f \in Finding : FileOf[f] = m => loaded'[f] = row[f] /\ f \notin done
    BY <1>3, <2>1 DEF Load, ReadOnce
  <2>3. \A f \in Finding : FileOf[f] # m => loaded'[f] = loaded[f] /\ saw'[f] = saw[f]
    BY <1>3 DEF Load
  <2>4. ReadOnce' /\ StaysStored'
    BY <2>1 DEF ReadOnce, StaysStored
  <2>5. OwnerOnly'
    BY <2>1, <2>2, <2>3 DEF OwnerOnly, Taken, VerdictIsCurrent
  <2>6. SessionReconciled'
    BY <2>1, <2>2, <2>3 DEF SessionReconciled, TypeOK
  <2>7. ToldIsNews'
    BY <2>1, <2>2, <2>3 DEF ToldIsNews, Taken, StaysStored, StillNews
  <2>8. ResolvedMeansGone' /\ VerdictIsCurrent'
    BY <2>1 DEF ResolvedMeansGone, VerdictIsCurrent
  <2> QED
    BY <2>4, <2>5, <2>6, <2>7, <2>8
<1>4. ASSUME NEW m \in Manifest, Reconcile(m) PROVE IInv'
  <2>1. /\ phase = "loaded" /\ m \in reading /\ phase' = "scanning" /\ reading' = {}
        /\ UNCHANGED <<row, todo, saw, loaded, mailed, current, told, edit>>
        /\ \A f \in Finding : f \in done' <=> f \in done \/ FileOf[f] = m
        /\ \A f \in Finding : f \in news' <=>
             f \in news \/ (FileOf[f] = m /\ WorthTelling(loaded[f], saw[f]))
        /\ \A f \in Finding :
             work'[f] = IF FileOf[f] = m THEN Reconciled(loaded[f], saw[f]) ELSE work[f]
    <3>1. \A f \in Finding : f \in FindingsIn(m) <=> FileOf[f] = m
      BY DEF FindingsIn
    <3>2. \A f \in Finding : f \in done' <=> f \in done \/ FileOf[f] = m
      BY <1>4, <3>1 DEF Reconcile
    <3>3. \A f \in Finding : f \in news' <=>
            f \in news \/ (FileOf[f] = m /\ WorthTelling(loaded[f], saw[f]))
      BY <1>4, <3>1 DEF Reconcile
    <3> QED
      BY <1>4, <3>2, <3>3 DEF Reconcile
  <2>2. ReadOnce' /\ StaysStored'
    <3>1. done' \subseteq Finding
      BY DEF TypeOK
    <3>2. ReadOnce'
      BY <2>1, <3>1 DEF ReadOnce
    <3> QED
      BY <2>1, <3>2 DEF StaysStored
  <2>3. OwnerOnly'
    BY <2>1 DEF OwnerOnly, Taken
  <2>4. SessionReconciled'
    BY <2>1 DEF SessionReconciled, TypeOK
  <2>5. ToldIsNews'
    BY <2>1 DEF ToldIsNews, Taken
  <2>6. ResolvedMeansGone' /\ VerdictIsCurrent'
    BY <2>1 DEF ResolvedMeansGone, VerdictIsCurrent
  <2> QED
    BY <2>2, <2>3, <2>4, <2>5, <2>6
<1>5. CASE FinishDelivered
  BY <1>5, FinishStep, MarkNotifiedTyped DEF FinishDelivered, Finishing, Sendable, TypeOK
<1>6. CASE FinishUndelivered
  BY <1>6, FinishStep DEF FinishUndelivered, Finishing
<1>7. CASE FinishOptedOut
  BY <1>7, FinishStep, MarkNotifiedTyped DEF FinishOptedOut, Finishing, Sendable, TypeOK
<1>8. CASE FinishWatched
  BY <1>8, FinishStep, MarkNotifiedTyped DEF FinishWatched, Finishing, TypeOK
<1>9. CASE FinishManual
  BY <1>9, FinishStep DEF FinishManual, Finishing
<1>10. CASE Commit
  BY <1>10, CommitStep
<1>11. CASE Abort
  <2>1. /\ phase' = "idle" /\ done' = {} /\ reading' = {} /\ todo' = {} /\ news' = {}
        /\ UNCHANGED <<row, current, edit>>
        /\ \A f \in Finding : told'[f] => told[f] /\ f \notin news
    BY <1>11 DEF Abort, NoScan
  <2> QED
    BY <2>1 DEF ReadOnce, StaysStored, OwnerOnly, SessionReconciled, ToldIsNews,
                ResolvedMeansGone, VerdictIsCurrent, Taken
<1>12. ASSUME NEW q \in Request, NEW f \in Finding, NEW to \in {"open", "dismissed"},
              ReadStatus(q, f, to)
       PROVE  IInv'
  <2>1. /\ row[f].status # "none"
        /\ UNCHANGED <<row, scanVars, current, told>>
        /\ \A r \in Request : edit'[r].finding \in {edit[r].finding, f}
    BY <1>12 DEF ReadStatus, TypeOK
  <2>2. \A r \in Request, g \in Finding : edit'[r].finding = g => row[g].status # "none"
    BY <2>1 DEF StaysStored
  <2> QED
    BY <2>1, <2>2 DEF scanVars, ReadOnce, StaysStored, OwnerOnly, SessionReconciled,
                      ToldIsNews, ResolvedMeansGone, VerdictIsCurrent, Taken
<1>13. ASSUME NEW q \in Request, NEW f \in Finding, WriteStatus(q, f)
       PROVE  IInv'
  BY <1>13, WriteStep
<1>14. CASE UNCHANGED vars
  BY <1>14 DEF vars, scanVars, ReadOnce, StaysStored, OwnerOnly, SessionReconciled,
               ToldIsNews, ResolvedMeansGone, VerdictIsCurrent, Taken
<1> QED
  BY <1>1, <1>2, <1>3, <1>4, <1>5, <1>6, <1>7, <1>8, <1>9, <1>10, <1>11, <1>12, <1>13,
     <1>14 DEF Next, Scan, Owner

LEMMA Invariance == Spec => []IInv
  BY InitInv, InvStep, PTL DEF Spec

\* Whatever requests run during a check, no finding is marked fixed while the
\* last check of its file still matched it.
THEOREM NeverFalselyFixed == Spec => []ResolvedMeansGone
<1>1. IInv => ResolvedMeansGone
  BY DEF IInv
<1> QED
  BY <1>1, Invariance, PTL

\* The stored verdicts are those of the last check, and no actionable finding
\* is filed as filtered.
THEOREM VerdictsAreCurrent == Spec => []VerdictIsCurrent
<1>1. IInv => VerdictIsCurrent
  BY DEF IInv
<1> QED
  BY <1>1, Invariance, PTL

-----------------------------------------------------------------------------
(***************************************************************************)
(* What a step never does.                                                 *)
(***************************************************************************)

\* Only a commit and a request write rows, and a request is seen to end.
LEMMA RowWriters ==
  ASSUME IInv, [Next]_vars, NEW f \in Finding, row'[f] # row[f]
  PROVE  Commit \/ edit' # edit
<1>1. CASE StartScan \/ \E m \in Manifest : SkipUnreadable(m) \/ Load(m) \/ Reconcile(m)
  BY <1>1 DEF StartScan, SkipUnreadable, Load, Reconcile
<1>2. CASE FinishDelivered \/ FinishUndelivered \/ FinishOptedOut \/ FinishWatched \/ FinishManual
  BY <1>2 DEF FinishDelivered, FinishUndelivered, FinishOptedOut, FinishWatched,
              FinishManual, Finishing
<1>3. CASE Abort
  BY <1>3 DEF Abort
<1>4. ASSUME NEW q \in Request, NEW g \in Finding, NEW to \in {"open", "dismissed"},
             ReadStatus(q, g, to)
      PROVE  row' = row
  BY <1>4 DEF ReadStatus
<1>5. ASSUME NEW q \in Request, NEW g \in Finding, WriteStatus(q, g)
      PROVE  edit' # edit
  <2>1. edit \in [Request -> EditRecord] /\ edit'[q].finding = "none" /\ edit[q].finding = g
    BY <1>5 DEF WriteStatus, NoEdit, IInv, TypeOK
  <2> QED
    BY <2>1, FindingsAssumption
<1> QED
  BY <1>1, <1>2, <1>3, <1>4, <1>5 DEF Next, Scan, Owner, vars

\* A dismissal the scan has read is not undone by it.
THEOREM DismissalsAreRespected == Spec => DismissalRespected
<1> DEFINE Respected ==
      \A f \in done :
        row[f].status = "dismissed" /\ loaded[f].status = "dismissed" /\ saw[f] # "absent"
          => row'[f].status = "dismissed" \/ edit' # edit
<1>1. IInv /\ [Next]_vars => Respected
  <2> SUFFICES ASSUME IInv, [Next]_vars, NEW f \in done,
                      row[f].status = "dismissed", loaded[f].status = "dismissed",
                      saw[f] # "absent", edit' = edit
               PROVE  row'[f].status = "dismissed"
    OBVIOUS
  <2>1. f \in Finding /\ loaded[f] \in Row /\ saw[f] \in Seen
    BY DEF IInv, TypeOK
  <2>2. CASE Commit
    <3>1. work[f].status = Reconciled(loaded[f], saw[f]).status
      BY <2>1 DEF IInv, SessionReconciled
    <3>2. work[f].status = "dismissed"
      BY <2>1, <3>1, ReconciledRow DEF Seen, Verdicts
    <3> QED
      BY <2>2, <3>2, CommittedRow
  <2> QED
    BY <2>1, <2>2, RowWriters
<1>2. IInv /\ [Next]_vars => [Respected]_vars
  BY <1>1
<1> QED
  BY <1>2, Invariance, PTL DEF Spec, DismissalRespected

\* A scan opens nothing that its caller does not hear of.
THEOREM OpeningIsNews == Spec => OpenedIsNews
<1> DEFINE News ==
      \A f \in done :
        row'[f].status = "open" /\ row[f].status # "open" /\ edit' = edit => f \in news
<1>1. IInv /\ [Next]_vars => News
  <2> SUFFICES ASSUME IInv, [Next]_vars, NEW f \in done, row'[f].status = "open",
                      row[f].status # "open", edit' = edit
               PROVE  f \in news
    OBVIOUS
  <2>1. f \in Finding /\ loaded[f] \in Row /\ saw[f] \in Seen
    BY DEF IInv, TypeOK
  <2>2. Commit
    BY <2>1, RowWriters
  <2>3. work[f].status = "open" /\ loaded[f].status # "open"
    BY <2>2, CommittedRow
  <2>4. work[f].status = Reconciled(loaded[f], saw[f]).status
    BY <2>1 DEF IInv, SessionReconciled
  <2>5. saw[f] = "actionable" /\ loaded[f].status \in {"none", "resolved", "filtered"}
    BY <2>1, <2>3, <2>4, ReconciledRow DEF Seen, Verdicts
  <2>6. loaded[f].status = "filtered" => loaded[f].verdict = "suppressed"
    BY <2>1 DEF IInv, OwnerOnly, Taken
  <2>7. WorthTelling(loaded[f], saw[f])
    BY <2>1, <2>5, <2>6 DEF WorthTelling, IsNews, Raised, Row
  <2> QED
    BY <2>1, <2>7 DEF IInv, SessionReconciled
<1>2. IInv /\ [Next]_vars => [News]_vars
  BY <1>1
<1> QED
  BY <1>2, Invariance, PTL DEF Spec, OpenedIsNews

\* No digest repeats a finding its owner has heard of since it became news.
THEOREM DigestsDoNotRepeat == Spec => NotifiesOnce
<1> DEFINE Once == \A f \in Finding : f \in mailed' \ mailed => ~told[f]
<1>1. IInv /\ [Next]_vars => Once
  <2> SUFFICES ASSUME IInv, [Next]_vars, NEW f \in Finding, f \in mailed', f \notin mailed
               PROVE  ~told[f]
    OBVIOUS
  <2>1. FinishDelivered
    <3>1. CASE StartScan \/ \E m \in Manifest : SkipUnreadable(m) \/ Load(m) \/ Reconcile(m)
      BY <3>1 DEF StartScan, SkipUnreadable, Load, Reconcile
    <3>2. CASE FinishUndelivered \/ FinishOptedOut \/ FinishWatched \/ FinishManual
      BY <3>2 DEF FinishUndelivered, FinishOptedOut, FinishWatched, FinishManual
    <3>3. CASE Commit \/ Abort
      BY <3>3 DEF Commit, Abort, NoScan
    <3>4. CASE Owner
      BY <3>4 DEF Owner, ReadStatus, WriteStatus, scanVars
    <3> QED
      BY <3>1, <3>2, <3>3, <3>4 DEF Next, Scan, vars, scanVars
  <2>2. f \in news /\ phase # "closing"
    BY <2>1 DEF FinishDelivered, Finishing, Sendable
  <2>3. f \in done /\ WorthTelling(loaded[f], saw[f])
    BY <2>2 DEF IInv, SessionReconciled
  <2>4. loaded[f] \in Row /\ saw[f] \in Seen
    BY DEF IInv, TypeOK
  <2>5. told[f] => StillNews(loaded[f]) /\ loaded[f].status # "none"
    BY <2>2, <2>3 DEF IInv, ToldIsNews, Taken
  <2> QED
    BY <2>3, <2>4, <2>5, ToldIsNotNews
<1>2. IInv /\ [Next]_vars => [Once]_vars
  BY <1>1
<1> QED
  BY <1>2, Invariance, PTL DEF Spec, NotifiesOnce

-----------------------------------------------------------------------------
(***************************************************************************)
(* The refinement of FindingLife.                                          *)
(***************************************************************************)

\* A commit is one atomic check of the findings the scan has reconciled.
LEMMA CommitIsCheck == IInv /\ Commit => Life!Check
<1> SUFFICES ASSUME IInv, Commit PROVE Life!Check
  OBVIOUS
<1>1. done \in SUBSET Finding /\ saw \in [Finding -> Seen] /\ row \in [Finding -> Row]
  BY DEF IInv, TypeOK
<1> DEFINE S == [f \in Finding |-> row[f].status]
           V == [f \in Finding |-> row[f].verdict]
           Covered(f) == /\ S'[f] \in Life!After(S[f], saw[f])
                         /\ V'[f] = IF saw[f] = "absent" THEN V[f] ELSE saw[f]
<1>2. ASSUME NEW f \in Finding
      PROVE  IF f \in done THEN Covered(f) ELSE S'[f] = S[f] /\ V'[f] = V[f]
  <2>1. S'[f] = row'[f].status /\ V'[f] = row'[f].verdict
    OBVIOUS
  <2>2. CASE f \in done
    <3>1. V'[f] = IF saw[f] = "absent" THEN V[f] ELSE saw[f]
      BY <2>1, <2>2, CommittedRow
    <3>2. row'[f].status \in Life!After(row[f].status, saw[f])
      <4>1. CASE saw[f] = "actionable"
        BY <2>2, <4>1, CommittedStatus DEF Life!After
      <4>2. CASE saw[f] = "suppressed"
        BY <2>2, <4>2, CommittedStatus DEF Life!After, Life!Decided
      <4>3. CASE saw[f] = "absent"
        BY <2>2, <4>3, CommittedStatus DEF Life!After, Life!Decided
      <4> QED
        BY <1>1, <4>1, <4>2, <4>3 DEF Seen, Verdicts
    <3> QED
      BY <2>1, <2>2, <3>1, <3>2
  <2>3. CASE f \notin done
    <3>1. row'[f] = row[f]
      BY <2>3 DEF Commit
    <3> QED
      BY <2>1, <2>3, <3>1
  <2> QED
    BY <2>2, <2>3
<1>3. DOMAIN S' = Finding /\ DOMAIN V' = Finding
  OBVIOUS
<1>4. \A f \in Finding : saw[f] \in {"actionable", "suppressed", "absent"}
  BY <1>1 DEF Seen, Verdicts
<1> HIDE DEF S, V
<1> QED
  BY <1>2, <1>3, <1>4 DEF Life!Check, Life!Checked, Life!Unchecked, S, V

\* A request decides one stored finding, or finds it decided.
LEMMA WriteIsDecision ==
  ASSUME IInv, NEW q \in Request, NEW f \in Finding, WriteStatus(q, f)
  PROVE  [Life!LifeNext]_(Life!lifeVars)
<1> DEFINE S == [g \in Finding |-> row[g].status]
           V == [g \in Finding |-> row[g].verdict]
<1>1. /\ row \in [Finding -> Row] /\ row[f] \in Row /\ edit[q] \in EditRecord
      /\ row' = [row EXCEPT ![f] = Updated(row[f], edit[q])]
  BY DEF WriteStatus, IInv, TypeOK
<1>2. /\ row'[f].verdict = row[f].verdict
      /\ row'[f].status \in {row[f].status, "open", "dismissed"}
  <2>1. row'[f] = Updated(row[f], edit[q])
    BY <1>1
  <2> QED
    BY <1>1, <2>1, UpdatedRow
<1>3. V' = V
  BY <1>1, <1>2
<1>4. S' = [S EXCEPT ![f] = row'[f].status]
  BY <1>1
<1>5. S[f] # "none"
  BY DEF WriteStatus, IInv, StaysStored
<1>6. CASE row'[f].status = row[f].status
  <2>1. S' = S
    BY <1>4, <1>6
  <2> QED
    BY <1>3, <2>1 DEF Life!lifeVars
<1>7. CASE row'[f].status \in {"open", "dismissed"}
  <2>1. S' = [S EXCEPT ![f] = row'[f].status] /\ row'[f].status \in Life!Decided
    BY <1>4, <1>7 DEF Life!Decided
  <2> QED
    BY <1>3, <1>5, <2>1 DEF Life!LifeNext, Life!Decide
<1> QED
  BY <1>2, <1>6, <1>7

\* The scan transaction, interleaved with any number of requests and aborts,
\* implements the life of a finding in which a check is one step.
THEOREM ScanLooksAtomic == Spec => LooksAtomic
<1>1. Init => Life!LifeInit
  BY DEF Init, Life!LifeInit, NoRow
<1>2. IInv /\ [Next]_vars => [Life!LifeNext]_(Life!lifeVars)
  <2> SUFFICES ASSUME IInv, [Next]_vars PROVE [Life!LifeNext]_(Life!lifeVars)
    OBVIOUS
  <2>1. CASE Commit
    BY <2>1, CommitIsCheck DEF Life!LifeNext
  <2>2. ASSUME NEW q \in Request, NEW f \in Finding, WriteStatus(q, f)
        PROVE  [Life!LifeNext]_(Life!lifeVars)
    BY <2>2, WriteIsDecision
  <2>3. CASE row' = row
    BY <2>3 DEF Life!lifeVars
  <2>4. CASE StartScan \/ \E m \in Manifest : SkipUnreadable(m) \/ Load(m) \/ Reconcile(m)
    BY <2>3, <2>4 DEF StartScan, SkipUnreadable, Load, Reconcile
  <2>5. CASE FinishDelivered \/ FinishUndelivered \/ FinishOptedOut \/ FinishWatched \/ FinishManual
    BY <2>3, <2>5 DEF FinishDelivered, FinishUndelivered, FinishOptedOut, FinishWatched,
                      FinishManual, Finishing
  <2>6. ASSUME NEW q \in Request, NEW f \in Finding, NEW to \in {"open", "dismissed"},
               ReadStatus(q, f, to)
        PROVE  row' = row
    BY <2>6 DEF ReadStatus
  <2>7. CASE Abort \/ UNCHANGED vars
    BY <2>3, <2>7 DEF Abort, vars
  <2> QED
    BY <2>1, <2>2, <2>3, <2>4, <2>5, <2>6, <2>7 DEF Next, Scan, Owner
<1> QED
  BY <1>1, <1>2, Invariance, PTL DEF Spec, LooksAtomic, Life!LifeSpec

-----------------------------------------------------------------------------
(***************************************************************************)
(* The dates of the archive, while no two requests are about one finding.  *)
(***************************************************************************)

\* The owner's requests about a finding come one after the other.
NoOverlap ==
  \A p, q \in Request, f \in Finding :
    edit[p].finding = f /\ edit[q].finding = f => p = q

\* The columns of the dates: a scan is the only one to write resolved_at, and
\* does not touch dismissed_at; a request that found the finding open and is
\* going to leave it so has been overtaken by no dismissal.
DatesInv ==
  /\ ArchiveIsDated
  /\ \A f \in Finding : Taken(f) => loaded[f].resolvedAt = row[f].resolvedAt
  /\ \A f \in done : /\ work[f].resolvedAt = Reconciled(loaded[f], saw[f]).resolvedAt
                     /\ work[f].dismissedAt = loaded[f].dismissedAt
  /\ \A q \in Request, f \in Finding :
       edit[q].finding = f /\ edit[q].to = "open" /\ ~edit[q].moves
         => row[f].status # "dismissed"

\* What the reconciliation does to the two dates.
LEMMA ReconciledDates ==
  ASSUME NEW old \in Row, NEW v \in Seen
  PROVE  /\ Reconciled(old, v).dismissedAt = old.dismissedAt
         /\ Reconciled(old, v).status = "resolved" =>
              \/ Reconciled(old, v).resolvedAt
              \/ old.status = "resolved" /\ Reconciled(old, v) = old
<1>1. CASE v = "absent"
  BY <1>1 DEF Reconciled, Unseen, Row
<1>2. CASE v = "suppressed"
  BY <1>2 DEF Reconciled, Suppressed, Row
<1>3. CASE v = "actionable"
  BY <1>3 DEF Reconciled, Raised, Row
<1> QED
  BY <1>1, <1>2, <1>3 DEF Seen, Verdicts

\* A scan that ends leaves no row it has taken.
LEMMA DatesLeftAlone ==
  ASSUME DatesInv, row' = row, edit' = edit, done' = {}, reading' = {}
  PROVE  DatesInv'
  BY DEF DatesInv, ArchiveIsDated, Taken

LEMMA DatesCommitted == IInv /\ DatesInv /\ TypeOK' /\ Commit => DatesInv'
<1> SUFFICES ASSUME IInv, DatesInv, TypeOK', Commit PROVE DatesInv'
  OBVIOUS
<1> USE DEF IInv
<1>1. /\ done' = {} /\ reading' = {} /\ edit' = edit /\ done \subseteq Finding
      /\ \A f \in Finding \ done : row'[f] = row[f]
      /\ \A f \in done : row'[f] = Merge(row[f], loaded[f], work[f])
  BY DEF Commit, NoScan, TypeOK
<1>2. ASSUME NEW f \in done
      PROVE  /\ row'[f].status = "resolved" => row'[f].resolvedAt
             /\ row'[f].status = "dismissed" => row[f].status = "dismissed"
             /\ row'[f].dismissedAt = row[f].dismissedAt
  <2>1. /\ f \in Finding /\ row[f] \in Row /\ loaded[f] \in Row /\ work[f] \in Row
        /\ saw[f] \in Seen /\ Taken(f)
    BY <1>1 DEF TypeOK, Taken
  <2>2. /\ work[f].resolvedAt = Reconciled(loaded[f], saw[f]).resolvedAt
        /\ work[f].dismissedAt = loaded[f].dismissedAt
        /\ work[f].status = Reconciled(loaded[f], saw[f]).status
        /\ loaded[f].resolvedAt = row[f].resolvedAt
    BY <2>1 DEF DatesInv, SessionReconciled
  <2>3. /\ row'[f].dismissedAt = row[f].dismissedAt
        /\ row'[f].resolvedAt = work[f].resolvedAt
    <3>1. row'[f] = Merge(row[f], loaded[f], work[f])
      BY <1>1
    <3> QED
      BY <2>2, <3>1 DEF Merge, Column
  <2>4. row'[f].status = "dismissed" => row[f].status = "dismissed"
    BY <2>1, CommittedStatus DEF Seen, Verdicts
  <2>5. ASSUME row'[f].status = "resolved" PROVE work[f].resolvedAt
    <3>1. saw[f] = "absent" /\ (loaded[f].status = "none" <=> row[f].status = "none")
      BY <2>1, <2>5, CommittedStatus DEF Seen, Verdicts, OwnerOnly
    <3>2. row[f].status # "none"
      BY <2>1, <2>5, <3>1, CommittedStatus
    <3>3. Reconciled(loaded[f], saw[f]).status = "resolved"
      BY <2>1, <3>1, <3>2, ReconciledRow
    <3>4. CASE Reconciled(loaded[f], saw[f]).resolvedAt
      BY <2>2, <3>4
    <3>5. CASE loaded[f].status = "resolved" /\ Reconciled(loaded[f], saw[f]) = loaded[f]
      <4>1. work[f].status = loaded[f].status /\ row'[f].status = row[f].status
        BY <2>2, <3>5, CommittedRow
      <4>2. row[f].resolvedAt
        BY <2>1, <2>5, <4>1 DEF DatesInv, ArchiveIsDated
      <4> QED
        BY <2>2, <3>5, <4>2
    <3> QED
      BY <2>1, <3>3, <3>4, <3>5, ReconciledDates
  <2> QED
    BY <2>3, <2>4, <2>5
<1>3. ArchiveIsDated'
  BY <1>1, <1>2 DEF DatesInv, ArchiveIsDated
<1>4. \A f \in Finding : row'[f].status = "dismissed" => row[f].status = "dismissed"
  BY <1>1, <1>2
<1> QED
  BY <1>1, <1>3, <1>4 DEF DatesInv, Taken

\* A request sets dismissed_at with the status, if it has not been overtaken.
LEMMA DatesWritten ==
  ASSUME IInv, DatesInv, NoOverlap, NEW q \in Request, NEW f \in Finding, WriteStatus(q, f)
  PROVE  DatesInv'
<1> USE DEF IInv
<1>1. /\ UNCHANGED scanVars
      /\ edit' = [edit EXCEPT ![q] = NoEdit]
      /\ row' = [row EXCEPT ![f] = Updated(row[f], edit[q])]
      /\ row \in [Finding -> Row] /\ edit \in [Request -> EditRecord]
      /\ edit[q].finding = f
  BY DEF WriteStatus, TypeOK
<1>2. /\ row'[f].resolvedAt = row[f].resolvedAt
      /\ row'[f].status = "resolved" => row[f].status = "resolved"
      /\ row'[f].status = "dismissed" => row'[f].dismissedAt
  <2>1. row'[f] = Updated(row[f], edit[q]) /\ row[f] \in Row /\ edit[q] \in EditRecord
    BY <1>1
  <2>2. edit[q].to = "open" /\ ~edit[q].moves => row[f].status # "dismissed"
    BY <1>1 DEF DatesInv
  <2> QED
    BY <2>1, <2>2 DEF Updated, Row, EditRecord
<1>3. \A g \in Finding : g # f => row'[g] = row[g]
  BY <1>1
<1>4. ArchiveIsDated'
  BY <1>2, <1>3 DEF DatesInv, ArchiveIsDated
<1>5. ASSUME NEW p \in Request, NEW g \in Finding, edit'[p].finding = g
      PROVE  g # f /\ edit'[p] = edit[p]
  <2>1. p # q
    BY <1>1, <1>5, FindingsAssumption DEF NoEdit
  <2> QED
    BY <1>1, <1>5, <2>1 DEF NoOverlap
<1>6. \A p \in Request, g \in Finding :
        edit'[p].finding = g /\ edit'[p].to = "open" /\ ~edit'[p].moves
          => row'[g].status # "dismissed"
  BY <1>3, <1>5 DEF DatesInv
<1> QED
  BY <1>1, <1>2, <1>3, <1>4, <1>6 DEF DatesInv, Taken, scanVars

LEMMA DatesStep == IInv /\ IInv' /\ DatesInv /\ NoOverlap /\ [Next]_vars => DatesInv'
<1> SUFFICES ASSUME IInv, IInv', DatesInv, NoOverlap, [Next]_vars PROVE DatesInv'
  OBVIOUS
<1>1. ASSUME row' = row, edit' = edit, loaded' = loaded, work' = work, saw' = saw,
             done' = done, reading' = reading
      PROVE  DatesInv'
  BY <1>1 DEF DatesInv, ArchiveIsDated, Taken
<1>2. CASE StartScan \/ FinishUndelivered \/ FinishManual \/ UNCHANGED vars
  BY <1>1, <1>2 DEF StartScan, FinishUndelivered, FinishManual, Finishing, vars, scanVars
<1>3. ASSUME NEW m \in Manifest, SkipUnreadable(m) PROVE DatesInv'
  BY <1>1, <1>3 DEF SkipUnreadable
<1>4. ASSUME NEW m \in Manifest, Load(m) PROVE DatesInv'
  <2>1. /\ row' = row /\ edit' = edit /\ work' = work /\ done' = done /\ reading' = {m}
        /\ \A f \in Finding : loaded'[f] = IF FileOf[f] = m THEN row[f] ELSE loaded[f]
        /\ \A f \in Finding : FileOf[f] # m => saw'[f] = saw[f]
        /\ m \in todo
    BY <1>4 DEF Load, Turn, IInv, TypeOK
  <2>2. \A f \in done : f \in Finding /\ FileOf[f] # m
    BY <2>1 DEF IInv, ReadOnce, TypeOK
  <2>3. ASSUME NEW f \in Finding, Taken(f)' PROVE loaded'[f].resolvedAt = row'[f].resolvedAt
    BY <2>1, <2>2, <2>3 DEF DatesInv, Taken
  <2>4. \A f \in done' : /\ work'[f].resolvedAt = Reconciled(loaded'[f], saw'[f]).resolvedAt
                         /\ work'[f].dismissedAt = loaded'[f].dismissedAt
    BY <2>1, <2>2 DEF DatesInv
  <2> QED
    BY <2>1, <2>3, <2>4 DEF DatesInv, ArchiveIsDated
<1>5. ASSUME NEW m \in Manifest, Reconcile(m) PROVE DatesInv'
  <2>1. /\ row' = row /\ edit' = edit /\ loaded' = loaded /\ saw' = saw /\ reading' = {}
        /\ done' = done \cup FindingsIn(m) /\ m \in reading
        /\ done \subseteq Finding
        /\ \A f \in Finding : work'[f] =
             IF FileOf[f] = m THEN Reconciled(loaded[f], saw[f]) ELSE work[f]
    BY <1>5 DEF Reconcile, IInv, TypeOK
  <2>2. \A f \in Finding : loaded[f] \in Row /\ saw[f] \in Seen
    BY DEF IInv, TypeOK
  <2>3. \A f \in done' : /\ work'[f].resolvedAt = Reconciled(loaded[f], saw[f]).resolvedAt
                         /\ work'[f].dismissedAt = loaded[f].dismissedAt
    BY <2>1, <2>2, ReconciledDates DEF DatesInv, FindingsIn
  <2> QED
    BY <2>1, <2>3 DEF DatesInv, ArchiveIsDated, Taken, FindingsIn
<1>6. ASSUME NEW F, MarkNotified(F),
             row' = row, edit' = edit, loaded' = loaded, saw' = saw, done' = done, reading' = reading
      PROVE  DatesInv'
  <2>1. \A f \in Finding : /\ work'[f].resolvedAt = work[f].resolvedAt
                           /\ work'[f].dismissedAt = work[f].dismissedAt
    BY <1>6 DEF MarkNotified, IInv, TypeOK, Row
  <2>2. done \subseteq Finding
    BY DEF IInv, TypeOK
  <2> QED
    BY <1>6, <2>1, <2>2 DEF DatesInv, ArchiveIsDated, Taken
<1>7. CASE FinishDelivered
  BY <1>6, <1>7 DEF FinishDelivered, Finishing
<1>8. CASE FinishOptedOut
  BY <1>6, <1>8 DEF FinishOptedOut, Finishing
<1>9. CASE FinishWatched
  BY <1>6, <1>9 DEF FinishWatched, Finishing
<1>10. CASE Commit
  BY <1>10, DatesCommitted DEF IInv
<1>11. CASE Abort
  BY <1>11, DatesLeftAlone DEF Abort, NoScan
<1>12. ASSUME NEW q \in Request, NEW f \in Finding, NEW to \in {"open", "dismissed"},
              ReadStatus(q, f, to)
       PROVE  DatesInv'
  <2>1. UNCHANGED <<row, scanVars>>
    BY <1>12 DEF ReadStatus
  <2>2. \A p \in Request, g \in Finding :
          edit'[p].finding = g /\ edit'[p].to = "open" /\ ~edit'[p].moves
            => row[g].status # "dismissed"
    BY <1>12 DEF ReadStatus, DatesInv, IInv, TypeOK
  <2> QED
    BY <2>1, <2>2 DEF DatesInv, ArchiveIsDated, Taken, scanVars
<1>13. ASSUME NEW q \in Request, NEW f \in Finding, WriteStatus(q, f) PROVE DatesInv'
  BY <1>13, DatesWritten
<1> QED
  BY <1>2, <1>3, <1>4, <1>5, <1>7, <1>8, <1>9, <1>10, <1>11, <1>12, <1>13
     DEF Next, Scan, Owner

\* As long as the owner's requests about one finding come one after the other,
\* an archived row has its date, whatever scans run next to them.
THEOREM ArchiveStaysDated == Spec /\ []NoOverlap => []ArchiveIsDated
<1>1. Init => DatesInv
  BY FindingsAssumption DEF Init, DatesInv, ArchiveIsDated, Taken, NoRow, NoEdit
<1>2. DatesInv => ArchiveIsDated
  BY DEF DatesInv
<1> QED
  BY <1>1, <1>2, Invariance, DatesStep, PTL DEF Spec

\* One browser: the bound of the run.
THEOREM OneBrowserIsDated ==
  ASSUME \A p, q \in Request : p = q
  PROVE  Spec => []ArchiveIsDated
<1>1. NoOverlap
  BY DEF NoOverlap
<1> QED
  BY <1>1, ArchiveStaysDated, PTL
=============================================================================
