------------------------------ MODULE Findings ------------------------------
(***************************************************************************)
(* The stored findings of one project: how a scan reconciles what it sees  *)
(* with the rows of cve_matches, who is told about it, and how the owner's *)
(* own decisions (dismiss, reopen) interleave with a scan.                 *)
(*                                                                         *)
(* A scan is one database transaction.  It reads the rows of a manifest    *)
(* (Load), computes the new state of each and flushes only the columns     *)
(* whose value differs from what it read (Reconcile), sends the digest     *)
(* before it commits (Finish...), and commits.  From the flush to the      *)
(* commit the rows it wrote are locked; between the load and the flush     *)
(* they are not, and the owner's request runs in a transaction of its own. *)
(* Scans of one project exclude each other here: every scan updates        *)
(* project_manifests.last_parsed_at before it reads a finding and holds    *)
(* that row lock to the end.  Timestamps are kept as "set or not".         *)
(***************************************************************************)
EXTENDS Naturals, FiniteSets

CONSTANTS
  Finding,    \* identities (package, version, advisory), each in one manifest
  Manifest,   \* the ids of the project's active manifests
  FileOf,     \* the manifest a finding is found in
  Request,    \* the owner's browser requests that may be in flight at once
  Triggers    \* who starts scans: "scheduled", "watched" and/or "manual"

ASSUME FindingsAssumption ==
  /\ Manifest \subseteq Nat
  /\ FileOf \in [Finding -> Manifest]
  /\ Triggers \subseteq {"scheduled", "watched", "manual"}
  /\ "none" \notin Finding

Verdicts == {"actionable", "suppressed"}

\* What triage concludes about an identity; "absent" when the manifest no
\* longer contains it or no advisory matches it.
Seen == Verdicts \cup {"absent"}

Statuses == {"none", "open", "filtered", "dismissed", "resolved"}

\* A row of cve_matches; status "none" stands for a row that is not stored.
Row == [verdict : Verdicts, status : Statuses, notified : BOOLEAN,
        dismissedAt : BOOLEAN, resolvedAt : BOOLEAN]

NoRow == [verdict |-> "suppressed", status |-> "none", notified |-> FALSE,
          dismissedAt |-> FALSE, resolvedAt |-> FALSE]

VARIABLES
  row,      \* the committed rows
  phase,    \* where the running scan is: idle, scanning, loaded, closing
  todo,     \* the manifests the scan has still to process
  reading,  \* the manifests whose rows are loaded but not yet flushed
  saw,      \* what the scan concluded about each finding
  loaded,   \* the rows as the scan read them
  work,     \* the rows as the scan's session holds them now
  done,     \* the findings whose manifest has been reconciled and flushed
  news,     \* new_matches: the findings worth a notification
  mailed,   \* the findings this scan has sent a digest about
  current,  \* history: what the last committed check concluded
  told,     \* history: the owner has heard of it since it last became news
  edit      \* the owner's requests: the columns each one is going to write

scanVars == <<phase, todo, reading, saw, loaded, work, done, news, mailed>>
vars == <<row, scanVars, current, told, edit>>

\* What a request will write: a column that already has its new value when it
\* is read is left out of the UPDATE (moves: the status, undates: dismissed_at).
EditRecord == [finding : Finding \cup {"none"}, to : {"open", "dismissed"},
               moves : BOOLEAN, undates : BOOLEAN]

NoEdit == [finding |-> "none", to |-> "open", moves |-> FALSE, undates |-> FALSE]

FindingsIn(m) == {f \in Finding : FileOf[f] = m}

(***************************************************************************)
(* The reconciliation of one identity.                                     *)
(***************************************************************************)

\* Variants with a plausible defect, used to show that the properties notice.
IsNewsAlways(old) == TRUE

IsNewsOncePromoted(old) == old.status = "none" \/ old.verdict = "suppressed"

\* Besides a finding never stored, two rows are news: a suppressed finding
\* promoted to actionable and a resolved one that has come back.
IsNews(old) == old.status \in {"none", "resolved"} \/ old.verdict = "suppressed"

\* (More variants, of the operators below.)
UnseenDeleted(old) == NoRow

UnseenUndated(old) ==
  IF old.status \in {"none", "resolved"} THEN old ELSE [old EXCEPT !.status = "resolved"]

RaisedOnlyFiltered(old) ==
  IF old.status \in {"none", "filtered"}
  THEN [old EXCEPT !.verdict = "actionable", !.status = "open",
                   !.resolvedAt = FALSE, !.notified = FALSE]
  ELSE [old EXCEPT !.verdict = "actionable"]

RaisedDismissed(old) ==
  [old EXCEPT !.verdict = "actionable", !.status = "open",
              !.resolvedAt = FALSE, !.notified = FALSE]

SuppressedUnrated(old) ==
  [old EXCEPT !.status = IF @ = "dismissed" THEN @ ELSE "filtered",
              !.resolvedAt = FALSE]

\* The row the session holds for an identity it read as `old`, once the scan
\* has not seen it ...
Unseen(old) ==
  IF old.status \in {"none", "resolved"} THEN old
  ELSE [old EXCEPT !.status = "resolved", !.resolvedAt = TRUE]

\* ... has seen and suppressed it: a dismissal is kept, all else is filtered ...
Suppressed(old) ==
  [old EXCEPT !.verdict = "suppressed",
              !.status = IF @ = "dismissed" THEN @ ELSE "filtered",
              !.resolvedAt = FALSE]

\* ... or has seen it and found it actionable.
Raised(old) ==
  IF old.status \in {"none", "resolved", "filtered"}
  THEN [old EXCEPT !.verdict = "actionable", !.status = "open",
                   !.resolvedAt = FALSE, !.notified = FALSE]
  ELSE [old EXCEPT !.verdict = "actionable",
                   !.notified = @ /\ ~(old.status = "open" /\ IsNews(old))]

Reconciled(old, v) ==
  CASE v = "absent"     -> Unseen(old)
    [] v = "suppressed" -> Suppressed(old)
    [] v = "actionable" -> Raised(old)

\* new_actionable: created actionable, or news that is open after the merge.
WorthTelling(old, v) ==
  v = "actionable" /\ IsNews(old) /\ Raised(old).status = "open"

\* A flush writes a column only when the session changed it.
Column(read, new, stored) == IF new # read THEN new ELSE stored

Merge(stored, read, new) ==
  [verdict     |-> Column(read.verdict, new.verdict, stored.verdict),
   status      |-> Column(read.status, new.status, stored.status),
   notified    |-> Column(read.notified, new.notified, stored.notified),
   dismissedAt |-> Column(read.dismissedAt, new.dismissedAt, stored.dismissedAt),
   resolvedAt  |-> Column(read.resolvedAt, new.resolvedAt, stored.resolvedAt)]

\* Rows the scan has updated (or inserted) and not committed: a seen row is
\* always updated, for its last_seen_at; an unseen one when it gets resolved.
Locked(f) == f \in done /\ (saw[f] # "absent" \/ work[f] # loaded[f])

-----------------------------------------------------------------------------
(***************************************************************************)
(* The scan.                                                               *)
(***************************************************************************)

NoScan ==
  /\ phase' = "idle"
  /\ todo' = {} /\ reading' = {} /\ done' = {} /\ news' = {} /\ mailed' = {}
  /\ saw' = [f \in Finding |-> "absent"]
  /\ loaded' = [f \in Finding |-> NoRow]
  /\ work' = [f \in Finding |-> NoRow]

StartScan ==
  /\ phase = "idle"
  /\ phase' = "scanning"
  /\ todo' = Manifest
  /\ UNCHANGED <<row, reading, saw, loaded, work, done, news, mailed,
                 current, told, edit>>

\* Manifests are scanned in the order of their ids.
Turn(m) == phase = "scanning" /\ m \in todo /\ \A n \in todo : m <= n

\* A file that will not parse does not stop the others.
SkipUnreadable(m) ==
  /\ Turn(m)
  /\ todo' = todo \ {m}
  /\ UNCHANGED <<row, phase, reading, saw, loaded, work, done, news,
                 mailed, current, told, edit>>

\* Parse, look up, triage; then read the stored rows of the manifest.
Load(m) ==
  /\ Turn(m)
  /\ phase' = "loaded"
  /\ todo' = todo \ {m}
  /\ reading' = {m}
  /\ \E v \in [FindingsIn(m) -> Seen] :
       saw' = [f \in Finding |-> IF FileOf[f] = m THEN v[f] ELSE saw[f]]
  /\ loaded' = [f \in Finding |-> IF FileOf[f] = m THEN row[f] ELSE loaded[f]]
  /\ UNCHANGED <<row, work, done, news, mailed, current, told, edit>>

\* Merge the decisions into the loaded rows and flush.
Reconcile(m) ==
  /\ phase = "loaded" /\ m \in reading
  /\ phase' = "scanning"
  /\ reading' = {}
  /\ work' = [f \in Finding |->
                IF FileOf[f] = m THEN Reconciled(loaded[f], saw[f]) ELSE work[f]]
  /\ news' = news \cup {f \in FindingsIn(m) : WorthTelling(loaded[f], saw[f])}
  /\ done' = done \cup FindingsIn(m)
  /\ UNCHANGED <<row, todo, saw, loaded, mailed, current, told, edit>>

\* (Variant: the session keeps the rows of the digest only.)
MarkNotifiedOnly(F) == work' = [f \in F |-> [work[f] EXCEPT !.notified = TRUE]]

MarkNotified(F) ==
  work' = [f \in Finding |-> IF f \in F THEN [work[f] EXCEPT !.notified = TRUE] ELSE work[f]]

Finishing(t) ==
  /\ phase = "scanning" /\ todo = {} /\ t \in Triggers
  /\ phase' = "closing"
  /\ UNCHANGED <<row, todo, reading, saw, loaded, done, news, current, edit>>

Sendable == {f \in news : /\ work[f].verdict = "actionable"
                          /\ work[f].status = "open"
                          /\ ~work[f].notified}

\* The worker's sweep sends one digest; at least one channel takes it.
FinishDelivered ==
  /\ Finishing("scheduled")
  /\ MarkNotified(Sendable)
  /\ mailed' = Sendable
  /\ told' = [f \in Finding |-> told[f] \/ f \in Sendable]

\* No channel takes the digest, or building it raises: nothing is marked.
FinishUndelivered ==
  /\ Finishing("scheduled")
  /\ Sendable # {}
  /\ UNCHANGED <<work, mailed, told>>

\* The owner opted out of mail: marked, nothing sent.
FinishOptedOut ==
  /\ Finishing("scheduled")
  /\ MarkNotified(Sendable)
  /\ UNCHANGED <<mailed, told>>

\* The API's scan, and the scan that follows creating a project or replacing
\* its manifest: the results are on the caller's screen.
FinishWatched ==
  /\ Finishing("watched")
  /\ MarkNotified(news)
  /\ told' = [f \in Finding |-> told[f] \/ f \in news]
  /\ UNCHANGED mailed

\* "Check now" on the dashboard.
FinishManual ==
  /\ Finishing("manual")
  /\ UNCHANGED <<work, mailed, told>>

\* The owner has to be told again once a finding stops being an open,
\* actionable one by the scan's own doing.
StillNews(r) == r.verdict = "actionable" /\ r.status # "resolved"

Commit ==
  /\ phase = "closing"
  /\ row' = [f \in Finding |->
               IF f \in done THEN Merge(row[f], loaded[f], work[f]) ELSE row[f]]
  /\ current' = [f \in Finding |-> IF f \in done THEN saw[f] ELSE current[f]]
  /\ told' = [f \in Finding |-> told[f] /\ StillNews(row'[f])]
  /\ NoScan
  /\ UNCHANGED edit

\* The process dies or the database refuses: the transaction rolls back, and
\* whoever was told of its news has not been, as far as the database knows.
Abort ==
  /\ phase # "idle"
  /\ told' = [f \in Finding |-> told[f] /\ f \notin news]
  /\ NoScan
  /\ UNCHANGED <<row, current, edit>>

-----------------------------------------------------------------------------
(***************************************************************************)
(* The owner: POST /alerts/{id}/status reads the row, then writes it.      *)
(***************************************************************************)

ReadStatus(q, f, to) ==
  /\ edit[q] = NoEdit
  /\ row[f].status # "none"
  /\ edit' = [edit EXCEPT ![q] =
                [finding |-> f, to |-> to, moves |-> row[f].status # to,
                 undates |-> to = "open" /\ row[f].dismissedAt]]
  /\ UNCHANGED <<row, scanVars, current, told>>

\* dismissed_at gets a new timestamp, so dismissing always writes it.
Updated(r, e) ==
  [r EXCEPT !.status = IF e.moves THEN e.to ELSE @,
            !.dismissedAt = (e.to = "dismissed") \/ (@ /\ ~e.undates)]

WriteStatus(q, f) ==
  /\ edit[q].finding = f
  /\ ~Locked(f)
  /\ row' = [row EXCEPT ![f] = Updated(@, edit[q])]
  /\ edit' = [edit EXCEPT ![q] = NoEdit]
  /\ UNCHANGED <<scanVars, current, told>>

-----------------------------------------------------------------------------
Init ==
  /\ row = [f \in Finding |-> NoRow]
  /\ phase = "idle"
  /\ todo = {} /\ reading = {} /\ done = {} /\ news = {} /\ mailed = {}
  /\ saw = [f \in Finding |-> "absent"]
  /\ loaded = [f \in Finding |-> NoRow]
  /\ work = [f \in Finding |-> NoRow]
  /\ current = [f \in Finding |-> "absent"]
  /\ told = [f \in Finding |-> FALSE]
  /\ edit = [q \in Request |-> NoEdit]

Scan ==
  \/ StartScan
  \/ \E m \in Manifest : SkipUnreadable(m) \/ Load(m) \/ Reconcile(m)
  \/ FinishDelivered \/ FinishUndelivered \/ FinishOptedOut
  \/ FinishWatched \/ FinishManual
  \/ Commit

Owner ==
  \E q \in Request, f \in Finding :
    \/ \E to \in {"open", "dismissed"} : ReadStatus(q, f, to)
    \/ WriteStatus(q, f)

Next == Scan \/ Abort \/ Owner

Spec == Init /\ [][Next]_vars

-----------------------------------------------------------------------------
(***************************************************************************)
(* Invariants.                                                             *)
(***************************************************************************)

\* The type of every variable.
TypeOK ==
  /\ row \in [Finding -> Row]
  /\ phase \in {"idle", "scanning", "loaded", "closing"}
  /\ todo \subseteq Manifest /\ reading \subseteq Manifest
  /\ saw \in [Finding -> Seen]
  /\ loaded \in [Finding -> Row]
  /\ work \in [Finding -> Row]
  /\ done \subseteq Finding /\ news \subseteq Finding /\ mailed \subseteq Finding
  /\ current \in [Finding -> Seen]
  /\ told \in [Finding -> BOOLEAN]
  /\ edit \in [Request -> EditRecord]

\* A finding is never marked fixed while the last check of its file still
\* matched it, whatever requests ran during that check (update_status,
\* _reconcile_matches): "the one claim this product exists not to make falsely".
ResolvedMeansGone ==
  \A f \in Finding : row[f].status = "resolved" => current[f] = "absent"

\* The stored verdict of a finding its last check saw is what that check
\* concluded, and what is filed as filtered is a suppressed one: the tabs of
\* finding_service._FILTERS never show an actionable finding as noise.
VerdictIsCurrent ==
  \A f \in Finding :
    /\ current[f] # "absent" => row[f].verdict = current[f]
    /\ row[f].status = "filtered" => row[f].verdict = "suppressed"

\* An archived row has the date its tab is trimmed by (finding_service: "both
\* columns are written alongside the status"), as long as the owner's requests
\* about it do not overlap.
ArchiveIsDated ==
  \A f \in Finding :
    /\ row[f].status = "resolved" => row[f].resolvedAt
    /\ row[f].status = "dismissed" => row[f].dismissedAt

-----------------------------------------------------------------------------
(***************************************************************************)
(* Action properties.                                                      *)
(***************************************************************************)

\* "Each finding notifies once": no digest repeats a finding its owner has
\* heard of (by mail or on screen) since it last became news, unless the
\* transaction that recorded the first one was rolled back.
NotifiesOnce ==
  [][\A f \in Finding : f \in mailed' \ mailed => ~told[f]]_vars

\* A scan never opens a finding silently: whatever its commit moves into the
\* open tab, from whatever status the owner's requests left it in, is in the
\* list its caller notifies about.
OpenedIsNews ==
  [][\A f \in done :
       row'[f].status = "open" /\ row[f].status # "open" /\ edit' = edit
         => f \in news]_vars

\* A scan that read a finding as dismissed and still sees it neither reopens
\* nor refiles it (the status column is not among those it writes).
DismissalRespected ==
  [][\A f \in done :
       row[f].status = "dismissed" /\ loaded[f].status = "dismissed" /\ saw[f] # "absent"
         => row'[f].status = "dismissed" \/ edit' # edit]_vars

\* The life of a finding as its owner sees it: atomic checks and decisions.
Life == INSTANCE FindingLife WITH
          status  <- [f \in Finding |-> row[f].status],
          verdict <- [f \in Finding |-> row[f].verdict]

\* The scan transaction, interleaved with the owner's requests, looks atomic.
LooksAtomic == Life!LifeSpec

-----------------------------------------------------------------------------
(***************************************************************************)
(* What the documentation says and the code does not do.                   *)
(***************************************************************************)

\* alert_service: "notified_at stays unset, so the next scan retries": the
\* next scheduled scan that sees an open finding nobody was told about takes
\* it up again.
FailedDigestIsRetried ==
  [][\A f \in done :
       /\ phase = "scanning" /\ phase' = "closing"
       /\ loaded[f].status = "open" /\ ~loaded[f].notified
       /\ loaded[f].verdict = "actionable" /\ saw[f] = "actionable"
       => f \in news]_vars

\* README: "A finding you dismiss stays dismissed across re-scans", also when
\* the dismissal is committed while a scan is running.
DismissalSticks ==
  [][\A f \in done :
       row[f].status = "dismissed" /\ saw[f] # "absent"
         => row'[f].status = "dismissed" \/ edit' # edit]_vars

\* The tabs of finding_service._FILTERS a stored row is listed under.
Tabs(r) ==
  {t \in {"open", "filtered", "dismissed", "resolved"} :
     /\ r.status = t
     /\ t = "open" => r.verdict = "actionable"
     /\ t = "filtered" => r.verdict = "suppressed"}

\* README: suppressed findings are counted "and every one of them is
\* browsable": a stored finding is in exactly one tab.
EveryFindingIsListed ==
  \A f \in Finding : row[f].status # "none" => Cardinality(Tabs(row[f])) = 1
=============================================================================
