-------------------------------- MODULE Sweep --------------------------------
(***************************************************************************)
(* Who scans which project when: the worker's sweep over the due targets   *)
(* and the scans that web and API requests run, each in a transaction of   *)
(* its own, sharing the rows of tracked_targets and project_manifests.     *)
(*                                                                         *)
(* A sweep selects the due targets once and keeps their manifests in its   *)
(* session, so it scans the text a manifest had when the sweep began.  A   *)
(* scan updates (and locks) the manifest row first and the target row when *)
(* it commits; a request that stores a new manifest locks them the other   *)
(* way around.  What a scan does with findings is the subject of Findings. *)
(* One worker runs: the advisory lock is not modelled here.                *)
(***************************************************************************)
EXTENDS Naturals, Sequences, FiniteSets

CONSTANTS
  Target,       \* the active projects of accounts in good standing
  Broken,       \* those whose scan always raises
  Browser,      \* the requests that may be in flight at once
  Limit,        \* job_max_targets_per_tick
  MaxRequests,  \* bound: requests made in all
  MaxFaults     \* bound: transient exceptions and killed processes in all

Worker == "worker"
Actor == Browser \cup {Worker}

ASSUME SweepAssumption ==
  /\ IsFiniteSet(Target)
  /\ Broken \subseteq Target
  /\ Worker \notin Browser
  /\ "nobody" \notin Actor
  /\ Limit \in Nat \ {0}
  /\ MaxRequests \in Nat /\ MaxFaults \in Nat

VARIABLES
  content,   \* the version of each project's stored manifest
  checked,   \* history: the version the last committed scan read, 0 for none
  unset,     \* the targets whose next_scan_at is NULL, which means due now
  past,      \* the targets whose next_scan_at has passed, the oldest first
  lockM,     \* who holds the project_manifests row of a target
  lockT,     \* who holds its tracked_targets row
  job,       \* what each actor is doing
  outdated,  \* actors whose dependency rows another scan has since replaced
  sweeping,  \* a sweep is running
  batch,     \* the due targets it has still to scan
  snap,      \* the manifest versions in its session
  expired,   \* a rollback has expired the objects in its session
  requests,  \* requests made so far
  faults     \* faults so far

rows == <<content, checked, unset, past>>
locks == <<lockM, lockT>>
sweep == <<sweeping, batch, snap, expired>>
counters == <<requests, faults>>
vars == <<rows, locks, job, outdated, sweep, counters>>

\* The steps of a job: a request first stores its manifest (store: wants the
\* target row, storing: has it and wants the manifest row), then scans.
Idle == [pc |-> "idle", kind |-> "none", target |-> "none", version |-> 0, wasUnset |-> FALSE]

Doing(a, pc) == job[a].pc = pc
At(a, t) == job[a].pc # "idle" /\ job[a].target = t
Free(lock, t, a) == lock[t] \in {"nobody", a}
Elements(s) == {s[i] : i \in DOMAIN s}

\* The queue once t, which is in it at most once, has left it.
Without(s, t) ==
  IF t \in Elements(s)
  THEN LET i == CHOOSE i \in DOMAIN s : s[i] = t
       IN  SubSeq(s, 1, i - 1) \o SubSeq(s, i + 1, Len(s))
  ELSE s

Now(a, pc) == job' = [job EXCEPT ![a].pc = pc]

\* (Variant: the worker commits once per sweep, and holds on to its locks.)
FinishOnce(a) ==
  /\ job' = [job EXCEPT ![a] = Idle]
  /\ lockM' = [t \in Target |-> IF lockM[t] = a /\ a # Worker THEN "nobody" ELSE lockM[t]]
  /\ lockT' = [t \in Target |-> IF lockT[t] = a /\ a # Worker THEN "nobody" ELSE lockT[t]]

\* The transaction of an actor is over: its row locks are free.
Finish(a) ==
  /\ job' = [job EXCEPT ![a] = Idle]
  /\ lockM' = [t \in Target |-> IF lockM[t] = a THEN "nobody" ELSE lockM[t]]
  /\ lockT' = [t \in Target |-> IF lockT[t] = a THEN "nobody" ELSE lockT[t]]

-----------------------------------------------------------------------------
(***************************************************************************)
(* The schedule.                                                           *)
(***************************************************************************)

Due == unset \cup Elements(past)

\* The scan interval of a target passes.
Elapse(t) ==
  /\ t \notin Due
  /\ past' = Append(past, t)
  /\ UNCHANGED <<content, checked, unset, locks, job, outdated, sweep, counters>>

Orders(S) ==
  {s \in [1..Cardinality(S) -> S] : \A i, j \in DOMAIN s : s[i] = s[j] => i = j}

\* (Variants: the ORDER BY is left out; only a NULL next_scan_at is due.)
QueuesUnordered == Orders(Due)
QueuesUnset == Orders(unset)

\* Targets with no next_scan_at come first, in no particular order, then those
\* whose time has passed, the oldest first.
Queues == {s \o past : s \in Orders(unset)}

FirstDue(s) == SubSeq(s, 1, IF Len(s) < Limit THEN Len(s) ELSE Limit)

StartSweep ==
  /\ ~sweeping /\ Due # {}
  /\ sweeping' = TRUE
  /\ \E s \in Queues : batch' = FirstDue(s)
  /\ snap' = [t \in Target |-> IF t \in Elements(batch') THEN content[t] ELSE 0]
  /\ UNCHANGED <<rows, locks, job, outdated, expired, counters>>

NextTarget ==
  /\ sweeping /\ Doing(Worker, "idle") /\ ~expired /\ batch # <<>>
  /\ job' = [job EXCEPT ![Worker] =
               [pc |-> "start", kind |-> "sweep", target |-> Head(batch),
                version |-> snap[Head(batch)], wasUnset |-> FALSE]]
  /\ batch' = Tail(batch)
  /\ UNCHANGED <<rows, locks, outdated, sweeping, snap, expired, counters>>

\* (Variant: the session of the last sweep is used again.)
SweepIsOverKept ==
  /\ sweeping' = FALSE /\ UNCHANGED <<batch, snap, expired>>

SweepIsOver ==
  /\ sweeping' = FALSE /\ batch' = <<>> /\ expired' = FALSE
  /\ snap' = [t \in Target |-> 0]

EndSweep ==
  /\ sweeping /\ Doing(Worker, "idle") /\ batch = <<>>
  /\ SweepIsOver
  /\ UNCHANGED <<rows, locks, job, outdated, counters>>

\* An exception leaves run_scan_cycle: the targets left are not scanned.
SweepDies ==
  /\ Finish(Worker)
  /\ outdated' = outdated \ {Worker}
  /\ SweepIsOver

\* After a rollback every object is expired, and reading the id of the next
\* target, also to log the failure, needs a query the attribute cannot make.
TouchExpired ==
  /\ sweeping /\ Doing(Worker, "idle") /\ expired /\ batch # <<>>
  /\ SweepDies
  /\ UNCHANGED <<rows, counters>>

-----------------------------------------------------------------------------
(***************************************************************************)
(* A scan, by the worker or by a request.                                  *)
(***************************************************************************)

\* Parse the manifest and select its dependency rows, which the next flush
\* deletes.
ReadDependencies(a) ==
  /\ Doing(a, "start")
  /\ Now(a, "read")
  /\ UNCHANGED <<rows, locks, outdated, sweep, counters>>

\* (Variant: the flush does not update the manifest row.)
FlushUnlocked(a) ==
  /\ Doing(a, "read") /\ job[a].target \notin Broken
  /\ Now(a, "flushed")
  /\ outdated' = outdated \ {a}
  /\ UNCHANGED <<rows, locks, sweep, counters>>

\* The first flush updates the manifest row and replaces the dependency rows.
\* It may succeed although they are outdated, when the two lists are disjoint.
Flush(a) ==
  /\ Doing(a, "read") /\ job[a].target \notin Broken
  /\ Free(lockM, job[a].target, a)
  /\ Now(a, "flushed")
  /\ lockM' = [lockM EXCEPT ![job[a].target] = a]
  /\ outdated' = outdated \ {a}
  /\ UNCHANGED <<rows, lockT, sweep, counters>>

\* Everything is stored, next_scan_at moves on, and whoever has read the
\* dependency rows of this target will find others in their place.
Commit(a) ==
  LET t == job[a].target IN
  /\ Doing(a, "flushed")
  /\ Free(lockT, t, a)
  /\ content' = IF job[a].kind = "push" THEN [content EXCEPT ![t] = job[a].version] ELSE content
  /\ checked' = [checked EXCEPT ![t] = job[a].version]
  /\ unset' = unset \ {t}
  /\ past' = Without(past, t)
  /\ outdated' = outdated \cup {b \in Actor : At(b, t) /\ Doing(b, "read")}
  /\ Finish(a)
  /\ UNCHANGED <<sweep, counters>>

\* A failed flush: a request gets an error, a sweep does not survive it.
Fails(a) ==
  IF a = Worker THEN SweepDies
  ELSE Finish(a) /\ outdated' = outdated \ {a} /\ UNCHANGED sweep

\* Inserting dependency rows that another scan has inserted meanwhile.
Conflict(a) ==
  /\ Doing(a, "read") /\ a \in outdated
  /\ Free(lockM, job[a].target, a)
  /\ Fails(a)
  /\ UNCHANGED <<rows, counters>>

\* An exception in scan_target that is not the database's: rolled back.
Raise(a) ==
  /\ job[a].pc \in {"start", "read", "flushed"}
  /\ Finish(a)
  /\ outdated' = outdated \ {a}
  /\ expired' = (expired \/ a = Worker)
  /\ UNCHANGED <<rows, sweeping, batch, snap>>

ScanBroken(a) ==
  /\ job[a].target \in Broken
  /\ Raise(a)
  /\ UNCHANGED counters

Fault == faults < MaxFaults /\ faults' = faults + 1 /\ UNCHANGED requests

ScanRaises(a) == Fault /\ Raise(a)

\* The worker process is killed, and restarted.
KillWorker ==
  /\ sweeping
  /\ Fault
  /\ SweepDies
  /\ UNCHANGED rows

-----------------------------------------------------------------------------
(***************************************************************************)
(* Requests.                                                               *)
(***************************************************************************)

Begin(w, j) ==
  /\ Doing(w, "idle")
  /\ requests < MaxRequests
  /\ requests' = requests + 1
  /\ job' = [job EXCEPT ![w] = j]
  /\ UNCHANGED <<rows, locks, outdated, sweep, faults>>

\* Each new manifest has a version of its own: the first one stored is 1.
Fresh == requests + 2

\* "Check now", or an API scan of the manifest that is already stored.
Rescan(w, t) ==
  Begin(w, [pc |-> "start", kind |-> "rescan", target |-> t, version |-> content[t],
            wasUnset |-> FALSE])

\* A new manifest: the dashboard commits it and then scans, the API does both
\* in one transaction.
Send(w, t, kind) ==
  Begin(w, [pc |-> "store", kind |-> kind, target |-> t, version |-> Fresh,
            wasUnset |-> t \in unset])

\* The flush updates tracked_targets before project_manifests ...
StoreTarget(w) ==
  LET t == job[w].target IN
  /\ Doing(w, "store")
  /\ Free(lockT, t, w)
  /\ lockT' = [lockT EXCEPT ![t] = w]
  /\ Now(w, "storing")
  /\ UNCHANGED <<rows, lockM, outdated, sweep, counters>>

\* ... the API keeps both to the end of its scan ...
StorePushed(w) ==
  LET t == job[w].target IN
  /\ Doing(w, "storing") /\ job[w].kind = "push"
  /\ Free(lockM, t, w)
  /\ lockM' = [lockM EXCEPT ![t] = w]
  /\ Now(w, "start")
  /\ UNCHANGED <<rows, lockT, outdated, sweep, counters>>

\* ... the dashboard commits them, with next_scan_at reset unless it already
\* was when the request read it.
StoreUploaded(w) ==
  LET t == job[w].target IN
  /\ Doing(w, "storing") /\ job[w].kind = "upload"
  /\ Free(lockM, t, w)
  /\ content' = [content EXCEPT ![t] = job[w].version]
  /\ unset' = IF job[w].wasUnset THEN unset ELSE unset \cup {t}
  /\ past' = IF job[w].wasUnset THEN past ELSE Without(past, t)
  /\ lockT' = [lockT EXCEPT ![t] = "nobody"]
  /\ Now(w, "start")
  /\ UNCHANGED <<checked, lockM, outdated, sweep, counters>>

\* The request is cancelled or its server killed, wherever it is.
DropRequest(w) ==
  /\ ~Doing(w, "idle")
  /\ Fault
  /\ Finish(w)
  /\ outdated' = outdated \ {w}
  /\ UNCHANGED <<rows, sweep>>

-----------------------------------------------------------------------------
\* One waits for a target row the other holds, the other for its manifest row.
Deadlocked(a, b) ==
  LET t == job[a].target IN
  /\ a # b /\ At(b, t)
  /\ Doing(a, "flushed") /\ lockT[t] = b
  /\ Doing(b, "storing") /\ lockM[t] = a

\* The database aborts one of the two.
AbortVictim(a) ==
  /\ \E b \in Actor : Deadlocked(a, b) \/ Deadlocked(b, a)
  /\ Fails(a)
  /\ UNCHANGED <<rows, counters>>

-----------------------------------------------------------------------------
Init ==
  /\ content = [t \in Target |-> 1]
  /\ checked = [t \in Target |-> 0]
  /\ unset = Target
  /\ past = <<>>
  /\ lockM = [t \in Target |-> "nobody"]
  /\ lockT = [t \in Target |-> "nobody"]
  /\ job = [a \in Actor |-> Idle]
  /\ outdated = {}
  /\ sweeping = FALSE /\ batch = <<>> /\ expired = FALSE
  /\ snap = [t \in Target |-> 0]
  /\ requests = 0 /\ faults = 0

\* What the code of an actor does next, whoever it is.
Scan(a) ==
  \/ ReadDependencies(a) \/ Flush(a) \/ Commit(a)
  \/ Conflict(a) \/ ScanBroken(a)

Store(w) == StoreTarget(w) \/ StorePushed(w) \/ StoreUploaded(w)

Cycle == StartSweep \/ NextTarget \/ TouchExpired \/ EndSweep \/ Scan(Worker)

Requested(w) == \E t \in Target :
  Rescan(w, t) \/ \E kind \in {"push", "upload"} : Send(w, t, kind)

Next ==
  \/ \E t \in Target : Elapse(t)
  \/ Cycle
  \/ \E w \in Browser : Requested(w) \/ Scan(w) \/ Store(w) \/ DropRequest(w)
  \/ \E a \in Actor : ScanRaises(a) \/ AbortVictim(a)
  \/ KillWorker

\* Time passes, the scheduler ticks, handlers run on, PostgreSQL resolves
\* deadlocks and grants a contended row lock in the order it was asked for.
Fairness ==
  /\ \A t \in Target : WF_vars(Elapse(t))
  /\ WF_vars(Cycle)
  /\ \A w \in Browser : SF_vars(Scan(w) \/ Store(w))
  /\ WF_vars(\E a \in Actor : AbortVictim(a))

Spec == Init /\ [][Next]_vars /\ Fairness

-----------------------------------------------------------------------------
(***************************************************************************)
(* Properties.                                                             *)
(***************************************************************************)

Job == [pc : {"idle", "store", "storing", "start", "read", "flushed"},
        kind : {"none", "sweep", "rescan", "push", "upload"},
        target : Target \cup {"none"}, version : Nat, wasUnset : BOOLEAN]

\* The type of every variable; nothing of a sweep outlives it.
TypeOK ==
  /\ ~sweeping => batch = <<>> /\ ~expired /\ Doing(Worker, "idle")
  /\ content \in [Target -> Nat] /\ checked \in [Target -> Nat]
  /\ unset \subseteq Target
  /\ past \in Seq(Target)
  /\ lockM \in [Target -> Actor \cup {"nobody"}]
  /\ lockT \in [Target -> Actor \cup {"nobody"}]
  /\ job \in [Actor -> Job]
  /\ outdated \subseteq Actor
  /\ sweeping \in BOOLEAN /\ expired \in BOOLEAN
  /\ batch \in Seq(Target)
  /\ snap \in [Target -> Nat]
  /\ requests \in Nat /\ faults \in Nat

\* From its first flush to its commit a scan has a project to itself, whoever
\* runs it: no two scans ever reconcile the findings of one project at once
\* (the premise of Findings).
ScansExclude ==
  \A a, b \in Actor :
    a # b /\ Doing(a, "flushed") /\ Doing(b, "flushed") => job[a].target # job[b].target

\* "One broken target cannot stop the sweep" (tasks.py): a due target whose
\* own scan works is scanned, whatever happens to the others.
EveryDueTargetIsScanned ==
  \A t \in Target \ Broken : t \in Due ~> t \notin Due

\* Whatever older text a sweep or a request still had in hand, in the end the
\* findings shown are those of the manifest that is stored.
ManifestIsScannedInTheEnd ==
  \A t \in Target \ Broken : content[t] # checked[t] ~> content[t] = checked[t]

\* A request is answered, although it and the sweep lock the same two rows in
\* opposite orders.
RequestsEnd == \A w \in Browser : ~Doing(w, "idle") ~> Doing(w, "idle")

\* replace_manifest: "re-scan on the next tick": a manifest that has not been
\* scanned is due, or somebody is at work on it.
NewManifestIsDue ==
  \A t \in Target :
    content[t] = checked[t] \/ t \in Due \/ \E a \in Actor : At(a, t)
=============================================================================
