------------------------------ MODULE Backups ------------------------------
(***************************************************************************)
(* The files in the backup directory, the scripts that write and prune     *)
(* them, and what the health board is told.                                *)
(*                                                                         *)
(* scripts/backup.sh runs under the worker's job, which its lock makes the *)
(* only one of its kind, and by hand, which nothing does.  A dump is named *)
(* by the second in which its script began: it is the number of the script *)
(* here, and no two begin in the same second.  A file is absent, cut off   *)
(* or whole; a compressed one may be broken, and a whole one of a dump     *)
(* that is cut off is not.  Any command may fail, and whoever runs a       *)
(* script may kill it.                                                     *)
(***************************************************************************)
EXTENDS Naturals, FiniteSets

CONSTANTS
  Runner,       \* "worker" and whoever else runs the script
  BACKUP_KEEP,  \* dumps kept, 0 for all of them
  Bucket,       \* a bucket is configured
  MaxScripts    \* bound: scripts started in all

BackupsAssumption ==
  /\ "worker" \in Runner /\ BACKUP_KEEP \in Nat /\ Bucket \in BOOLEAN /\ MaxScripts \in Nat

VARIABLES
  raw, partial, final,   \* weedout-<stamp>.sql.raw, .sql.gz.partial and .sql.gz
  script,    \* what each runner's script is about to do, its stamp and what it is to prune
  task,      \* the worker's job
  stamps,    \* scripts begun
  health,    \* the row of feed_syncs: the attempt it was last told of, whether with an error, and the last success
  produced   \* history: the dumps that got their name

vars == <<raw, partial, final, script, task, stamps, health, produced>>

Stamp == 1..MaxScripts
Dumps == {s \in Stamp : final[s] # "none"}
NoScript == [at |-> "idle", stamp |-> 0, doomed |-> {}, uploaded |-> TRUE]
NoTask == [at |-> "idle", stamp |-> 0, code |-> 0]

Running(r, at) == script[r].at = at
Goto(r, at) == script' = [script EXCEPT ![r].at = at]
Without(file, names) == [s \in Stamp |-> IF s \in names THEN "none" ELSE file[s]]
Written(file, s, what) == [file EXCEPT ![s] = IF @ = "none" THEN @ ELSE what]

-----------------------------------------------------------------------------
(***************************************************************************)
(* scripts/backup.sh.                                                      *)
(***************************************************************************)

\* The exit status reaches whoever waits for it.
Exit(r, code) ==
  /\ script' = [script EXCEPT ![r] = NoScript]
  /\ task' = IF r = "worker" THEN [task EXCEPT !.at = "exited", !.code = code] ELSE task

Begin(r) ==
  /\ Running(r, "idle") /\ stamps < MaxScripts
  /\ stamps' = stamps + 1
  /\ raw' = [raw EXCEPT ![stamps'] = "cut"]
  /\ script' = [script EXCEPT ![r] = [NoScript EXCEPT !.at = "dump", !.stamp = stamps']]

\* By hand; the worker's begins with its job.
RunByHand(r) ==
  /\ r # "worker"
  /\ Begin(r)
  /\ UNCHANGED <<partial, final, task, health, produced>>

\* pg_dump ends.  Its file may have been deleted under it.
DumpEnds(r) ==
  LET s == script[r].stamp IN
  /\ Running(r, "dump")
  /\ \/ raw' = Written(raw, s, "whole") /\ Goto(r, "check") /\ UNCHANGED task
     \/ Goto(r, "check") /\ UNCHANGED <<raw, task>>
     \/ raw' = Without(raw, {s}) /\ Exit(r, 1)
  /\ UNCHANGED <<partial, final, stamps, health, produced>>

\* (Variant: the end of the file is not looked at.)
Complete_unchecked(s) == raw[s] # "none"
Complete(s) == raw[s] = "whole"

Check(r) ==
  LET s == script[r].stamp IN
  /\ Running(r, "check")
  /\ IF Complete(s)
     THEN partial' = [partial EXCEPT ![s] = "broken"] /\ Goto(r, "gzip") /\ UNCHANGED <<raw, task>>
     ELSE raw' = Without(raw, {s}) /\ Exit(r, 1) /\ UNCHANGED partial
  /\ UNCHANGED <<final, stamps, health, produced>>

\* gzip writes all of what it was given, or stops without a word, or says so,
\* which ends the script and leaves the dump to be cleared by a later one.
GzipEnds(r) ==
  LET s == script[r].stamp IN
  /\ Running(r, "gzip")
  /\ \/ partial' = Written(partial, s, raw[s]) /\ raw' = Without(raw, {s}) /\ Goto(r, "verify") /\ UNCHANGED task
     \/ raw' = Without(raw, {s}) /\ Goto(r, "verify") /\ UNCHANGED <<partial, task>>
     \/ partial' = Without(partial, {s}) /\ Exit(r, 1) /\ UNCHANGED raw
  /\ UNCHANGED <<final, stamps, health, produced>>

Verify(r) ==
  LET s == script[r].stamp IN
  /\ Running(r, "verify")
  /\ IF partial[s] \in {"cut", "whole"}
     THEN Goto(r, "move") /\ UNCHANGED <<partial, task>>
     ELSE partial' = Without(partial, {s}) /\ Exit(r, 1)
  /\ UNCHANGED <<raw, final, stamps, health, produced>>

\* The file may have been deleted since it was verified.
Move(r) ==
  LET s == script[r].stamp IN
  /\ Running(r, "move")
  /\ IF partial[s] # "none"
     THEN /\ final' = [final EXCEPT ![s] = partial[s]]
          /\ produced' = produced \cup {s}
          /\ Goto(r, "upload") /\ UNCHANGED task
     ELSE Exit(r, 1) /\ UNCHANGED <<final, produced>>
  /\ partial' = Without(partial, {s})
  /\ UNCHANGED <<raw, stamps, health>>

Upload(r) ==
  /\ Running(r, "upload")
  /\ \E ok \in (IF Bucket THEN BOOLEAN ELSE {TRUE}) :
       script' = [script EXCEPT ![r].at = "list", ![r].uploaded = ok]
  /\ UNCHANGED <<raw, partial, final, task, stamps, health, produced>>

Newer(s, names) == {t \in names : t > s}
\* (Variant: the list is sorted the other way round.)
DoomedNewest(names) ==
  IF BACKUP_KEEP = 0 THEN {} ELSE {s \in names : Cardinality({t \in names : t < s}) >= BACKUP_KEEP}
Doomed(names) == IF BACKUP_KEEP = 0 THEN {} ELSE {s \in names : Cardinality(Newer(s, names)) >= BACKUP_KEEP}

List(r) ==
  /\ Running(r, "list")
  /\ script' = [script EXCEPT ![r].at = "prune", ![r].doomed = Doomed(Dumps)]
  /\ UNCHANGED <<raw, partial, final, task, stamps, health, produced>>

\* Everybody's unfinished files go, too.
Prune(r) ==
  /\ Running(r, "prune")
  /\ final' = Without(final, script[r].doomed)
  /\ raw' = Without(raw, Stamp) /\ partial' = Without(partial, Stamp)
  /\ Exit(r, IF script[r].uploaded THEN 0 ELSE 1)
  /\ UNCHANGED <<stamps, health, produced>>

\* A killed shell cleans nothing up.  The command it was waiting for may go on.
Cut(r) ==
  LET s == script[r].stamp IN
  /\ script' = [script EXCEPT ![r] = NoScript]
  /\ \/ Running(r, "dump") /\ raw' = Written(raw, s, "whole") /\ UNCHANGED <<partial, final>>
     \/ Running(r, "gzip") /\ partial' = Written(partial, s, raw[s]) /\ UNCHANGED <<raw, final>>
     \/ Running(r, "prune") /\ final' = Without(final, script[r].doomed) /\ UNCHANGED <<raw, partial>>
     \/ UNCHANGED <<raw, partial, final>>

Interrupt(r) ==
  /\ r # "worker" /\ ~Running(r, "idle")
  /\ Cut(r)
  /\ UNCHANGED <<task, stamps, health, produced>>

-----------------------------------------------------------------------------
(***************************************************************************)
(* backup_task, run_backup and record_outcome.                             *)
(***************************************************************************)

StartTask ==
  /\ task.at = "idle"
  /\ Begin("worker")
  /\ task' = [NoTask EXCEPT !.at = "running", !.stamp = stamps']
  /\ UNCHANGED <<partial, final, health, produced>>

\* last_error and last_success_at are set each by itself.
record_outcome(success, error) ==
  /\ health' = [tried |-> task.stamp,
                succeeded |-> IF success THEN task.stamp ELSE health.succeeded,
                error |-> error \/ ~success]
  /\ task' = NoTask

\* The script takes longer than backup_timeout_seconds and is killed.
Timeout ==
  /\ task.at = "running"
  /\ Cut("worker")
  /\ record_outcome(FALSE, TRUE)
  /\ UNCHANGED <<stamps, produced>>

\* 0 and 1 both pass for a dump; some dump has to be there.
Record ==
  LET uploaded == Bucket /\ task.code = 0 IN
  /\ task.at = "exited"
  /\ IF Dumps = {}
     THEN record_outcome(FALSE, TRUE)
     ELSE record_outcome(TRUE, Bucket /\ ~uploaded)
  /\ UNCHANGED <<raw, partial, final, script, stamps, produced>>

\* The worker is killed: nothing is recorded.
KillWorker ==
  /\ task.at # "idle"
  /\ Cut("worker")
  /\ task' = NoTask
  /\ UNCHANGED <<stamps, health, produced>>

FeedHealth_status ==
  CASE health.error -> "failing"
    [] ~health.error /\ health.succeeded = 0 -> "never synced"
    [] OTHER -> "ok"

-----------------------------------------------------------------------------
Init ==
  /\ raw = [s \in Stamp |-> "none"] /\ partial = raw /\ final = raw
  /\ script = [r \in Runner |-> NoScript]
  /\ task = NoTask /\ stamps = 0 /\ produced = {}
  /\ health = [tried |-> 0, succeeded |-> 0, error |-> FALSE]

Next ==
  \/ StartTask \/ Timeout \/ Record \/ KillWorker
  \/ \E r \in Runner :
       \/ RunByHand(r) \/ DumpEnds(r) \/ Check(r) \/ GzipEnds(r) \/ Verify(r)
       \/ Move(r) \/ Upload(r) \/ List(r) \/ Prune(r) \/ Interrupt(r)

Spec == Init /\ [][Next]_vars

-----------------------------------------------------------------------------
\* A dump that is cut off never goes by the name of a real one, whatever ran
\* beside its script; the newest that were made are there; a board that says
\* "ok" says so of a directory with something to restore; and where dumps are
\* uploaded, the last attempt is not without an error unless it made one.
\* (Without a bucket it may be: a pg_dump that fails exits with 1, which
\* run_backup takes for a dump that could not be uploaded.)
DumpsAreKept ==
  /\ \A s \in Stamp : final[s] \in {"none", "whole"}
  /\ \A s \in produced : Cardinality(Newer(s, produced)) < BACKUP_KEEP \/ BACKUP_KEEP = 0 => final[s] = "whole"
  /\ FeedHealth_status = "ok" => Dumps # {}
  /\ Bucket /\ ~health.error => health.tried \in produced \cup {0}
=============================================================================
