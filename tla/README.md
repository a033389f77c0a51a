# A TLA+ model of weedout

weedout watches the dependency manifests of projects, looks every dependency up
in a mirrored advisory feed, decides which advisories matter to that project
(*actionable*) and which do not (*suppressed*), and tells the owner once about
each finding worth acting on. This directory holds models of that program's
decisions and of the parts of it in which an order of steps nobody tested can go
wrong, the TLC configurations that check them, and proofs about them.

    tlc -workers 2 -config MCFindings.cfg MCFindings      # a run
    tlapm Findings_proofs.tla                             # the proofs of a module

`PROJECT.json` lists the components, the runs, the source lines behind every
definition, a mutant per checked property, the hazards and the theorems.

## The system

Three programs share one PostgreSQL database: the FastAPI application
(`src/app`), its worker process (`src/app/jobs`), and a Next.js web server
(`src/web`) with a scanner of its own. A stateless Go engine (`src/engine`)
implements triage a second time.

| Component | State | Operations | Hard behaviour | What makes it correct | Modules |
|---|---|---|---|---|---|
| Scan (`services/scan_service.py`) | `cve_matches`, `dependencies`, `scan_runs` of a project | `scan_target`: parse, look up, triage, reconcile, flush, digest | one long transaction; rows read long before they are written; requests in between | never "fixed" while still matched; verdicts are those of the last check; a dismissal stays; nothing opens silently | `Findings`, `FindingLife` |
| Notification (`alert_service.py`, `discord_service.py`) | `notified_at`, `alerts` | digest per scan, marking, in-app delivery | mail leaves before the commit; a channel fails | one notification per piece of news, and each piece is told | `Findings` |
| Owner's decisions (`routes/internal_alerts.py`, `finding_service.py`) | `status`, `dismissed_at` | dismiss, reopen, list under four tabs | read–modify–write beside a scan | what the tabs show is what is stored | `Findings`, `FindingLife` |
| Worker and scheduler (`jobs/`) | APScheduler jobs, advisory locks, `next_scan_at` | sweep, feed refresh, mirror sync, metadata, backup, session purge | one target's failure; overlapping jobs; a killed worker; pooled connections | every due target is scanned; one job of a kind at a time; no feed goes stale | `Sweep`, `AdvisoryLock`, `FeedSchedule` |
| Manifests and requested scans (`target_service.py`, `routes/api.py`, `internal_projects.py`, the web server's manifest route) | `project_manifests`, `tracked_targets` | create, push, replace, delete, "check now" | the same two rows locked in two orders; text read before it is replaced; two servers replace it | the stored manifest is scanned in the end; it stays of its ecosystem; pushes are rationed | `Sweep`, `Projects`, `Gate` |
| Parsers (`core/manifests.py`) | none | one reader per format | ranges, unions, duplicates, nesting | nothing is lost; what ships is not taken for a development dependency; a floor is lowest | `Manifests`, `NpmLock` |
| Triage (`core/matching.py`, `versions.py`, `osv.py`, `cvss.py`, `types.py`) | none | `triage`, `triage_all` | boundaries, missing data, unordered events | what is affected is reported; the danger of a finding only adds | `Lists`, `Versions`, `Osv`, `Triage`, `Decisions`, `Intake` |
| Go engine (`engine/pkg`) | none | the same decision | two implementations | it agrees with the matcher | `GoEngine` |
| Rules, profiles, policy files (`rules_service.py`, `profile_service.py`, `core/policy.py`) | rules and thresholds per project, profiles per account | read a file, merge three layers | merging; a default replaced meanwhile | no layer silences the worst; rules in force apply | `Policies`, `ProjectSettings` |
| Reachability (`core/reachability.py`) | a row per dependency | analyse a bundle, carry a row forward | incomplete bundles | uploading more source hides nothing | `Reachability` |
| Supply chain (`core/supply_chain.py`, `supply_chain_service.py`, `package_metadata_service.py`) | `package_metadata`, signals | refresh in batches, assess, reconcile | a registry that fails; batches in no order; a package in two versions | imitations are seen; what is bad is shown | `SupplyChain`, `Signals` |
| Mirror and feeds (`mirror_service.py`, `feed_service.py`, `feeds/`) | `vulnerabilities`, `vulnerability_affected`, feed state | sync, refresh, staleness check | a batch commits and the next fails; two jobs share a lock | no scan finds less because of a sync; a synced ecosystem is searchable | `Mirror`, `FeedSchedule` |
| Web scanner (`web/src/server/projects/scan.ts`) | the same findings | reconcile, statement by statement | no transaction, no lock, beside the worker | as the scan; what is half done is mended | `WebScan` |
| Accounts (`auth_service.py`, `challenge_service.py`, `twofactor_service.py`, `password_reset_service.py`, `rate_limit_service.py`) | sessions, codes, links, attempt counts | sign in, second factor, reset, change password, revoke | check then act between requests; single use | no session outlives its password; a code works once | `Accounts` |
| CLI sign-in (`cli_auth_service.py`, the web server's `api/cli-auth`) | device requests, tokens | start, approve, deny, collect, purge | polling client against a browser; two servers that mint differently | denied means denied; the terminal stops; credentials are capped | `CliAuth` |
| API keys | keys of a project | issue, rotate, revoke | counted, then added | the cap holds | `ProjectSettings` |
| Organisations (`organisation_service.py`) | four columns of an account | name a company, ask to be shown, approve, revoke | two people write one row | a name that is shown was approved, and its owner wants it | `Showcase` |
| Administration (`admin_service.py`, `bootstrap_service.py`, `manage.py`) | `users`, the audit trail | delete, suspend, promote, demote; make the first administrator | two administrators, shells, processes that start together; mail before the commit | somebody administers, with a password somebody has | `Administration` |
| Backup (`scripts/backup.sh`, `backup_service.py`) | the backup directory, a row on the health board | dump, check, compress, rename, upload, prune; record | any command fails, anybody is killed, a second script by hand | a dump is whole; the newest are kept; the board tells | `Backups` |
| Plans, billing, e-mail, pages, VS Code extension | rows edited one at a time, or I/O | | little | | |

**Interactions.** The worker's sweep (`run_scan_cycle`) and the web and API
requests (`scan_now`, `scan_manifest`, `update_project_manifest`) all call
`scan_target`, each in a database session of its own; they meet only in rows and
row locks. `scan_target` calls `send_digest` when the worker runs it; the API
and the create/replace routes mark the news as seen (`mark_delivered_in_app`)
instead; "Check now" does neither. The session factory runs with autoflush and
expire-on-commit off (`db.py`), so a session keeps showing the values it loaded
and a flush writes the columns that differ from them. The scan looks advisories
up in the mirror while a sync rewrites it, reads the rules and the profile of
the project while its owner edits them, and hands each dependency to `triage`;
what it concludes is the free choice of `Findings`, and the subject of `Triage`.
The web server writes the same tables with single statements. The hazards follow
from that, and are listed at their lines in `PROJECT.json`.

## The modules

### `Findings`: the stored findings of one project

| Model | Code |
|---|---|
| `row[f]` | a row of `cve_matches`: `disposition`, `status`, and whether `notified_at`, `dismissed_at`, `resolved_at` are set |
| `StartScan`, `Load`, `Reconcile`, `SkipUnreadable` | the loop of `scan_target` over manifests, in the order of their ids; a load reads the rows, the merge and flush come later |
| `Unseen`, `Suppressed`, `Raised`, `IsNews`, `WorthTelling` | `_reconcile_matches` and what it appends to the new findings |
| `Merge` | what an UPDATE of the ORM writes: changed columns only |
| `FinishDelivered`, `FinishUndelivered`, `FinishOptedOut` | the worker's digest: some channel takes it; none does, or it raises; the owner opted out |
| `FinishWatched`, `FinishManual` | the API's scan and the scan after creating a project or replacing a manifest; "Check now" |
| `Commit`, `Abort` | the end of the transaction, either way, from any step |
| `ReadStatus`, `WriteStatus` | `update_status`: the read and the write of one request |
| `current`, `told` | history variables: what the last committed check concluded; whether the owner has heard of the finding since it last became news |

What triage concludes for a finding is chosen freely at each load, so every
sequence of advisories appearing, being re-rated, withdrawn and returning is
covered. An empty or unavailable mirror and a project without a manifest leave
findings unchanged, as does not scanning. Alert rows, texts and counters are
data no property is about. That scans of one project do not overlap while they
reconcile is the premise of the module, and is what `Sweep` shows.

### `FindingLife`: the abstract specification

The same life with every check and every decision atomic: a check moves each
finding it covers according to what it saw, a decision moves one. A check that
overlaps a decision may keep it. `Findings` implements it under the mapping of
`row` to status and verdict.

### `Sweep`: who scans which project when

| Model | Code |
|---|---|
| `unset`, `past`, `Queues`, `FirstDue` | the query for due targets in `run_scan_cycle`: NULL first, then oldest, limited |
| `StartSweep`, `NextTarget`, `EndSweep`, `TouchExpired`, `SweepDies` | its loop; after a rollback all objects are expired, and touching the next one raises, which ends the sweep |
| `ReadDependencies`, `Flush`, `Commit`, `Conflict`, `Raise` | one scan as the database sees it: what it reads, the first flush (manifest row lock, dependency rows), the commit (target row) and the ways it fails |
| `Rescan`, `Send`, `StoreTarget`, `StorePushed`, `StoreUploaded` | the requests: scan on demand, API push (one transaction), dashboard upload (commit, then scan) |
| `AbortVictim` | PostgreSQL's deadlock detector |
| `ScanRaises`, `KillWorker`, `DropRequest` | transient failures, each counted in `faults` |

`content` is the version of the stored manifest, `checked` (history) the version
the last committed scan read, and `snap` the version the sweep's session has had
in hand since the sweep began. A request that pushes text equal to what is
stored is a `Rescan`. One worker runs: what becomes of the advisory lock is
`AdvisoryLock`'s question, and what two sweeps at once would do to a project is
settled by the same row locks that keep a request's scan and the sweep's apart.

### `AdvisoryLock`: one job in one process

| Model | Code |
|---|---|
| `pool[p]`, `at[s]`, `aged` | the idle connections of the engine of process `p`, first in first out; the connection a database session has checked out; those older than `pool_recycle` |
| `held[c][k]` | how often the server session behind connection `c` holds lock `k`: PostgreSQL counts |
| `Take`, `Decline` | a tick of a job: its first statement checks a connection out and tries the lock |
| `Commit`, `Resume` | a commit inside the locked block gives the connection back; the next statement gets one, which need not be the same |
| `Leave`, `LeaveFailed` | the end of the block and of `session_scope`: the unlock on the connection then in hand, or the unlock that raises because the transaction has failed |
| `Visit`, `Depart` | any other session of the process: a request, or a job that takes no lock |
| `Age`, `HeldAfter`, `Return` | a connection too old at checkout is replaced; one returned to a full pool is closed; either way its locks go |
| `Kill` | a process dies and is started again |

`Committing` names the locks whose jobs commit inside the block: the sweep, the
mirror sync, the metadata refresh. The backup does not, and that makes the
difference. Waiting for a connection when all are in use, its timeout, and a
restart of PostgreSQL are not modelled.

### The decision: `Lists`, `Versions`, `Osv`, `Triage`, `GoEngine`, `Policies`, `Gate`, `Decisions`, `Intake`

Pure algorithms, written as operators with the code's names.

| Module | Code | What it takes and gives |
|---|---|---|
| `Lists` | comprehensions with a condition, `sorted` with a key | `Kept`, `Sorted`: told by the positions they keep, so that proofs can speak of any list |
| `Versions` | `core/versions.py` | `compare`, `in_range`, `version_matches`, `first_fixed_version` on versions split into numbers and tokens; SemVer and Maven's order |
| `Osv` | `core/osv.py`, `core/cvss.py` | an advisory record: `PairRangeEvents` folds its events into windows, `NormalizeSeverity` chooses a severity |
| `Triage` | `core/matching.py`, `core/types.py` | `triage`: one dependency, one advisory, one policy; `triage_all`: the two lists of a scan |
| `GoEngine` | `engine/pkg/matching`, `rules`, `scanner`, `services/engine_client.py` | the engine's finding on the same pair, and the comparison a shadow scan makes (`ShadowMatches`) |
| `Policies` | `core/policy.py`, `services/rules_service.py`, `profile_service.py` | `parse_policy`, the forms for rules and thresholds, `build_policy`: the layers merged |
| `Gate` | `routes/api.py` | the counts and findings a pipeline is told of after a push |

`Decisions` and `Intake` say what may be expected of them and of the modules of
the next section: `Decisions` of one dependency and one advisory, `Intake` of the
lists a scan takes in and gives out. Which versions, cases, policies, projects,
sources, lock files, histories, ranges, lines and names are asked about is left to
their constants. `MCTriage` asks about a few, `Triage_proofs` and `Intake_proofs`
about all there are. The findings of the engine are
compared as sets, because its answer is joined by identifier
(`engine_client.py`), and the fixes of its entries are told apart by sign only
(`FixSigns`, `GoFixSigns`): which of two is lower is all that `LowestFix` asks.

### What goes into it: `Manifests`, `NpmLock`, `Reachability`, `SupplyChain`

`Manifests` (`core/manifests.py`) has an operator per format, and `Dedupe`.
`NpmLock` has the walk over a package-lock.json as a state machine (`WalkInit`,
`Visit`: one name off the queue), because the order in which that loop serves
its queue is what decides the depth of a package; `GoPackageLock` is the engine's
reading of the same file. `Reachability` says what a bundle of source files tells of a
dependency (`AnalyzeOne`) and what a scan without source repeats
(`CarryForward`). `SupplyChain` has the bounded edit distance row by row, the
other resemblances of names, and the facts of a registry (`assess_facts`).

### `Mirror` and `FeedSchedule`: where advisories come from

| Model | Code |
|---|---|
| `records`, `index` | `vulnerabilities`, `vulnerability_affected` |
| `osv`, `sync.archive` | upstream, and the export that was downloaded |
| `_download`, `_flush`, `upsert_vulnerabilities`, `Success`, `EndSync` | one ecosystem after the other, one committed chunk after the other; the index rows of a chunk are deleted and written again in one transaction |
| `SyncFails`, `Kill`, `Revise` | a failed ecosystem, a killed worker, upstream changing in between |
| `find_local_vulnerabilities` | a scan's lookup, possible at every state |
| `wait`, `running`, `age` | the interval jobs of each scheduler, the refresh that holds the lock, the age of each feed in hours |
| `Fire`, `Start`, `Stop`, `Pass` | a tick that takes or declines the lock; a worker starting and stopping; time |

### `Signals`: the facts of a registry, from the job to the dashboard

`Upload`, `RegistryChanges`, `Refresh`, `reconcile_signals` and `ScanCrashes`:
the unique constraint knows one row per package and kind, and the loop inserts one
per dependency. `Refresh` is the hourly job: the names come from a `SELECT
DISTINCT` without an order, and the first of those that are due fill the batch,
so `Batches` leaves the choice open at every run; which of those that
were asked about get an answer is open as well. The age of a row is counted in
runs of the job, up to the first that finds it old (`FreshRuns`). A run comes at
most that often between two scans: rows live for a week, and a project is scanned
several times a day.

### `WebScan`: the other scanner

`scanProject`, `ReadStored`, `Insert`, `Update`, `Resolve`, `ScanFails`,
`ScanEnds`: one statement per step. `OtherScan` and `Decide` stand for the
service's scan, atomic as `Findings` shows it to be, and for the owner. It is an
implementation of the same `FindingLife`.

### `Projects` and `ProjectSettings`

`Projects`: the rows of `project_manifests`, the copy on the project, and what
each request has read of them. A push to the service reads the project with the
key (`authenticate_push`), the manifests later (`load_manifests`), and writes in
one transaction (`replace_manifest`, `scan_unchanged`, `push_fails`); one to the
web server writes manifest and copy as two statements (`WebWrites`,
`WebMirrors`). `ProjectSettings`: keys counted and added
(`issue_api_key`, `create_key`, `regenerate_key`), profiles created by either
server, made the default, deleted, assigned, and read by a scan
(`ScanReads`, `ScanChooses`, `ScanAsked`).

### `Accounts` and `CliAuth`

`Accounts`: one account; a request reads the account when it starts (`job[c]`)
and writes when it ends, so that any two overlap. Every handler of the sign-in,
second factor, reset and settings routes is an action. `CliAuth`: a terminal's
request, the polls and the tabs in flight, each with the row it has read;
`Decide`, `Answer`, `collect` write. In the migration deployment the web server
answers the same requests out of the same tables (`web/src/app/api/cli-auth`), so
each poll is one server's or the other's (`poll[p].web`): the web server looks
whether a request has ended before whether it was denied (`WebState`), mints
without counting or revoking anything (`WebCollect`), decides in one statement
(`WebDecide`), and answers some cases with an error (`PollFails`). `uncounted`
(history) holds the tokens it minted that no sign-in with the service has counted
since.

### `Administration`, `Showcase` and `Backups`

| Model | Code |
|---|---|
| `AskPanel`, `Audit`, `Delete`, `Suspend`, `Unsuspend` | the panel's handlers: what they refuse, the audit entry, which is flushed before a deletion and refers to both accounts (`Referred`), and the write |
| `AskPromote`, `AskDemote`, `Promote`, `Demote` | `app.manage` and `promote_configured_admin` |
| `ensure_admin`, `Lock`, `Find`, `Insert`, `Mail`, `Flush`, `BootCommit`, `Crash`, `SignUp` | the first administrator: the check, the lock, the account, the mail, and the commit after the lock is given back |
| `Showcase.Ask`, `Column`, `Commit` | a handler that has read the account, and the columns its UPDATE has |
| `raw`, `partial`, `final` | the three names of a dump in the backup directory |
| `DumpEnds`, `Check`, `GzipEnds`, `Verify`, `Move`, `Upload`, `List`, `Prune` | `backup.sh`, command by command, each of which may fail |
| `RunByHand`, `Interrupt`, `Cut` | a second script, which no lock keeps away, and what a kill leaves running |
| `StartTask`, `Timeout`, `Record`, `KillWorker`, `record_outcome` | `backup_task`, `run_backup` and the row of the health board |

`raced` and `crossed` (history) say that requests overlapped in a way the code
does not guard against; `produced` is the set of dumps that got their name.

### Composition: `MCTriage`, `Requests`, `Operations`, `MCServices`, `MCBackground`

`MCTriage` asks the decision modules questions: each initial state is one
question (an order of versions, a list of events, a policy, a manifest...), and
an invariant says what the answer has to be, by a definition that owes nothing
to the code's: the schema of OSV for events, npm's and PEP 440's meaning of a
range, distance by the recurrence, breadth-first reach for a lock file.

`Requests` (what people and programs ask for: accounts, manifests, settings,
CLI sign-in, the web server's scan) and `Operations` (what the service does by
itself, or its operators do: mirror, feeds, administration, companies, backups)
instantiate the modules and say what each group promises. `MCServices` checks
these promises and the proof modules prove them, word for word the same.

`MCServices` and `MCBackground` put components side by side. A behaviour picks
one (`part`) and explores it; the others stay at rest. They do not interact in
these modules: what one takes from another is a free choice of that module, as
above. `MCServices` holds what may never happen, `MCBackground` what has to
happen in the end, with the fairness of each component.

## What the runs check

| Run | Result | What it shows |
|---|---|---|
| `findings` | passes, 2.3 million states | the findings invariants and action properties, and `LooksAtomic` (the refinement), for two findings in two files and one request |
| `findings_retry` | violated | `alert_service.py` says a digest that could not be sent is retried by the next scan; the next scan finds the finding open already, hence no news, and says nothing |
| `findings_dismissal` | violated | README: "a finding you dismiss stays dismissed across re-scans"; a dismissal committed between a scan's read and its flush is overwritten by the scan |
| `findings_tabs` | violated | README: suppressed findings are browsable, every one; one that was dismissed and reopened is open and suppressed, which is listed nowhere |
| `background` | passes, 77 thousand states | due projects are scanned and stored manifests with them (`SweepComesRound`), scans exclude each other, a waiting terminal is told to stop, a bad package is shown |
| `sweep_contention` | passes, 281 thousand states | two requests and a project whose scan always raises, with a fault: no request hangs |
| `services` | passes, 674 thousand states | 19 invariants and 4 action properties of the decision and of eleven services, below |
| `signals_twice` | violated | `manifests.py` keeps distinct versions of a package as separate entries; when the package has a signal, the scan inserts it twice, is rolled back by the unique constraint, and so is every later one |
| `advisory_lock` | passes, 70 thousand states | a job that does not commit never runs twice at once; a lock left behind on some connection wears off, so that every job runs again and again |
| `advisory_lock_lost` | violated | README and `tasks.py`: a second worker declines the tick; after a commit the sweep's connection is replaced for its age, the lock goes with it, and a second worker sweeps too |
| `sweep_broken` | violated | `tasks.py` says one broken target cannot stop the sweep; the rollback expires the objects of the targets behind it, and the sweep ends at the next one, on every tick |
| `sweep_stale` | violated | `target_service.py` says a replaced manifest is scanned on the next tick; a sweep that loaded the old text commits its scan after the replacement and moves `next_scan_at` a full interval on |

Every violated run checks one sentence of the documentation, quoted with its
place under `findings` in `PROJECT.json`.

The properties of `services`, by what they are about:

| Property | What it says |
|---|---|
| `SemVerIsAnOrder` | `compare` orders npm, Go and crates.io versions totally |
| `NothingAffectedIsMissed` | what OSV's schema calls affected is matched, whatever the order of the events |
| `LowestIsChosen` | the version to upgrade to is the lowest safe one; the version a range is scanned with is the lowest it admits |
| `DangerIsMonotone` | worse news about an advisory, of any number of kinds at once, never quietens it |
| `NothingSilencesTheWorst` | malware and exploitation pass every rule and layer of a policy, and no glob that covers everything comes into force |
| `EngineAgrees` | the Go engine's verdict and fix are the matcher's, unless the two read a glob of the policy differently of that name and the rule has something to silence (`GlobsReadAlike`, `GlobsAreIdle`) (over every list of events, their ranges and fixes are compared by `NothingAffectedIsMissed` and `LowestIsChosen`) |
| `NothingIsHidden` | each match within the depth is in exactly one of the two lists, and the worst reaches the pipeline; no line of a manifest is lost or taken for a development dependency, in any format |
| `MoreSourceNeverHides` | a source file more never makes a dependency look less reachable; "not observed" is said only of what was read to the end |
| `InstalledIsPlaced` | the depth of a package in a lock file is its distance from the project, its exposure that of its most exposed copy |
| `ImitationsAreSeen` | a name one step from a popular one is flagged |
| `NoSessionOutlivesItsPassword`, `RecoveryCodesAreSpent` | up to requests already in flight |
| `CapsHold` | pushes, keys and credentials exceed a limit by no more than the requests that overlap, but for credentials the web server minted since the service last counted |
| `DeniedMeansDenied` | a poll that reads a denial mints nothing |
| `NothingIsReinterpreted` | a manifest row keeps the ecosystem its findings were matched in |
| `ProfilesApply` | a scan runs under rules in force while it read; somebody's first profile applies |
| `WebScanKeepsTheLife`, `HalfScansAreMended` | the web scanner implements `FindingLife` and takes no dismissal back; a scan that is alone leaves the truth |
| `SyncsHideNothing` | a sync hides nothing upstream still stands by; "synced" means found |
| `FeedsKeepUp` | no feed gets stale unless something failed, or the sync lost every turn |
| `SomebodyAdministers` | administrators who delete each other do not both succeed; no administrator is made whose password was not sent, whoever starts together and dies where |
| `NamesAreChecked` | a name that is shown is the one the last approval found, with consent, unless requests about it overlapped |
| `DumpsAreKept` | no dump that is cut off gets the name of one; the newest are kept; "ok" has a dump behind it, and where dumps are uploaded, no error means that the last one was made |

**Bounds.** *Findings*: a finding interacts with another only through the loop
over files and the list of news, so two findings in two files show all of it; one
request in flight, made and repeated at any step, meets every phase of a scan. The
run has no bound on the number of scans or requests: its state space is finite by
itself. *Sweep*: `MaxRequests` and `MaxFaults` bound how often requests and faults
occur in one behaviour; a conflict needs two scans of a project, a deadlock one
scan and one upload, so two requests beside the sweep reach both. `Limit` is 1 in
`background`, so the second target has to wait for a second tick, and 2 where the
position behind a broken target matters. *AdvisoryLock*: three sessions of one
process and as many connections, so that nobody waits for one; a pool of two, so
that the third to be returned is closed; a second process with one connection. A
lock is left behind on one connection and taken again on the same one at most
`MaxHeld` times, which two of each suffice to show; `MaxFaults` is one failed
transaction or killed process. *Questions*: four events on four versions hold two
windows and every overlap; three-part versions with one pre-release token reach
each branch of the orders of `compare`; two findings or two lines are enough for
one to displace another; the lock file has four packages (every graph) and a walk
of depth 3, so that the limit is met. *Accounts*: two browsers and three requests,
with limits of one or two attempts, reach every pair of overlapping handlers
followed by a third; one tick of the clock is enough for a challenge, a link and a
window to end. *CliAuth*: two polls of either server overlap, next to one tab; the
account starts with as many credentials as the cap allows and one of the web
server's above (`WebMachines`), which a further sign-in counts. *Signals*: three
names and batches of one, and a row that is fresh for one run: two names are
within reach, three are not, and the batch may always prefer the wrong one. *Services*: two requests overlap, which is what a count read before
it is written needs; caps are 1 or 2 so that they are met. *Mirror*: three
advisories in chunks of two, two ecosystems, one revision and two syncs: one to
fill, one that may die half way. *Administration*: three accounts, two requests or
two processes; an entry of one deletion holds up the other with two. *Showcase*:
two names and two requests. *Backups*: one dump is kept and three scripts are
started in all, of the worker or by hand, so that one is pruned while another is
written. *FeedSchedule*: the settings' own defaults, in steps of six hours.

**Fairness** (`Sweep`, `AdvisoryLock`, `CliAuth` and `Signals` have liveness
properties). *Sweep*: Time passes for every target (`WF Elapse`); the scheduler
ticks and the worker runs on (`WF Cycle`); a request's handler runs on, and gets a
row lock it waits for in turn, as PostgreSQL queues waiters (`SF` per request);
the deadlock detector resolves a deadlock (`WF AbortVictim`). Faults, new requests
and kills have no fairness. *AdvisoryLock*: the scheduler ticks, a job goes on
after a commit, a session is closed in the end, and connections grow old (weak
fairness); a job makes finitely many commits, so the end of its block, which a
commit disables for a moment, comes (strong fairness). That other sessions ever
start is not assumed. *CliAuth*: a request's ten minutes pass, a poll that was
made is answered (weak), and the CLI's loop polls until it is told something else
than to wait (strong: a poll in flight disables the next; the extension's loop,
`extension.ts:254`, also gives up by itself when its ten minutes are over).
*Signals*: scans and the metadata job come round (weak), and a registry asked
about a package again and again answers in the end. That it is asked is not
assumed, as nothing orders the names the job takes: it follows for names within
reach (`WithinReach`), of which a batch per run, while a row is fresh, takes all.
Nothing is assumed of uploads or of what registries say.

## What is proved

The proofs are for any number of findings, files, projects, requests, processes,
cases and versions, and for any bounds, from the named assumptions the modules
make about their constants. Each assumption is checked by the runs.

| Module | Theorems | Inductive invariant, and what it adds to the properties |
|---|---|---|
| `Findings_proofs` | `TypeCorrect`, `NeverFalselyFixed`, `VerdictsAreCurrent`, `DismissalsAreRespected`, `OpeningIsNews`, `DigestsDoNotRepeat`, `ScanLooksAtomic` | `IInv`: a scan reads a file once; since it read a row only the owner can have moved it, and only to open or dismissed; the session's rows are the reconciliation of what was read; who has been told was told of something that is still news |
| | `ArchiveStaysDated`, `OneBrowserIsDated` | `DatesInv`: the dates a scan has read are the stored ones, and a request that found a finding open has been overtaken by no dismissal |
| `Sweep_proofs` | `SweepTyped`, `OneScanAtATime` | `SweepInv`: an actor that has flushed holds the row lock of its target's manifest |
| `AdvisoryLock_proofs` | `PoolsTyped`, `BackupsExclude` | `PoolInv`: idle connections are distinct, of that process and in nobody's hands. `LockInv`: a lock is held through at most one connection, and a task inside a block that does not commit still has the one it took the lock through |
| `Accounts_proofs` | `PasswordsEndSessions`, `CodesAreSpent` | `AccountsInv`: a request no new password has overtaken has read the current one; a code that was let in is marked, and whoever knows of it has seen the mark |
| `Requests_proofs` | `ManifestsKeepTheirEcosystem` | `ReplacingInv`: what is about to replace a manifest is of the project's ecosystem, too |
| | `RulesInForceAreChosen` | `RulesInv`: a scan that reads has seen what was in force when it began, and sees the rules of this moment |
| | `DenialsHold`, `OverlapIsAllThatPasses` | `RationingInv`, `KeysInv`, `CapInv`: what is there, and what those who have counted may still add, are no more than the limit and the other requests |
| | `ScansMend`, `WebScanIsLife` | `WebInv`: what is left to write follows from what was read, and until somebody else writes, what was read of it is what is stored |
| `Operations_proofs` | `NamesShownAreApproved` | `ShowcaseInv`: a request that was not overtaken has read the row as it is |
| | `SomebodyIsInCharge` | `PanelInv`: who deletes is an administrator still, unless overtaken. `BootInv`: one process at a time has the account inserted, and has mailed its password before it commits |
| | `BackupsCanBeRestored` | `BackupsInv`: no two scripts have one stamp, each script's files are as far as it is, and the newest of the dumps that were made are there |
| | `NothingIsHiddenBySyncs` | `MirrorInv`: what the archive says of an advisory is in the tables, or is still to be read |
| | `FeedsStayFresh` | `FeedsInv`: how old a feed is and how long its job has to wait add up to a bound |
| `Triage_proofs` | `VersionsAreOrdered`, `RangesHaveNoHoles`, `WorseNewsIsTold`, `ProjectsAreWarned`, `ProjectsAreTold`, `EnginesJudgeAlike`, `EnginesAgree`, `SourceOnlyAdds` | none: questions do not depend on each other |
| | `LockIsRead` | `WalkInv`: a queue served in order holds names of at most two distances, the nearer first, and whoever has left it was no farther than who is next |
| `Intake_proofs` | `AdvisoriesAreRead`, `LowestIsAlwaysChosen`, `NothingEverIsHidden`, `ImitationsAreAlwaysSeen` | none either; the arguments are below |

**The scan.** The properties of `Findings` are not inductive by themselves,
because a commit merges rows read much earlier; `IInv` says what can have become
of a row since. `ScanLooksAtomic` is the refinement of `FindingLife`: a commit is
a check of the files scanned, a write of a request is a decision, every other
step is a stutter. `OneScanAtATime` is the premise of that module, so the two
together speak of the whole. `ArchiveStaysDated` is for owners whose requests
about one finding come one after the other (`NoOverlap`), and
`OneBrowserIsDated` for one browser, which is the run: with two requests in
flight, one may have read the status before the other wrote it, and the columns
that one does not consider changed keep the other's values. `WebScanIsLife` is
the refinement for the other scanner. There the abstract step is taken statement
by statement; `ScansMend` needs besides that the scan was alone.

**The services.** `PasswordsEndSessions` is for sign-ins that do not rehash, which
is not a convenience: one that does writes the old password back (below). The
limits (`OverlapIsAllThatPasses`) have one argument: a request that has counted
may still add one, and those that counted below the limit are, with what is
there, at most the limit and all requests but one. For tokens the argument is
over every set of polls of the service, as each revokes what it has counted as
too old: of the tokens that none of them will revoke, those the web server has
minted since none of them counted are left out (`Left`).
`SomebodyIsInCharge` speaks of the panel and of starting processes at once,
which the run explores one after the other. `FeedsStayFresh` is for one scheduler
that refreshes more often than it syncs, and a catalogue that may miss two turns
(`OneScheduler`; the settings' own values are such). KEV is the hard one: after a
turn the refresh lost to a sync, both timers stay an interval's difference apart,
so that the next refresh finds the lock free.

**The decision.** A theorem `[]Asking => []P` says that P holds of every question
that can be asked; what is asked is any version, case, policy, project or source
that `DecisionsAssumption` admits. `IsPolicy` and `IsProject` are no wishes:
`ListsAreNarrow`, `RulesStay` and `SettingsStay` show that the forms keep a row
such, and `ProjectsAreWarned` that every policy made of such rows is one the
other theorems speak of. `VersionsAreOrdered` splits `compare` by the first place
where two versions differ. `WorseNewsIsTold` takes several worsenings at once,
which are more than their sequence, since a case in between need not be one that
occurs. `EnginesAgree` is for versions of three numbers with or without one word
behind them (`IsPlainCase`): both engines compare these alike (the one drops
trailing zeros, the other pads with them), and lists of fixes whose pairs
compare alike have the same lowest. It is, besides, for policies whose globs both
read alike of the dependency's name (`GlobsReadAlike`), or that find nothing to
silence in either reading (`GlobsAreIdle`); `CoveredBy` and `MatchedBy`, the two
readings, are any functions of globs. On other versions and globs the engines do
differ (below).
`LockIsRead` is the argument for breadth first: a shorter chain to a package than
the route it has would have been served before.

**What goes in and comes out.** The theorems of `Intake_proofs` are about lists of
any length, as `IntakeAssumption` admits them. The provers know no induction over
data; it is brought back to numbers. `AllNumbers` says that a set with 0 and the
successor of each member holds every number, by way of its complement's least
element, and it is cited for one position after the other of a list. A fold or a
recursive function is first shown to exist (`FoldExists`, `TableExists`: a
function on the first n positions can be continued by one), and then to have the
invariant it was given at every position (`FoldRuns`). `Kept` and `Sorted` rank
positions by how many come before them; `RankedIs` says once that this gives each
position, in their order.

`AdvisoriesAreRead` follows the events of a range one by one as
`_pair_range_events` takes them. In whatever order they come, a version is in a
window or there are as many ends below it as introductions (`PairedSettles`); in a
real history, whose bounds come in pairs (`IsHistory`), an affected version has
fewer (`AffectedIsOpen`). In order, each window is one of the history's, so
nothing else is affected. `LowestIsAlwaysChosen`: the fold over the fixes keeps a
position that is lowest of those passed, the fixes above an affected version are
safe in the order of the history, and each comparator of a range admits nothing
below its floor; it speaks of npm ranges without pre-releases, which is what
`IsComparator` says, and of ranges of which every branch has a floor.
`NothingEverIsHidden`: the positions in the flattened list of decisions are a
bijection with the pairs in reach (`FlattenedIs`), the two filters split those
that cover something, and sorting loses none; counts of a filtered list are those
of the list (`KeptCounts`), and a sorted list starts with its most urgent; each
format's reader keeps its lines until `Dedupe`, which takes the most exposed.
`ImitationsAreAlwaysSeen`: once a whole row of the table is above the limit every
later row is (`RowsGrow`), and names whose lengths differ by more are as far apart
(`LengthsTell`), so that giving up gives up only what ends above the limit; a swap
is at most two edits (`SwapIsNear`).

**Only model-checked.** Every invariant and every action property of the passing
runs is proved. What is left to TLC are the liveness properties
(`SweepComesRound`, `TerminalStops`, `BadPackagesAreShown`, `RequestsEnd`,
`LeakedLocksWearOff`), as fairness and ENABLED are out of the prover's reach, and
what the runs expected to be violated show.

## What the modelling brought up

Every sentence here is about the code as it stands; those with a run are under
`findings` in `PROJECT.json`. The others are outside what the properties claim,
which is why the properties are worded as they are.

*Decision.* Maven's order has a cycle among qualifiers and missing numbers
(1-sp < 1.0-rc < 1 < 1-sp), so `SemVerIsAnOrder` is about the others. Events that
are not in the order of versions may report too much, and two introductions in a
row leave an unbounded window. `1.0.0 || <0.5` is reported as exact, and a union
with an unbounded branch has a floor all the same (`Resolvable` in
`LowestIsChosen`). A policy file that cannot be read is
skipped: a finding that only its stricter threshold would have shown is hidden,
although `rules_service.py:120-121` says that this can only produce more alerts.
Globs such as `***` pass `MATCHES_EVERYTHING` and silence every package; a
severity threshold of "unknown" is accepted. The settings store the EPSS
threshold as a percentage (`internal_projects.py:776`, the web server's
thresholds route), and `matching.py:317` compares it with a probability, so that
a setting above 1 never fires. Malware carries no severity and sorts last, so
with more than `MAX_INLINE_FINDINGS` others it is counted but not spelled out.

*Globs.* A rule of the project that ignores packages by a glob is read by
`fnmatch.translate` in `matching.py:187` and by `filepath.Match` in `rules.go:59`.
In the first, `*` and `?` cross a slash; in the second they do not, and a pattern
it cannot read covers nothing. `@acme*` ignores `@acme/lib`, and
`github.com/acme/*` ignores `github.com/acme/repo/v2`, in Python and not in Go; a
bracket negated by `!` is a negation to the one and a member to the other, so that
it goes the other way, too. A shadow scan reports such findings as differences.
`EngineAgrees` excepts them: without its premise about globs it is violated by a
scoped npm name and `@acme*`.

*Formats.* A version-1 lock file keeps the deeper of two copies; Cargo drops a
registry crate named like a workspace member; a Gradle line that names no
configuration is a development dependency; what no route reaches in an npm lock
has depth 1. The engine's reading of a lock file depends on the order of a Go map
(`helpers.go:33`), its order puts "alpha" above "alpha.1", and it ranks an import
by another package above one by the project and calls an incomplete bundle not
observed. Which of two popular names a typosquat is compared with first depends
on the order of a set.

*Accounts.* The second factor's attempts are counted by user id and those of the
settings pages by e-mail. A sign-in that rehashes the password while it is being
reset writes the old one back (`Rehashes` is FALSE in the run). Two submissions of
one reset link both pass when they overlap; changing the password leaves reset
links and challenges standing; overlapping regenerations leave two sets of
recovery codes. One approval of a CLI request may mint two tokens under
overlapping polls. The web server's poll (`web/src/app/api/cli-auth/poll/route.ts:8-10`)
counts no tokens and revokes none, so that sign-ins one after the other pass
`MAX_TOKENS_PER_ACCOUNT` (`cli_auth_service.py:354-366`), until one goes to the
service; with `uncounted` dropped from `TokensAreCapped` the run says so without
any overlap. It mints as well for a request that was deleted since it was read.

*Projects.* A push whose text equals what was stored when its key was checked is
answered "unchanged" although the file was replaced since. The web server's
manifest route, between the service's reading and writing, leaves the project's
copy different from the manifest, and has no check for a manifest without
dependencies. It saves profiles that cannot be parsed, though `models.py:1585` says they are
refused. A key cannot be rotated at the cap. Deleting the default profile leaves
none.

*Feeds.* The metadata job fills its batch with the first names that are due
(`package_metadata_service.py:62-83`), in whatever order the database returns
them: of more names than fall due in `BATCH_LIMIT` a run, some may never be asked
about, and what is wrong with them never shown; without `WithinReach`,
`BadPackagesAreShown` is violated so. The sync can lose every turn to the refresh that starts at the same
instant; a corrupt EPSS file rolls back KEV's rows as well; with two schedulers
KEV may get 27 hours old; a worker restarted more often than every twelve hours
never syncs the mirror. A web scan clears `notified_at` of what resurfaces and
tells nobody.

*Administration.* `is_last_admin` counts administrators who are suspended, which
a promotion from a shell can make of anybody; demotions that overlap leave none
(`raced`). `ensure_admin` gives its lock back before its caller commits: two
processes may both insert the account, and the address, which is unique, is what
stops the second. Its key (`bootstrap_service.py:52-55`, "the values cannot
collide") is the number of `LOCK_PACKAGE_METADATA` (`tasks.py:53`): a process that
starts while the metadata job runs, or has left its lock on a pooled connection,
is told that another one is making the administrator, and makes none (`Lock` may
decline for that reason). The panel's approval of a company does not say which name it
is for: a rename in between, on the page or in flight (`crossed`), has the new
name approved.

*Backup.* `backup.sh` exits with 1 when `pg_dump` fails, when the dump is cut off
and when `gzip -t` fails, as well as when the upload does, and
`backup_service.py:119-122` takes 0 and 1 for "dump is good". As long as some
older dump is there, a dump that failed is recorded as a success, of the older
one's size, and where no bucket is configured without an error: the board says
"ok", although `DEPLOY.md:604` says that it reads `failing` then. `DumpsAreKept`
claims it for deployments with a bucket only, where the message is the wrong one
but there is one; with `Bucket` FALSE and that condition dropped, it is violated
in nine steps. `DEPLOY.md:560-561` says that without a bucket the row reads
`failing` anyway, which `backup_task` does not do. A script run by hand deletes
the unfinished files of another one (`Prune`), which then fails.

## Plan

1. Written: all modules above, and proofs of every property that needs no
   fairness.
2. Worth proving next: the row locks of `Sweep` beyond exclusion (who holds two of
   them at once, and in which order, which is what `sweep_contention` is about);
   ranges with pre-releases, which `IsComparator` leaves out; `FeedsKeepUp` for
   several schedulers and a catalogue that may miss more turns than two.
3. Open in the models: projects deleted and paused under a sweep; the handlers
   that read an expired project after a rollback.

## What is not modelled

The reading of text: JSON, XML, TOML, YAML, JavaScript and version strings are
what their readers make of them. PyPI's order beyond releases is the packaging
library's. Registries, mail, Discord and payment are external, an outcome each.
Signing up, the age of sessions, the purge of dead rows, renaming a profile,
removing a rule and pausing a project are single-row writes no property is about;
`add_manifest` and `remove_manifest` are called by no route. Plans, billing and
the rest of administration are queries and single-row writes; pages,
documentation, styles and the editor extension render.
`PROJECT.json` says the same component by component.
