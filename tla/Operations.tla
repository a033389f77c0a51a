----------------------------- MODULE Operations -----------------------------
(***************************************************************************)
(* What keeps a deployment going promises, side by side: the advisory      *)
(* mirror and the schedule of the feeds, who administers it, whose name it *)
(* shows, and its backups.                                                 *)
(***************************************************************************)

CONSTANTS
  Advisory, MIRRORED_ECOSYSTEMS, Package, EcosystemOf(_), UPSERT_CHUNK,   \* Mirror
  MaxRevisions, MaxSyncs,
  Scheduler, kev_refresh_hours, epss_refresh_hours, mirror_refresh_hours,    \* FeedSchedule
  KevStaleAfter, mirror_stale_after_hours, Faults, Step,
  User, Configured, Clerk, Process,                                       \* Administration
  Name, Editor,                                                           \* Showcase
  Runner, BACKUP_KEEP, HasBucket, MaxScripts                                 \* Backups

VARIABLES
  \* Mirror
  osv, records, index, feed, sync, revised, syncs,
  \* FeedSchedule
  up, wait, running, age, excuse, lost,
  \* Administration
  people, errand, boot, holder, password, mailed, raced,
  \* Showcase
  company, edit, checked, consent, crossed,
  \* Backups
  raw, partial, final, script, task, stamps, health, produced

D == INSTANCE Mirror WITH runs <- syncs
F == INSTANCE FeedSchedule WITH Worker <- Scheduler
U == INSTANCE Administration WITH Request <- Clerk, row <- people, job <- errand
H == INSTANCE Showcase WITH Request <- Editor, account <- company, request <- edit, asked <- consent
B == INSTANCE Backups WITH Bucket <- HasBucket

-----------------------------------------------------------------------------

\* Mirror: a scan during a sync, or after one that died, finds what scans found
\* before, unless upstream took it back; and when an ecosystem counts as synced,
\* all of its export is found.
SyncsHideNothing == D!NeverEmptier /\ D!SyncedMeansSearchable
\* FeedSchedule: no feed gets stale without something going wrong, or the sync
\* losing every turn.
FeedsKeepUp == F!FeedsKeepUp
\* Administration: the panel never loses its last administrator, and none is
\* made whose password nobody was sent.
SomebodyAdministers == U!SomebodyAdministers
\* Showcase: a name is shown that was approved, with its owner's consent.
NamesAreChecked == H!NamesAreChecked
\* Backups: what goes by the name of a dump is whole, the newest are kept, and
\* where dumps are uploaded, a board without an error has the last one behind it.
DumpsAreKept == B!DumpsAreKept
=============================================================================
