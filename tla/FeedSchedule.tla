---------------------------- MODULE FeedSchedule ----------------------------
(***************************************************************************)
(* How the KEV catalogue, the EPSS scores and the advisory mirror are kept *)
(* current: two interval jobs per scheduler, which share one advisory lock *)
(* and give up when it is taken, and one refresh when a worker starts.     *)
(*                                                                         *)
(* Time passes in steps of Step hours and jobs take less than that.  A     *)
(* feed refreshed at one step is a little younger than the whole number of *)
(* hours at a later one, so an age is only compared from above.  The lock  *)
(* is released when its holder ends (AdvisoryLock says when that fails).   *)
(***************************************************************************)
EXTENDS Naturals, FiniteSets

CONSTANTS
  Worker,               \* the processes that run a scheduler
  kev_refresh_hours, epss_refresh_hours, mirror_refresh_hours,
  KevStaleAfter,        \* what the status page and /readyz allow the catalogue
  mirror_stale_after_hours,
  Faults,               \* what may go wrong: "kev", "epss", "corrupt", "osv", "stop"
  Step                  \* hours that pass at a time; divides the intervals

Job == {"refresh_feeds", "sync_mirror"}
Feed == {"kev", "epss", "mirror"}

FeedScheduleAssumption ==
  /\ IsFiniteSet(Worker)
  /\ Step \in Nat \ {0}
  /\ \A h \in {kev_refresh_hours, epss_refresh_hours, mirror_refresh_hours} : h \in Nat /\ h % Step = 0
  /\ KevStaleAfter \in Nat /\ mirror_stale_after_hours \in Nat
  /\ Faults \subseteq {"kev", "epss", "corrupt", "osv", "stop"}

VARIABLES
  up,       \* the workers whose scheduler runs
  wait,     \* hours until each job of each worker is due
  running,  \* the jobs that have the lock, with what they have still to do
  age,      \* hours since each feed last succeeded
  excuse,   \* history: the feeds something went wrong for since they last succeeded
  lost      \* history: the turns the sync has lost to the other job since it last succeeded

vars == <<up, wait, running, age, excuse, lost>>

Interval(job) == IF job = "refresh_feeds" THEN kev_refresh_hours ELSE mirror_refresh_hours
\* Older than this is all the same.
Oldest == mirror_stale_after_hours + Step

is_stale(feed, max_age) == age[feed] > max_age
\* (Variant: both feeds of the job have the daily one's maximum age.)
KevDueDaily == is_stale("kev", epss_refresh_hours)
KevDue == is_stale("kev", kev_refresh_hours)

-----------------------------------------------------------------------------
\* The job is due; without the lock it is over, and due again an interval later.
Begin(w, job, stage) ==
  IF running = {} THEN running' = {[worker |-> w, job |-> job, stage |-> stage]}
  ELSE running' = running

Patience == mirror_stale_after_hours \div mirror_refresh_hours

Fire(w, job) ==
  /\ w \in up /\ wait[w][job] = 0
  /\ lost' = IF job = "sync_mirror" /\ running # {} /\ lost < Patience THEN lost + 1 ELSE lost
  /\ wait' = [wait EXCEPT ![w][job] = Interval(job)]
  /\ Begin(w, job, IF job = "refresh_feeds" THEN "kev" ELSE "osv")
  /\ UNCHANGED <<up, age, excuse>>

\* A worker starts: its intervals begin, and the feeds are refreshed at once.
Start(w) ==
  /\ w \notin up
  /\ up' = up \cup {w}
  /\ wait' = [wait EXCEPT ![w] = [job \in Job |-> Interval(job)]]
  /\ Begin(w, "refresh_feeds", "kev")
  /\ UNCHANGED <<age, excuse, lost>>

\* It is stopped, or it dies with what it had not committed.
Stop(w) ==
  /\ "stop" \in Faults /\ w \in up
  /\ up' = up \ {w}
  /\ running' = {r \in running : r.worker # w}
  /\ excuse' = Feed
  /\ UNCHANGED <<wait, age, lost>>

-----------------------------------------------------------------------------
\* The rows of the catalogue are stored, but not committed before the scores
\* have been fetched too.
refresh_kev_catalog(r) ==
  /\ r \in running /\ r.stage = "kev"
  /\ \/ ~KevDue /\ running' = {[r EXCEPT !.stage = "epss"]} /\ UNCHANGED excuse
     \/ KevDue /\ running' = {[r EXCEPT !.stage = "epss_kev_stored"]} /\ UNCHANGED excuse
     \/ KevDue /\ "kev" \in Faults
          /\ running' = {[r EXCEPT !.stage = "epss"]}
          /\ excuse' = excuse \cup {"kev"}
  /\ UNCHANGED <<up, wait, age, lost>>

Committed(r, feeds) ==
  LET fresh == feeds \cup (IF r.stage = "epss_kev_stored" THEN {"kev"} ELSE {}) IN
  /\ age' = [f \in Feed |-> IF f \in fresh THEN 0 ELSE age[f]]
  /\ excuse' = excuse \ fresh

\* A file that is no gzip to the end raises what nobody expects: the whole
\* job is rolled back.
refresh_epss_scores(r) ==
  /\ r \in running /\ r.stage \in {"epss", "epss_kev_stored"}
  /\ running' = {}
  /\ LET due == is_stale("epss", epss_refresh_hours) IN
     \/ ~due /\ Committed(r, {})
     \/ due /\ Committed(r, {"epss"})
     \/ due /\ "epss" \in Faults /\ Committed(r, {})
     \/ due /\ "corrupt" \in Faults /\ UNCHANGED age
          /\ excuse' = IF r.stage = "epss" THEN excuse ELSE excuse \cup {"kev"}
  /\ UNCHANGED <<up, wait, lost>>

sync_mirror(r) ==
  /\ r \in running /\ r.stage = "osv"
  /\ running' = {}
  /\ \/ /\ age' = [age EXCEPT !["mirror"] = 0]
        /\ excuse' = excuse \ {"mirror"}
        /\ lost' = 0
     \/ "osv" \in Faults /\ excuse' = excuse \cup {"mirror"} /\ UNCHANGED <<age, lost>>
  /\ UNCHANGED <<up, wait>>

Settled == running = {} /\ \A w \in up : \A job \in Job : wait[w][job] # 0

Pass ==
  /\ Settled
  /\ wait' = [w \in Worker |-> [job \in Job |-> IF w \in up THEN wait[w][job] - Step ELSE 0]]
  /\ age' = [f \in Feed |-> IF age[f] >= Oldest THEN Oldest ELSE age[f] + Step]
  /\ UNCHANGED <<up, running, excuse, lost>>

\* A worker was just started on a database whose feeds are seeded.
Init ==
  /\ \E w \in Worker :
       /\ up = {w}
       /\ running = {[worker |-> w, job |-> "refresh_feeds", stage |-> "kev"]}
       /\ wait = [v \in Worker |-> [job \in Job |-> IF v = w THEN Interval(job) ELSE 0]]
  /\ age = [f \in Feed |-> 0]
  /\ excuse = {}
  /\ lost = 0

Next ==
  \/ Pass
  \/ \E w \in Worker : Start(w) \/ Stop(w) \/ \E job \in Job : Fire(w, job)
  \/ \E r \in running : refresh_kev_catalog(r) \/ refresh_epss_scores(r) \/ sync_mirror(r)

Spec == Init /\ [][Next]_vars

-----------------------------------------------------------------------------
\* Although the job comes round when the catalogue is just young enough to be
\* left alone, loses the lock to a sync at the next turn, and may find the
\* scores unreachable, the catalogue never gets so old that the status page
\* calls it stale: unless CISA was down, the scores' file was corrupt, or the
\* scheduler was stopped.  Nor does the mirror, unless the export was down, the
\* scheduler was stopped, or the sync lost every turn it had to the other job.
FeedsKeepUp ==
  /\ is_stale("kev", KevStaleAfter) => "kev" \in excuse
  /\ is_stale("mirror", mirror_stale_after_hours) => "mirror" \in excuse \/ lost = Patience
=============================================================================
