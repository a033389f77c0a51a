------------------------------- MODULE Mirror -------------------------------
(***************************************************************************)
(* The local advisory mirror: the tables vulnerabilities and               *)
(* vulnerability_affected, filled from OSV's exports one ecosystem after   *)
(* the other and one committed chunk after the other, and looked up by the *)
(* scans in between.                                                       *)
(*                                                                         *)
(* Upstream publishes and revises advisories at any time; a sync works on  *)
(* the archive it has downloaded, which carries every advisory that        *)
(* concerns the ecosystem at all.  Advisory texts, version ranges and      *)
(* entries that cannot be read are left out; the job's lock lets one sync  *)
(* run at a time (AdvisoryLock, FeedSchedule).                             *)
(***************************************************************************)
EXTENDS Naturals, FiniteSets, Sequences

CONSTANTS
  Advisory,
  MIRRORED_ECOSYSTEMS,   \* in the order in which they are synced
  Package,               \* every package has a name and an ecosystem
  EcosystemOf(_),
  UPSERT_CHUNK,
  MaxRevisions,          \* bound: times upstream changes an advisory
  MaxSyncs               \* bound: runs of the job

MirrorAssumption ==
  /\ IsFiniteSet(Advisory) /\ IsFiniteSet(Package)
  /\ UPSERT_CHUNK \in Nat \ {0}
  /\ MaxRevisions \in Nat /\ MaxSyncs \in Nat

VARIABLES
  osv,       \* what upstream says of each advisory now
  records,   \* the rows of vulnerabilities
  index,     \* the rows of vulnerability_affected
  feed,      \* the rows of feed_syncs: the run that last synced an ecosystem, 0 for none
  sync,      \* the run of the job: the ecosystem it is at, its archive, what it has still to read
  revised,   \* changes upstream so far
  runs       \* runs so far

vars == <<osv, records, index, feed, sync, revised, runs>>

Ecosystem == {MIRRORED_ECOSYSTEMS[i] : i \in DOMAIN MIRRORED_ECOSYSTEMS}

\* An advisory: the packages it affects, and whether it was retracted.  One
\* that affects nothing we know of normalizes to nothing.
Text == [affected : SUBSET Package, withdrawn : BOOLEAN]
Absent == [affected |-> {}, withdrawn |-> FALSE]
Nothing == [a \in Advisory |-> Absent]

NoSync == [at |-> 0, archive |-> Nothing, rest |-> <<>>, stored |-> 0, done |-> {}]

Carries(e, text) == \E p \in text.affected : EcosystemOf(p) = e
\* The entries of an archive come in no particular order.
Orders(S) == {s \in [1..Cardinality(S) -> S] : \A i, j \in DOMAIN s : s[i] = s[j] => i = j}

-----------------------------------------------------------------------------
\* Upstream publishes an advisory, names other packages, or retracts it.
Revise(a) ==
  /\ revised < MaxRevisions
  /\ revised' = revised + 1
  /\ \E text \in Text : text # osv[a] /\ osv' = [osv EXCEPT ![a] = text]
  /\ UNCHANGED <<records, index, feed, sync, runs>>

\* sync_all_ecosystems begins, under the job's lock.
BeginSync ==
  /\ sync.at = 0 /\ runs < MaxSyncs
  /\ runs' = runs + 1
  /\ sync' = [NoSync EXCEPT !.at = 1]
  /\ UNCHANGED <<osv, records, index, feed, revised>>

Syncing == sync.at \in DOMAIN MIRRORED_ECOSYSTEMS
Downloaded == Syncing /\ sync.archive # Nothing
Current == MIRRORED_ECOSYSTEMS[sync.at]

\* The next ecosystem has its turn, whatever became of this one.
Onward(done) == sync' = [NoSync EXCEPT !.at = sync.at + 1, !.done = done]

_download ==
  /\ Syncing /\ ~Downloaded
  /\ LET carried == {a \in Advisory : Carries(Current, osv[a])} IN
     /\ carried # {}
     /\ \E order \in Orders(carried) :
          sync' = [sync EXCEPT !.archive = [a \in Advisory |-> IF a \in carried THEN osv[a] ELSE Absent],
                               !.rest = order]
  /\ UNCHANGED <<osv, records, index, feed, revised, runs>>

\* The server does not answer, the archive is no zip file, or it holds nothing
\* usable: the previous contents stand, and so do the chunks already stored.
SyncFails ==
  /\ Syncing
  /\ Onward(sync.done)
  /\ UNCHANGED <<osv, records, index, feed, revised, runs>>

-----------------------------------------------------------------------------
Chunk == {sync.rest[i] : i \in {k \in DOMAIN sync.rest : k <= UPSERT_CHUNK}}

\* (Variant: the table is emptied first.)
ReindexedAfresh(chunk, texts) == {row \in chunk \X Package : row[2] \in texts[row[1]].affected}

\* Replaced wholesale.
Reindexed(chunk, texts) ==
  {row \in index : row[1] \notin chunk} \cup {row \in chunk \X Package : row[2] \in texts[row[1]].affected}

\* One transaction: the records, then their index rows.
upsert_vulnerabilities(chunk, texts) ==
  /\ records' = [a \in Advisory |-> IF a \in chunk THEN texts[a] ELSE records[a]]
  /\ index' = Reindexed(chunk, texts)

\* What earlier ecosystems noted on their rows is committed with it.
Marked(done) == feed' = [e \in Ecosystem |-> IF e \in done THEN runs ELSE feed[e]]

\* A chunk is stored as soon as it is full, the last one when the archive ends.
_flush ==
  /\ Downloaded /\ sync.rest # <<>>
  /\ upsert_vulnerabilities(Chunk, sync.archive)
  /\ Marked(sync.done)
  /\ sync' = [sync EXCEPT !.rest = SubSeq(@, Cardinality(Chunk) + 1, Len(@)),
                          !.stored = @ + Cardinality(Chunk)]
  /\ UNCHANGED <<osv, revised, runs>>

\* (Variant: what is left over when the archive ends is not stored.)
StoredAllFull == Len(sync.rest) < UPSERT_CHUNK
StoredAll == sync.rest = <<>>

Success ==
  /\ Downloaded /\ StoredAll /\ sync.stored # 0
  /\ Onward(sync.done \cup {Current})
  /\ UNCHANGED <<osv, records, index, feed, revised, runs>>

EndSync ==
  /\ sync.at = Len(MIRRORED_ECOSYSTEMS) + 1
  /\ Marked(sync.done)
  /\ sync' = NoSync
  /\ UNCHANGED <<osv, records, index, revised, runs>>

\* The worker is killed: what is committed stays.
Kill ==
  /\ sync.at # 0
  /\ sync' = NoSync
  /\ UNCHANGED <<osv, records, index, feed, revised, runs>>

Init ==
  /\ osv \in [Advisory -> {text \in Text : ~text.withdrawn}]
  /\ records = Nothing /\ index = {}
  /\ feed = [e \in Ecosystem |-> 0]
  /\ sync = NoSync
  /\ revised = 0 /\ runs = 0

Next ==
  \/ \E a \in Advisory : Revise(a)
  \/ BeginSync \/ _download \/ SyncFails \/ _flush \/ Success \/ EndSync \/ Kill

Spec == Init /\ [][Next]_vars

-----------------------------------------------------------------------------
\* The candidates a scan gets for a package: one query, the advisories that
\* name it and were not retracted.
find_local_vulnerabilities(p) == {a \in Advisory : <<a, p>> \in index /\ ~records[a].withdrawn}

\* A scan in the middle of a sync, or after one that died, misses nothing that
\* scans found before, unless upstream has retracted it or taken the package
\* out of it.
NeverEmptier ==
  [][\A p \in Package : \A a \in find_local_vulnerabilities(p) :
       a \in find_local_vulnerabilities(p)'
         \/ sync.archive[a].withdrawn \/ p \notin sync.archive[a].affected]_vars

\* An ecosystem counts as synced only when a scan finds every advisory of the
\* export for every package it names, however the chunks were cut and whatever
\* the other ecosystems' exports said of it before.
SyncedMeansSearchable ==
  [][\A e \in sync'.done \ sync.done : \A a \in Advisory : \A p \in sync.archive[a].affected :
       (a \in find_local_vulnerabilities(p)') = ~sync.archive[a].withdrawn]_vars
=============================================================================
