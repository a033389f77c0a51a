------------------------------ MODULE Signals ------------------------------
(***************************************************************************)
(* Supply-chain signals of one project: the job that asks the registries   *)
(* about tracked packages, the cache it fills, and what each scan stores   *)
(* of it.  SupplyChain says which signals a package raises; here a package *)
(* raises one by its name, and another one when its registry knows         *)
(* something bad of it.                                                    *)
(*                                                                         *)
(* The job and the scan each read and write in one transaction, and the    *)
(* job's own lock keeps it single.                                         *)
(***************************************************************************)
EXTENDS Naturals, FiniteSets

CONSTANTS
  Name,          \* the packages of npm and PyPI
  Lookalike,     \* those whose name raises a signal
  Resolvable,    \* what a lockfile may resolve to: pairs of a name and a version
  Elsewhere,     \* the names other projects have resolved to
  Reproached,    \* bound: the packages a registry may have something bad to say of
  BATCH_LIMIT,
  FreshRuns      \* the runs of the job, one an hour, that find a row younger than
                 \* package_metadata_ttl_days

Kind == {"typosquat", "metadata"}

SignalsAssumption ==
  /\ IsFiniteSet(Name) /\ Lookalike \subseteq Name /\ Reproached \subseteq Name
  /\ \A d \in Resolvable : d[1] \in Name
  /\ Elsewhere \subseteq Name
  /\ BATCH_LIMIT \in Nat \ {0} /\ FreshRuns \in Nat \ {0}

VARIABLES
  manifest,   \* what the project resolves to: names with versions
  registry,   \* the packages the registries say something bad of
  tracked,    \* the names of the rows of dependencies, of every project
  cache,      \* the rows of package_metadata: their age in runs, and what the registry answered
  signals,    \* the rows of supply_chain_findings: package and kind
  crashed,    \* the last scan ended in an IntegrityError
  since       \* the runs of the job since the project was scanned

vars == <<manifest, registry, tracked, cache, signals, crashed, since>>

NotCached == [age |-> 0, facts |-> "none"]

\* The owner uploads a lockfile with a package more or less; one that differs in
\* several is several uploads in a row.
Upload ==
  /\ \E d \in Resolvable : manifest' = (manifest \ {d}) \cup ({d} \ manifest)
  /\ UNCHANGED <<registry, tracked, cache, signals, crashed, since>>

\* A release is deprecated, a maintainer leaves; or the opposite.
RegistryChanges(n) ==
  /\ registry' = (registry \ {n}) \cup ({n} \ registry)
  /\ UNCHANGED <<manifest, tracked, cache, signals, crashed, since>>

\* (Variant: a package that was asked about and got no answer is not asked again.)
Old(n) == cache[n].age = FreshRuns
DueUnlessFailed(n) == n \in tracked /\ (cache[n].facts = "none" \/ (cache[n].facts # "error" /\ Old(n)))
Due(n) == n \in tracked /\ (cache[n].facts = "none" \/ Old(n))

\* The names come in no order, and the first of those that are due are asked
\* about, as many as the batch holds: which ones, and whether the same are
\* passed over again, is the database's choice.
Batches ==
  LET due == {n \in Name : Due(n)}
  IN  {b \in SUBSET due : Cardinality(b) <= BATCH_LIMIT /\ (b = due \/ Cardinality(b) = BATCH_LIMIT)}

\* The job of an hour.  A request that fails leaves a row that says so, and what
\* it held before is not read any more.  A project is scanned oftener than a row
\* grows old.
refresh_package_metadata(wanted, answered) ==
  /\ since < FreshRuns /\ since' = since + 1
  /\ cache' = [n \in Name |->
       IF n \in answered THEN [age |-> 0, facts |-> IF n \in registry THEN "bad" ELSE "fine"]
       ELSE IF n \in wanted THEN [age |-> 0, facts |-> "error"]
       ELSE [cache[n] EXCEPT !.age = IF cache[n].facts # "none" /\ @ < FreshRuns THEN @ + 1 ELSE @]]
  /\ UNCHANGED <<manifest, registry, tracked, signals, crashed>>

-----------------------------------------------------------------------------
\* Nothing, when the registry was not asked or did not answer.
facts_for(n) == IF cache[n].facts \in {"none", "error"} THEN {} ELSE {cache[n].facts}

assess(n) ==
  {k \in Kind : \/ k = "typosquat" /\ n \in Lookalike
                \/ k = "metadata" /\ "bad" \in facts_for(n)}

\* Every dependency that raises a signal: its kind, and whether a row is there.
\* The rows that were read are not added to while it runs.
Raised == {<<d, k>> \in manifest \X Kind : k \in assess(d[1])}
Inserted == {r \in Raised : <<r[1][1], r[2]>> \notin signals}
Seen == {<<r[1][1], r[2]>> : r \in Raised}

\* Two of the rows to be inserted have one package and kind.
Twice == \E r, s \in Inserted : r # s /\ r[1][1] = s[1][1] /\ r[2] = s[2]

reconcile_signals ==
  /\ ~Twice
  /\ signals' = Seen
  /\ tracked' = Elsewhere \cup {d[1] : d \in manifest}
  /\ crashed' = FALSE
  /\ since' = 0
  /\ UNCHANGED <<manifest, registry, cache>>

\* uq_supply_chain_identity: the scan is rolled back.
ScanCrashes ==
  /\ Twice
  /\ crashed' = TRUE
  /\ since' = 0
  /\ UNCHANGED <<manifest, registry, tracked, cache, signals>>

Init ==
  /\ manifest = {} /\ registry \in SUBSET Reproached /\ tracked = Elsewhere /\ signals = {}
  /\ cache = [n \in Name |-> NotCached]
  /\ crashed = FALSE /\ since = 0

Scan == reconcile_signals \/ ScanCrashes
Refresh == \E wanted \in Batches : \E answered \in SUBSET wanted : refresh_package_metadata(wanted, answered)
Next ==
  \/ Upload \/ Scan \/ Refresh
  \/ \E n \in Reproached : RegistryChanges(n)

Asks(n) ==
  \E wanted \in Batches : n \in wanted /\ \E answered \in SUBSET wanted : refresh_package_metadata(wanted, answered)
Answers(n) ==
  \E wanted \in Batches : n \in wanted /\
    \E others \in SUBSET (wanted \ {n}) : refresh_package_metadata(wanted, others \cup {n})

\* The job runs and scans come, hour after hour, and a registry that is asked
\* about a package again and again answers at last.  Of the choice of those
\* that are asked about nothing is assumed.
Fairness ==
  /\ WF_vars(Scan) /\ WF_vars(Refresh)
  /\ \A n \in Name : <>[][~Asks(n)]_vars \/ []<><<Answers(n)>>_vars

Spec == Init /\ [][Next]_vars /\ Fairness

-----------------------------------------------------------------------------
\* So many names the job gets round: those it asks about while a row is fresh,
\* and in the run that finds it old.
WithinReach(T) == Cardinality(T) <= BATCH_LIMIT * (FreshRuns + 1)

\* A package that stays in the lockfile with something bad known of it is shown
\* again and again, whichever packages each batch prefers and whoever did not
\* answer before, as long as there are no more packages than the job gets
\* round; no package is there in two versions.
Resolved(n) == \E d \in manifest : d[1] = n
BadPackagesAreShown ==
  \A n \in Reproached : \A T \in {S \in SUBSET Name : n \in S /\ WithinReach(S)} :
    <>[](/\ n \in registry /\ Resolved(n) /\ tracked \subseteq T
         /\ \A d, e \in manifest : d[1] = e[1] => d = e)
      => []<>(<<n, "metadata">> \in signals)

\* A scan of a lockfile that can be read is stored, also when a package is in
\* it in two versions.
ScansAreStored == ~crashed
=============================================================================
