----------------------------- MODULE MCBackground -----------------------------
(* What must come to an end or come round again, side by side: a behaviour is *)
(* that of the sweep, of the CLI sign-in or of the supply-chain signals,      *)
(* chosen at the start, each under the fairness its module states.            *)
EXTENDS MCSweep

CONSTANTS
  Parts,      \* the components that are explored
  Versions    \* those a package may be resolved to

VARIABLES
  part,
  \* CliAuth
  request, tokens, account, poll, decision, answers, polls, uncounted,
  \* Signals
  manifest, registry, tracked, cache, signals, crashed, since

C == INSTANCE CliAuth WITH
  Terminal <- {"t1"}, Poller <- {"p1"}, Tab <- {"b1"},
  MAX_TOKENS_PER_ACCOUNT <- 1, Machines <- 1, WebMachines <- 1, MaxPolls <- 1

\* One of three names looks like another package's, of another one the registry
\* has something bad to say, and a third is another project's; the job gets
\* round two of them.
Names == {"a", "b", "c"}
G == INSTANCE Signals WITH
  Name <- Names, Lookalike <- {"b"}, Reproached <- {"a"},
  Resolvable <- {<<"a", 1>>} \cup {<<"b", v>> : v \in Versions}, Elsewhere <- {"c"},
  BATCH_LIMIT <- 1, FreshRuns <- 1

ASSUME C!CliAuthAssumption /\ G!SignalsAssumption

SweepVars == <<content, checked, unset, past, lockM, lockT, job, outdated,
               sweeping, batch, snap, expired, requests, faults>>
CliVars == <<request, tokens, account, poll, decision, answers, polls, uncounted>>
SignalVars == <<manifest, registry, tracked, cache, signals, crashed, since>>

\* Where the signals begin in more than one way, the one they stay at.
BackgroundInit ==
  /\ part \in Parts
  /\ Init /\ C!Init
  /\ G!Init /\ (part # "signals" => registry = {})

SweepStep == part = "sweep" /\ Next /\ UNCHANGED part /\ UNCHANGED CliVars /\ UNCHANGED SignalVars
CliStep == part = "sign-in" /\ C!Next /\ UNCHANGED part /\ UNCHANGED SweepVars /\ UNCHANGED SignalVars
SignalStep == part = "signals" /\ G!Next /\ UNCHANGED part /\ UNCHANGED SweepVars /\ UNCHANGED CliVars

BackgroundNext == SweepStep \/ CliStep \/ SignalStep

\* The fairness of each component, for as long as it is the one that runs.
SweepFairness ==
  /\ \A t \in Target : WF_SweepVars(part = "sweep" /\ Elapse(t))
  /\ WF_SweepVars(part = "sweep" /\ Cycle)
  /\ \A w \in Browser : SF_SweepVars(part = "sweep" /\ (Scan(w) \/ Store(w)))
  /\ WF_SweepVars(part = "sweep" /\ \E a \in Actor : AbortVictim(a))

CliFairness ==
  /\ WF_CliVars(part = "sign-in" /\ C!Expire("t1"))
  /\ SF_CliVars(part = "sign-in" /\ C!Poll("p1", "t1"))
  /\ WF_CliVars(part = "sign-in" /\ C!PollEnds("p1"))

\* Answers are owed only about the package the property speaks of.
SignalFairness ==
  /\ WF_SignalVars(part = "signals" /\ G!Scan)
  /\ WF_SignalVars(part = "signals" /\ G!Refresh)
  /\ \/ <>[][~(part = "signals" /\ G!Asks("a"))]_SignalVars
     \/ []<><<part = "signals" /\ G!Answers("a")>>_SignalVars

BackgroundVars == <<part, SweepVars, CliVars, SignalVars>>
BackgroundSpec ==
  /\ BackgroundInit /\ [][BackgroundNext]_BackgroundVars
  /\ SweepFairness /\ CliFairness /\ SignalFairness

-----------------------------------------------------------------------------
(* What each of them promises, as its module says it. *)
\* The sweep comes round: what is due and works is scanned
\* (EveryDueTargetIsScanned), and the findings are in the end those of the
\* stored manifest (ManifestIsScannedInTheEnd).
SweepComesRound == part = "sweep" => EveryDueTargetIsScanned /\ ManifestIsScannedInTheEnd
\* CliAuth: a terminal that waits is told to stop, or gets its token.
TerminalStops == C!TerminalStops
\* Signals: a package with something bad known of it is shown again and again.
BadPackagesAreShown == G!BadPackagesAreShown
\* manifests.py: distinct versions of a package, normal in a lockfile, are kept
\* as separate entries; so a scan of one is stored.
ScansAreStored == G!ScansAreStored
=============================================================================
