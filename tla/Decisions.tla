------------------------------ MODULE Decisions ------------------------------
(***************************************************************************)
(* What may be expected of the decisions of a scan.  Which versions,       *)
(* cases, policies, projects and sources are asked about is left open:     *)
(* MCTriage asks about a few, Triage_proofs about all there are.           *)
(***************************************************************************)
EXTENDS GoEngine, Policies, NpmLock, Reachability

CONSTANTS
  Compared,      \* versions
  Cases,         \* what a decision is made on, but for the policy
  PoliciesAsked, \* policies
  Worse,         \* for each case, the cases it is compared with
  Targets,       \* rows of projects
  ProfilesAsked, \* slug -> document: the profiles of an account
  Chosen,        \* [assigned, default, requested]: slugs, or None
  Alarms,        \* cases of malware and of exploitation, among others
  Traced,        \* dependencies, as the source that imports them is looked through
  Bundles,       \* sets of source files
  Sources        \* source files

VARIABLE question

Token == [num : BOOLEAN, val : Nat]
RawVersion == [ok : BOOLEAN, v : BOOLEAN, incompatible : BOOLEAN,
               nums : Seq(Nat), tail : Seq(Token)]

\* A threshold of a policy may be missing where None is tested for, and no
\* glob is.
IsPolicy(policy) ==
    /\ policy.direct_threshold \in Severities
    /\ policy.transitive_threshold \in Severities
    /\ policy.dev_threshold \in Severities \union {None}
    /\ policy.epss_threshold \in Nat \union {None}
    /\ policy.max_depth \in Nat \union {None}
    /\ None \notin policy.ignored_packages

\* Scores are hundredths.
IsCase(case) ==
    /\ case.dependency.reachability \in Reachabilities /\ case.dependency.depth \in Nat
    /\ case.advisory.severity \in Severities
    /\ DOMAIN case.advisory.affected \subseteq Nat
    /\ \A cve \in DOMAIN case.epss : case.epss[cve] \in 0 .. 100

\* What a YAML reader makes of a text: nothing, no mapping, or one of which
\* only the likelihood is a number.
IsDocument(document) ==
    document \in {None, Bad} \/ document.epss \in Int \union {None, Bad}

\* A row of a project: its settings are what set_project_thresholds stores,
\* its rules what add_project_rule does.
IsProject(target) ==
    /\ target.direct_threshold \in Severities \union {None}
    /\ target.transitive_threshold \in Severities \union {None}
    /\ target.dev_threshold \in Severities \union {None}
    /\ target.epss_threshold \in Nat \union {None}
    /\ target.rules.package \intersect ({None} \union MATCHES_EVERYTHING) = {}
    /\ IsDocument(target.policy_file)

ASSUME DecisionsAssumption ==
    /\ None \notin Severities
    /\ Compared \subseteq RawVersion
    /\ \A policy \in PoliciesAsked : IsPolicy(policy)
    /\ \A case \in Cases : IsCase(case) /\ Worse[case] \subseteq Cases
    /\ \A target \in Targets : IsProject(target)
    /\ \A slug \in DOMAIN ProfilesAsked : IsDocument(ProfilesAsked[slug])
    /\ \A file \in Sources : file.production \in BOOLEAN

OrderQuestions == [kind : {"order"}, a : Compared, b : Compared]
TriageQuestions == [kind : {"triage"}, policy : PoliciesAsked, case : Cases]
LayerQuestions == [kind : {"layers"}, target : Targets, choice : Chosen]
SourceQuestions ==
    [kind : {"sources"}, dependency : Traced, complete : BOOLEAN, files : Bundles]

\* What is asked, of these kinds and of any other.
Asking ==
    /\ question.kind = "order" => question \in OrderQuestions
    /\ question.kind = "triage" => question \in TriageQuestions
    /\ question.kind = "layers" => question \in LayerQuestions
    /\ question.kind = "sources" => question \in SourceQuestions

-----------------------------------------------------------------------------
(* The order of versions *)

\* What may be expected of an order, for three versions: it never prefers both
\* of two, and what lies above lies above what that lies above.
Ordered(ecosystem, a, b, c) ==
    /\ compare(ecosystem, a, b) = - compare(ecosystem, b, a)
    /\ (compare(ecosystem, a, b) <= 0 /\ compare(ecosystem, b, c) <= 0) =>
          /\ compare(ecosystem, a, c) <= 0
          /\ (compare(ecosystem, a, c) = 0 =>
                  compare(ecosystem, a, b) = 0 /\ compare(ecosystem, b, c) = 0)

\* compare orders the versions of npm, Go and crates.io: it never prefers both
\* of two versions, and what lies above lies above what that lies above.  The
\* hazard is a pre-release of several parts, compared part by part
\* (core/versions.py, SemVer).
SemVerIsAnOrder ==
    question.kind = "order" =>
        \A ecosystem \in {"npm", "Go", "crates.io"}, c \in Compared :
            Ordered(ecosystem, question.a, question.b, c)

-----------------------------------------------------------------------------
(* The verdict on a dependency and an advisory *)

VerdictOn(case, policy) ==
    triage(case.dependency, case.advisory, case.kev, policy, case.epss).verdict

\* The same match, of which nothing known has become less alarming: its
\* severity, malware, exploitation, scores, or whether the dependency ships.
WorseNews(before, after) ==
    LET d == before.dependency
        e == after.dependency
        a == before.advisory
        b == after.advisory
    IN  /\ << d.ecosystem, d.name, d.version >> = << e.ecosystem, e.name, e.version >>
        /\ \/ e.reachability = d.reachability
           \/ d.reachability = "dev_only" /\ e.reachability = "runtime_transitive"
        /\ << a.id, a.aliases, a.cves, a.affected, a.withdrawn >> =
           << b.id, b.aliases, b.cves, b.affected, b.withdrawn >>
        /\ SeverityRank[b.severity] >= SeverityRank[a.severity]
        /\ a.mal => b.mal
        /\ before.kev \subseteq after.kev
        /\ \A cve \in DOMAIN before.epss :
              cve \in DOMAIN after.epss /\ before.epss[cve] <= after.epss[cve]

\* Worse news quietens nothing.  A project that holds development dependencies
\* to a lower bar than the others has asked for the opposite, and is the
\* exception.
DangerAdds(policy, before, after) ==
    /\ VerdictOn(before, policy) = "actionable"
    /\ WorseNews(before, after)
    /\ \/ after.dependency.reachability = before.dependency.reachability
       \/ policy.dev_threshold = None
       \/ SeverityRank[policy.dev_threshold] >= SeverityRank[policy.transitive_threshold]
    => VerdictOn(after, policy) = "actionable"

\* Malware and confirmed exploitation of what is installed are told.
WorstIsTold(case, policy) ==
    /\ ~ case.advisory.withdrawn
    /\ IsMalicious(case.advisory) \/ CveIds(case.advisory) \intersect case.kev # {}
    /\ VerdictOn(case, policy) # "not_affected"
    => VerdictOn(case, policy) = "actionable"

\* An advisory that becomes more dangerous in any way - a higher severity, a
\* higher EPSS score, confirmed exploitation, malware, a dependency that turns
\* out to ship - does not become silent by it (the order of the returns of
\* triage, and the two floors a development dependency is held to).
DangerIsMonotone ==
    question.kind = "triage" =>
        \A worse \in Worse[question.case] : DangerAdds(question.policy, question.case, worse)

-----------------------------------------------------------------------------
(* The two engines *)

\* A version as npm's registry admits it: three numbers, and behind them
\* nothing or one word that is not the name of a release.
Plain ==
    {v \in RawVersion :
        /\ v.ok /\ ~ v.v /\ ~ v.incompatible /\ Len(v.nums) = 3
        /\ \/ v.tail = << >>
           \/ /\ Len(v.tail) = 1 /\ ~ v.tail[1].num
              /\ v.tail \notin {<< Word("release") >>, << Word("final") >>, << Word("ga") >>}}

IsPlainEntry(entry) ==
    /\ entry.versions \subseteq Plain
    /\ \A i \in DOMAIN entry.ranges :
          {entry.ranges[i].introduced, entry.ranges[i].fixed, entry.ranges[i].last_affected}
             \subseteq Plain \union {None}

IsPlainCase(case) ==
    /\ case.dependency.ecosystem \in {"npm", "Go", "crates.io"}
    /\ case.dependency.version \in Plain
    /\ \A i \in DOMAIN case.advisory.affected :
          case.advisory.affected[i].ecosystem = case.dependency.ecosystem
             => IsPlainEntry(case.advisory.affected[i])

\* The two read a glob by rules of their own, and a package may be ignored by
\* one of them alone.
GlobsReadAlike(policy, name) ==
    (\E glob \in policy.ignored_packages : name \in CoveredBy[glob]) <=>
    (\E glob \in policy.ignored_packages : name \in MatchedBy[glob])

\* No glob decides: malware, confirmed exploitation the project wants to hear
\* of, and what is ignored by its identifier.
GlobsAreIdle(policy, advisory, kev) ==
    \/ IsMalicious(advisory)
    \/ policy.always_alert_on_kev /\ CveIds(advisory) \intersect kev # {}
    \/ ({advisory.id} \union advisory.aliases) \intersect policy.ignored_ids # {}

\* On the advisories both detectors are asked about, the engine in Go comes to
\* the verdict and the fix the Python matcher comes to, unless a glob the two
\* read differently is what decides; such a glob makes neither of them silent
\* on malware or on confirmed exploitation.  Left out are the withdrawn ones,
\* which the engine does not report and the matcher files, and the switch for
\* development dependencies, which the engine is not told (engine_client.py,
\* _request and _differences; rules.go, Evaluate).
EngineAgrees ==
    (/\ question.kind = "triage"
     /\ ~ question.case.advisory.withdrawn
     /\ ~ question.policy.alert_on_dev
     /\ \/ GlobsReadAlike(question.policy, question.case.dependency.name)
        \/ GlobsAreIdle(question.policy, question.case.advisory, question.case.kev)) =>
        ShadowMatches(question.case.dependency, question.case.advisory,
                      question.case.kev, question.policy, question.case.epss)

-----------------------------------------------------------------------------
(* The layers of a policy *)

PolicyFor(target, choice) ==
    build_policy(target, ProfilesAsked, choice.assigned, choice.default, choice.requested)

\* Whatever a file, a project's settings and its profiles say, malware and
\* confirmed exploitation are told, and no glob that covers every package
\* there is comes into force (build_policy merges three sources, triage sets
\* the rules aside).
NothingSilencesTheWorst ==
    question.kind = "layers" =>
        LET policy == PolicyFor(question.target, question.choice)
        IN  policy # Bad =>
              /\ \A case \in Alarms : WorstIsTold(case, policy)
              /\ policy.ignored_packages \intersect MATCHES_EVERYTHING = {}

-----------------------------------------------------------------------------
(* The source a project uploads *)

GoState(dependency, files) == GoAnalyzeOne(dependency, [files |-> files])
State(q, files) == AnalyzeOne(q.dependency, [files |-> files, complete |-> q.complete])

Copy(dependency, version) == [name |-> dependency.name, version |-> version]
Stored(dependency, state) ==
    {[name |-> dependency.name, version |-> 1, automated_reachability |-> state]}

\* A file more never makes a dependency look less reachable, and "not observed"
\* is only said of a bundle that was complete and read to the last import; a
\* file more that hides its imports takes it back (analyze).  What the engine
\* in Go calls not observed, the Python analyser has not seen either, and a
\* scan without source says it only of a version it was found of.
MoreSourceNeverHides ==
    question.kind = "sources" =>
        \A more \in Sources :
            LET dependency == question.dependency
                before == State(question, question.files)
                after == State(question, question.files \union {more})
            IN  /\ Strength[after] >= Strength[before]
                /\ after = "not_observed" =>
                        /\ question.complete /\ ~ more.dynamic /\ more.supported
                        /\ dependency.name \notin more.imports
                        /\ before = "not_observed"
                /\ GoState(dependency, question.files) = "not_observed"
                        => Strength[before] = 0
                /\ CarryForward(Copy(dependency, 1), Stored(dependency, before)) = before
                /\ CarryForward(Copy(dependency, 2), Stored(dependency, before)) = "unknown"

-----------------------------------------------------------------------------
(* A package-lock.json *)

\* A package is as deep as it is far from the project, and as exposed as its
\* most exposed copy; what is installed is scanned, and nothing else.
InstalledIsPlaced == RouteIsShortest /\ MostExposedWins
=============================================================================
