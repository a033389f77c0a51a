------------------------------- MODULE Triage -------------------------------
(***************************************************************************)
(* app/core/matching.py: what becomes of one dependency and one advisory   *)
(* under one policy, and the list a scan is made of.  The texts, links and *)
(* scores shown beside a decision are left out; names and identifiers are  *)
(* compared without case, so they stand here in one case only.             *)
(***************************************************************************)
EXTENDS Versions, FiniteSets, TLC

CONSTANT CoveredBy    \* the names each glob covers, a function of globs

(* app/core/types.py *)

SeverityRank == [unknown |-> 0, low |-> 1, medium |-> 2, high |-> 3, critical |-> 4]
Severities == DOMAIN SeverityRank

\* (Variant: severities are compared as the texts they are stored as.)
AtLeastAsText(s, t) ==
    LET Place == [critical |-> 0, high |-> 1, low |-> 2, medium |-> 3, unknown |-> 4]
    IN  Place[s] >= Place[t]

AtLeast(s, t) == SeverityRank[s] >= SeverityRank[t]

Reachabilities == {"runtime_direct", "runtime_transitive", "dev_only"}
ShipsToProduction(reachability) == reachability # "dev_only"

\* cve_ids of an advisory: its own identifier or an alias, when it is a CVE.
CveIds(advisory) == ({advisory.id} \union advisory.aliases) \intersect advisory.cves

IsMalicious(advisory) == advisory.mal

DefaultPolicy ==
    [always_alert_on_kev |-> TRUE, direct_threshold |-> "high",
     transitive_threshold |-> "critical", alert_on_dev |-> FALSE,
     dev_threshold |-> None, max_depth |-> None, epss_threshold |-> None,
     ignored_ids |-> {}, ignored_packages |-> {}]

-----------------------------------------------------------------------------
(* The policy *)

WithinDepth(policy, dependency) ==
    policy.max_depth # None => dependency.depth <= policy.max_depth

Ignores(policy, advisory, dependency) ==
    \/ ({advisory.id} \union advisory.aliases) \intersect policy.ignored_ids # {}
    \/ \E glob \in policy.ignored_packages : dependency.name \in CoveredBy[glob]

ThresholdFor(policy, reachability) ==
    IF reachability = "runtime_direct" THEN policy.direct_threshold
    ELSE IF reachability = "dev_only" /\ policy.dev_threshold # None THEN policy.dev_threshold
    ELSE policy.transitive_threshold

\* The highest score among the advisory's CVEs; the index maps those it knows.
EpssFor(advisory, epss) ==
    LET known == CveIds(advisory) \intersect DOMAIN epss
    IN  IF known = {} THEN None ELSE Max({epss[cve] : cve \in known})

-----------------------------------------------------------------------------
(* One dependency and one advisory *)

Covers(dependency, entry) ==
    /\ entry.ecosystem = dependency.ecosystem
    /\ entry.name = dependency.name
    /\ version_matches(dependency.ecosystem, dependency.version, entry)

FirstOrNone(seq, passing) == IF passing = {} THEN None ELSE seq[Min(passing)]

\* (Variant: only the first entry of the advisory is looked at.)
MatchingFirst(dependency, advisory) ==
    IF Covers(dependency, advisory.affected[1]) THEN advisory.affected[1] ELSE None

\* The first entry of the advisory that covers the installed version.
MatchingAffected(dependency, advisory) ==
    FirstOrNone(advisory.affected, {i \in DOMAIN advisory.affected : Covers(dependency, advisory.affected[i])})

Decision(verdict, reason, overridden) ==
    [verdict |-> verdict, reason |-> reason, ignore_overridden |-> overridden]

FilteredAsDev(policy, advisory, reachability) ==
    /\ ~ ShipsToProduction(reachability)
    /\ IF policy.dev_threshold = None THEN ~ policy.alert_on_dev
       ELSE ~ AtLeast(advisory.severity, policy.dev_threshold)

SevereReason(advisory, reachability) ==
    IF reachability = "runtime_direct" /\ advisory.severity # "critical"
    THEN "high_severity_direct" ELSE "critical_in_production"

MildReason(policy, advisory, reachability) ==
    IF /\ reachability = "runtime_transitive"
       /\ AtLeast(advisory.severity, policy.direct_threshold)
    THEN "transitive_not_direct" ELSE "below_severity_threshold"

\* (Variant: the rules of the project are asked first.)
JudgeRulesFirst(dependency, advisory, is_kev, score, policy) ==
    IF Ignores(policy, advisory, dependency)
    THEN Decision("suppressed", "ignored_by_rule", FALSE)
    ELSE IF IsMalicious(advisory) \/ is_kev
    THEN Decision("actionable", "exploited_in_wild", FALSE)
    ELSE IF AtLeast(advisory.severity, ThresholdFor(policy, dependency.reachability))
    THEN Decision("actionable", "critical_in_production", FALSE)
    ELSE Decision("suppressed", "below_severity_threshold", FALSE)

\* The order is the code's: retraction, malware and confirmed exploitation
\* come before what a rule of the project may silence.
Judge(dependency, advisory, is_kev, score, policy) ==
    LET ignored == Ignores(policy, advisory, dependency)
        reachability == dependency.reachability
    IN  IF advisory.withdrawn
        THEN Decision("suppressed", "withdrawn", FALSE)
        ELSE IF IsMalicious(advisory)
        THEN Decision("actionable", "malicious_package", ignored)
        ELSE IF is_kev /\ policy.always_alert_on_kev
        THEN Decision("actionable", "exploited_in_wild", ignored)
        ELSE IF ignored
        THEN Decision("suppressed", "ignored_by_rule", FALSE)
        ELSE IF /\ policy.epss_threshold # None
                /\ score # None
                /\ score >= policy.epss_threshold
        THEN Decision("actionable", "likely_to_be_exploited", FALSE)
        ELSE IF FilteredAsDev(policy, advisory, reachability)
        THEN Decision("suppressed", "dev_only_dependency", FALSE)
        ELSE IF AtLeast(advisory.severity, ThresholdFor(policy, reachability))
        THEN Decision("actionable", SevereReason(advisory, reachability), FALSE)
        ELSE Decision("suppressed", MildReason(policy, advisory, reachability), FALSE)

\* What is decided, given the entry of the advisory that matched, if any.
MatchResult(entry, dependency, advisory, is_kev, score, policy) ==
    LET decided == IF entry = None THEN Decision("not_affected", None, FALSE)
                   ELSE Judge(dependency, advisory, is_kev, score, policy)
    IN  [dependency |-> dependency, advisory |-> advisory, kev |-> is_kev,
         verdict |-> decided.verdict, reason |-> decided.reason,
         ignore_overridden |-> decided.ignore_overridden,
         fixed_version |-> IF entry = None THEN None
                           ELSE first_fixed_version(dependency.ecosystem,
                                                    dependency.version, entry)]

\* kev is the set of exploited CVEs.
triage(dependency, advisory, kev, policy, epss) ==
    MatchResult(MatchingAffected(dependency, advisory), dependency, advisory,
                CveIds(advisory) \intersect kev # {}, EpssFor(advisory, epss), policy)

-----------------------------------------------------------------------------
(* A scan *)

\* Exploited first, then by severity.  The names, which order what is equally
\* urgent, are left out: such decisions stay in the order of the two loops.
Urgency(kev, severity) == SeverityRank[severity] + (IF kev THEN 5 ELSE 0)

\* Every decision on the dependencies in reach, in the order of the two loops.
Examined(dependencies, candidates, kev, policy, epss) ==
    LET reached == Kept(dependencies, {i \in DOMAIN dependencies :
                                           WithinDepth(policy, dependencies[i])})
        Of(d) == [i \in DOMAIN candidates[d] |->
                      triage(d, candidates[d][i], kev, policy, epss)]
    IN  FlattenSeq([i \in DOMAIN reached |-> Of(reached[i])])

TriageResult(decisions, unreached, scanned) ==
    LET Pick(v) ==
            LET picked == Kept(decisions, {i \in DOMAIN decisions : decisions[i].verdict = v})
            IN  Sorted(picked, [i \in DOMAIN picked |->
                                    Urgency(picked[i].kev, picked[i].advisory.severity)])
    IN  [actionable |-> Pick("actionable"), suppressed |-> Pick("suppressed"),
         dependencies_scanned |-> scanned, unreached_by_depth |-> unreached]

triage_all(dependencies, candidates, kev, policy, epss) ==
    LET unreached == Cardinality({i \in DOMAIN dependencies :
                                      ~ WithinDepth(policy, dependencies[i])})
    IN  TriageResult(Examined(dependencies, candidates, kev, policy, epss),
                     unreached, Len(dependencies) - unreached)
=============================================================================
