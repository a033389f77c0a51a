------------------------------ MODULE GoEngine ------------------------------
(***************************************************************************)
(* The second detector, engine/pkg in Go, and what services/engine_client  *)
(* compares when a scan runs both.  Its versions are those of Versions,    *)
(* read by rules of its own; its verdicts are those of rules.go.           *)
(***************************************************************************)
EXTENDS Triage

\* The names each glob covers as the engine reads it, a function of globs:
\* neither * nor ? crosses a slash, a bracket is negated by another sign, and
\* a glob that cannot be read covers nothing (filepath.Match).
CONSTANT MatchedBy

(* pkg/matching/version.go *)

TrimZeros(nums) ==
    LET kept == {i \in DOMAIN nums : nums[i] # 0} IN SubSeq(nums, 1, Max(kept \union {0}))

TrimZeroTokens(tail) ==
    LET kept == {i \in DOMAIN tail : ~ (tail[i].num /\ tail[i].val = 0)}
    IN  SubSeq(tail, 1, Max(kept \union {0}))

\* A suffix that is one of the names of a release is stable; post, rev and
\* dev are PyPI's and not among Words; whatever else is a pre-release.
Qualifier(tail) ==
    IF tail = << >> \/ tail \in {<< Word("release") >>, << Word("final") >>, << Word("ga") >>}
    THEN 0 ELSE -1

\* A missing detail token counts as the empty word: behind every number and
\* before every other word.
DetailSign(x, y) ==
    IF x.num /\ y.num THEN Sign(x.val - y.val)
    ELSE IF x.num THEN -1 ELSE IF y.num THEN 1 ELSE Sign(x.val - y.val)

NoToken == [num |-> FALSE, val |-> 0]
TokenAt(tail, i) == IF i \in DOMAIN tail THEN tail[i] ELSE NoToken

GoCompare(left, right) ==
    LET a == TrimZeroTokens(left.tail)
        b == TrimZeroTokens(right.tail)
        release == CompareRelease(TrimZeros(left.nums), TrimZeros(right.nums))
        qualifier == Sign(Qualifier(left.tail) - Qualifier(right.tail))
    IN  IF release # 0 THEN release
        ELSE IF qualifier # 0 THEN qualifier
        ELSE FirstSign([i \in 1 .. Longer(a, b) |-> DetailSign(TokenAt(a, i), TokenAt(b, i))])

GoInRange(version, rng) ==
    /\ rng.introduced # None => GoCompare(version, rng.introduced) >= 0
    /\ IF rng.fixed # None THEN GoCompare(version, rng.fixed) < 0
       ELSE rng.last_affected # None => GoCompare(version, rng.last_affected) <= 0

affectedBy(version, entry) ==
    \/ \E candidate \in entry.versions : GoCompare(version, candidate) = 0
    \/ \E i \in DOMAIN entry.ranges : GoInRange(version, entry.ranges[i])

\* The entry that matches, None when the advisory is withdrawn or covers
\* another package or version.
MatchedEntry(dependency, advisory) ==
    LET Hits == {i \in DOMAIN advisory.affected :
                    /\ advisory.affected[i].ecosystem = dependency.ecosystem
                    /\ advisory.affected[i].name = dependency.name
                    /\ affectedBy(dependency.version, advisory.affected[i])}
    IN  IF advisory.withdrawn THEN None ELSE FirstOrNone(advisory.affected, Hits)

GoFixSigns(ranges, some) ==
    [p \in some \X some |-> GoCompare(ranges[p[1]].fixed, ranges[p[2]].fixed)]

GoFix(dependency, entry) ==
    LET Above(rng) == rng.fixed # None /\ GoCompare(rng.fixed, dependency.version) > 0
        above == {i \in DOMAIN entry.ranges : Above(entry.ranges[i])}
    IN  LowestFix(entry.ranges, above, GoFixSigns(entry.ranges, above))

-----------------------------------------------------------------------------
(* pkg/rules/rules.go *)

\* A rule carries an identifier or a glob; one with both is decided by the glob.
IgnoreMatches(ignore, dependency, advisory) ==
    IF ignore.package # None THEN dependency.name \in MatchedBy[ignore.package]
    ELSE ignore.advisory_id \in {advisory.id} \union advisory.aliases

\* (Variant: a rule of the project silences malware.)
EvaluateRulesFirst(dependency, advisory, config) ==
    IF \E ignore \in config.ignored : IgnoreMatches(ignore, dependency, advisory)
    THEN "filtered"
    ELSE IF IsMalicious(advisory) THEN "actionable" ELSE "filtered"

Evaluate(dependency, advisory, config) ==
    LET exploited == config.always_alert_on_kev /\ advisory.known_exploited
        threshold == IF dependency.reachability = "runtime_direct" THEN config.direct_threshold
                     ELSE IF dependency.reachability = "dev_only" THEN config.dev_threshold
                     ELSE config.transitive_threshold
    IN  IF IsMalicious(advisory) THEN "actionable"
        ELSE IF ~ exploited /\ \E ignore \in config.ignored :
                                  IgnoreMatches(ignore, dependency, advisory)
        THEN "filtered"
        ELSE IF exploited THEN (IF config.block_on_kev THEN "blocking" ELSE "actionable")
        ELSE IF /\ config.epss_alert_above # None
                /\ advisory.epss_score # None
                /\ advisory.epss_score >= config.epss_alert_above
        THEN "actionable"
        ELSE IF threshold # None /\ AtLeast(advisory.severity, threshold)
        THEN "actionable" ELSE "filtered"

-----------------------------------------------------------------------------
(* services/engine_client.py: one scan, asked of both *)

\* _request: the policy and the advisories as the engine is sent them.  The
\* switch for development dependencies has no field.
ShadowRules(policy) ==
    [direct_threshold |-> policy.direct_threshold,
     transitive_threshold |-> policy.transitive_threshold,
     dev_threshold |-> policy.dev_threshold,
     epss_alert_above |-> policy.epss_threshold,
     always_alert_on_kev |-> policy.always_alert_on_kev,
     block_on_kev |-> FALSE,
     max_depth |-> policy.max_depth,
     ignored |-> {[advisory_id |-> id, package |-> None] : id \in policy.ignored_ids} \union
                 {[advisory_id |-> None, package |-> glob] : glob \in policy.ignored_packages}]

ShadowAdvisory(advisory, kev, epss) ==
    [id |-> advisory.id, aliases |-> advisory.aliases, mal |-> advisory.mal,
     withdrawn |-> advisory.withdrawn, severity |-> advisory.severity,
     affected |-> advisory.affected,
     known_exploited |-> CveIds(advisory) \intersect kev # {},
     epss_score |-> EpssFor(advisory, epss)]

\* pkg/scanner: the finding on one dependency and one advisory, if any.
FindingOn(entry, dependency, advisory, config) ==
    IF entry = None THEN {}
    ELSE {<< Evaluate(dependency, advisory, config), GoFix(dependency, entry) >>}

GoFinding(dependency, advisory, config) ==
    IF config.max_depth # None /\ dependency.depth > config.max_depth THEN {}
    ELSE FindingOn(MatchedEntry(dependency, advisory), dependency, advisory, config)

\* _differences: what each side holds of a pair, "filtered" read as suppressed.
HeldByPython(decision) ==
    IF decision.verdict = "not_affected" THEN {}
    ELSE {<< decision.verdict, decision.fixed_version >>}

HeldByGo(findings) ==
    {<< IF f[1] = "filtered" THEN "suppressed" ELSE f[1], f[2] >> : f \in findings}

ShadowMatches(dependency, advisory, kev, policy, epss) ==
    HeldByGo(GoFinding(dependency, ShadowAdvisory(advisory, kev, epss), ShadowRules(policy))) =
        IF WithinDepth(policy, dependency)
        THEN HeldByPython(triage(dependency, advisory, kev, policy, epss)) ELSE {}
=============================================================================
