----------------------------- MODULE MCTriage -------------------------------
(***************************************************************************)
(* The decisions of a scan, asked one question at a time.  A state of this *)
(* module is one question; what the operators of the modules answer is     *)
(* compared with a reference definition, or with what they answer to a     *)
(* neighbouring question.  The walk over a package-lock.json is a machine  *)
(* of its own (NpmLock) and runs for the question of kind "lock".          *)
(***************************************************************************)
EXTENDS Intake

CONSTANTS MaxEvents,
          Asked    \* the kinds of questions a run asks

vars == << question, lock, queue, routes >>

\* Names of packages.
MCPopular == {<< "a", "o", "a" >>, << "a", "o", "o", "a" >>}
MCKnownDistinct == {<< "a", "o", "b" >>}
MCSeparators == {"-"}
MCConfusable == {{"o", "0"}}
Letters == {"a", "o", "-"}
MCNamed == UNION {[1 .. k -> Letters] : k \in 0 .. 3}

\* What each glob of the configuration covers, as either engine reads it; the
\* names are those below.  Where they differ, one reads over the slash and one
\* negates by the exclamation mark.
MCNames == {"@acme/lib", "sub"}
MCGlobs == {"@acme/*", "@acme*", "[!@]acme/lib"}
MCCoveredBy ==
    [g \in MCNames \union MCGlobs \union MATCHES_EVERYTHING |->
        IF g \in MCNames THEN {g}
        ELSE IF g \in MATCHES_EVERYTHING THEN MCNames
        ELSE IF g = "[!@]acme/lib" THEN {} ELSE {"@acme/lib"}]
MCMatchedBy ==
    [g \in DOMAIN MCCoveredBy |->
        IF g \in MCNames THEN {g}
        ELSE IF g \in MATCHES_EVERYTHING THEN {"sub"}
        ELSE IF g = "@acme*" THEN {} ELSE {"@acme/lib"}]

V(a, b, c) == Raw(<< a, b, c >>, << >>)

-----------------------------------------------------------------------------
(* The order of versions *)

MCVersions ==
    {Raw(nums, tail) : nums \in {<< 1 >>, << 1, 0 >>, << 1, 1 >>, << 0, 2 >>},
                       tail \in {<< >>, << Number(1) >>, << Word("alpha") >>,
                                 << Word("alpha"), Number(1) >>, << Word("alpha"), Number(2) >>,
                                 << Word("rc"), Number(0) >>, << Word("rc"), Word("alpha") >>}}

-----------------------------------------------------------------------------
(* The affected ranges of an advisory *)

Event(kind, n) == [kind |-> kind, version |-> IF n = 0 THEN None ELSE V(n, 0, 0)]

OneWindow ==
    {<< Event("introduced", i), Event(close, c) >> :
        i \in 0 .. 1, c \in 2 .. 3, close \in {"fixed", "last_affected"}}
TwoWindows ==
    {first \o << Event("introduced", 4) >> \o rest :
        first \in OneWindow, rest \in {<< >>, << Event("fixed", 5) >>, << Event("last_affected", 5) >>}}
MCHistories == {h \in OneWindow \union TwoWindows : Len(h) <= MaxEvents}

MCInstalled == {V(n, 0, 0) : n \in 1 .. 6} \union {Raw(<< n, 0, 0 >>, << Word("rc") >>) : n \in 1 .. 5}

-----------------------------------------------------------------------------
(* One dependency and one advisory *)

Dep(reachability) == [ecosystem |-> "npm", name |-> "@acme/lib", version |-> V(1, 0, 0),
                      reachability |-> reachability, depth |-> 1]

Sample == EntryOf(<< Event("introduced", 0), Event("fixed", 2) >>)
AdvisoryOf(severity, mal, withdrawn) ==
    [id |-> "GHSA", aliases |-> {"CVE"}, cves |-> {"CVE"}, mal |-> mal,
     withdrawn |-> withdrawn, severity |-> severity,
     affected |-> << Sample >>]

\* The rules of a project, a glob or an identifier, and what it asks of
\* development dependencies: a threshold of their own, or all or none.
MCRules == {<< {}, {} >>, << {}, {"CVE"} >>} \union {<< {glob}, {} >> : glob \in MCGlobs}
MCForDev == {<< None, FALSE >>, << None, TRUE >>, << "medium", FALSE >>}
MCPolicies ==
    {[DefaultPolicy EXCEPT !.direct_threshold = direct, !.transitive_threshold = transitive,
                           !.dev_threshold = dev[1], !.alert_on_dev = dev[2],
                           !.epss_threshold = epss, !.ignored_packages = rules[1],
                           !.ignored_ids = rules[2]] :
        direct \in {"low", "high"}, transitive \in {"medium", "critical"},
        dev \in MCForDev, epss \in {None, 50}, rules \in MCRules}

\* EPSS indexes: the score is unknown, low or high.
NoScores == [cve \in {} |-> 0]
MCScores == {NoScores, [cve \in {"CVE"} |-> 10], [cve \in {"CVE"} |-> 60]}

MCCases ==
    {[dependency |-> Dep(reachability), advisory |-> AdvisoryOf(severity, mal, withdrawn),
      kev |-> kev, epss |-> epss] :
        reachability \in Reachabilities, severity \in Severities, mal \in BOOLEAN,
        withdrawn \in BOOLEAN, kev \in {{}, {"CVE"}}, epss \in MCScores}

ASSUME BothEnginesCompareThem == \A case \in MCCases : IsPlainCase(case)

\* Those that differ in the severity and the exposure, and those that differ
\* in the rest.
MCWorse ==
    [case \in MCCases |->
        {[case EXCEPT !.advisory.severity = severity, !.dependency = Dep(reachability)] :
            severity \in Severities, reachability \in Reachabilities} \union
        {[case EXCEPT !.kev = kev, !.epss = epss, !.advisory.mal = mal] :
            kev \in {{}, {"CVE"}}, epss \in MCScores, mal \in BOOLEAN}]

-----------------------------------------------------------------------------
(* The layers of a policy *)

Doc(direct, epss, ignore, profile) ==
    [direct |-> direct, transitive |-> None, dev |-> None, epss |-> epss,
     ignore |-> ignore, profile |-> profile]
Line(package, cve) == [package |-> package, cve |-> cve, reason |-> "why"]

MCIgnores == {<< >>, << Line("sub", None), Line(None, "CVE") >>} \union
             {<< Line(glob, None) >> : glob \in MATCHES_EVERYTHING}
MCDocuments == {None, Bad} \union
           {Doc(direct, epss, ignore, profile) :
               direct \in {None, Bad, "low", "critical"}, epss \in {None, 40, 4000, 20000},
               ignore \in MCIgnores, profile \in {None, "strict", "gone"}}
MCProfiles == ("strict" :> Doc("low", None, << Line(None, "CVE") >>, None)) @@
              ("quiet" :> Doc("critical", None, << >>, None))
MCChosen == [assigned : {None, "quiet"}, default : {None}, requested : {None, "strict"}]
ASSUME ProfilesAreAcceptable == \A slug \in DOMAIN MCProfiles : Acceptable(MCProfiles[slug])

\* A project whose owner asked for one rule and for thresholds.
Form(kind, identifier) == [kind |-> kind, identifier |-> identifier, reason |-> "why"]
MCForms == {Form(None, "CVE"), Form(None, "*"), Form("package", "**"), Form("package", "sub"),
            Form(Bad, "CVE")}
MCSettings ==
    {set_project_thresholds(add_project_rule(NewProject, form),
         [direct |-> direct, transitive |-> None, epss |-> epss]) :
        form \in MCForms, direct \in {None, Bad, "medium"}, epss \in {None, 0, 40, 200}}

MCTargets ==
    {[direct_threshold |-> t.direct_threshold, transitive_threshold |-> t.transitive_threshold,
      dev_threshold |-> t.dev_threshold, epss_threshold |-> t.epss_threshold, rules |-> t.rules,
      policy_file |-> document] : t \in MCSettings, document \in MCDocuments}

MCAlarms ==
    {[dependency |-> Dep("runtime_direct"), advisory |-> AdvisoryOf("unknown", mal, FALSE),
      kev |-> kev, epss |-> NoScores] : mal \in BOOLEAN, kev \in {{}, {"CVE"}}}

-----------------------------------------------------------------------------
(* The answer a pipeline gets *)

MCStored == [severity : {"unknown", "high", "critical"}, kev : BOOLEAN, malicious : BOOLEAN,
             verdict : {"actionable"}, status : {"open", "dismissed"}] \union
            [severity : {"high"}, kev : {TRUE}, malicious : {FALSE},
             verdict : {"suppressed"}, status : {"open"}]
MCFindingLists == [1 .. 2 -> MCStored]

-----------------------------------------------------------------------------
(* A scan's lists *)

Entry(name, fixed) == [ecosystem |-> "npm", name |-> name, versions |-> {},
                       ranges |-> << AffectedRange(None, V(fixed, 0, 0), None) >>]
Filed(severity, entries) ==
    [AdvisoryOf(severity, FALSE, FALSE) EXCEPT !.affected = entries]

\* Two copies of a package at two depths, and advisories with several entries,
\* of which the first may be for another version of the package or another
\* package.
MCInstalledLists ==
    {<< [Dep("runtime_direct") EXCEPT !.depth = 0, !.version = V(a, 0, 0)],
        [Dep("runtime_transitive") EXCEPT !.depth = d, !.version = V(b, 0, 0)] >> :
        a \in 1 .. 3, b \in 1 .. 3, d \in 1 .. 2}
MCAdvisories ==
    {Filed(severity, entries) :
        severity \in {"low", "high", "critical"},
        entries \in {<< Entry("@acme/lib", 2) >>, << Entry("@acme/lib", 2), Entry("@acme/lib", 3) >>,
                     << Entry("sub", 3), Entry("@acme/lib", 3) >>}}
MCAdvisoryLists == [1 .. 2 -> MCAdvisories]
MCFilingPolicies == {DefaultPolicy, [DefaultPolicy EXCEPT !.max_depth = 1]}

-----------------------------------------------------------------------------
(* The source a project uploads *)

MCSources == [supported : BOOLEAN, production : BOOLEAN, dynamic : BOOLEAN,
              imports : SUBSET MCNames]
MCTraced == {[name |-> "@acme/lib", depth |-> d, via |-> via] : d \in 0 .. 1, via \in {<< >>, << "sub" >>}}
MCBundles == {{}} \union {{f} : f \in MCSources}

-----------------------------------------------------------------------------
(* The ranges of a package.json *)

Comparator(op, parts) == [op |-> op, parts |-> parts, pre |-> << >>]
MCComparators ==
    {Comparator(op, parts) : op \in {"^", "~", ">=", "=", "", "<", ">"},
                             parts \in {<< >>, << 1 >>, << 1, 1 >>, << 1, 1, 0 >>, << 2, 0, 1 >>}}
MCRanges ==
    {<< << c >> >> : c \in MCComparators} \union
    {<< << c, d >> >> : c \in MCComparators, d \in MCComparators} \union
    {<< << c >>, << d >> >> : c \in MCComparators, d \in MCComparators}

MCReleases == {V(a, b, c) : a \in 0 .. 3, b \in 0 .. 2, c \in 0 .. 2}

Clause(op, parts, star) == [op |-> op, parts |-> parts, star |-> star]
MCClauses ==
    {Clause(op, parts, FALSE) : op \in {"==", "~=", ">=", "<=", ">", "!="},
                                parts \in {<< 1, 1 >>, << 1, 1, 0 >>, << 2, 0, 1 >>}} \union
    {Clause("==", parts, TRUE) : parts \in {<< 1 >>, << 1, 1 >>}}
MCSpecifiers == {<< c >> : c \in MCClauses} \union {<< c, d >> : c \in MCClauses, d \in MCClauses}

-----------------------------------------------------------------------------
(* A package-lock.json *)

Locked(name, nesting, version, dev, requires) ==
    [name |-> name, nesting |-> nesting, version |-> version, dev |-> dev,
     requires |-> SetToSortSeq(requires, >)]

\* Every graph on four packages, the first of which the project asks for, and
\* none of which requires itself.
Graphs ==
    {[direct |-> direct,
      entries |-> [i \in 1 .. 4 |-> Locked(i, 1, V(1, 0, 0), FALSE, g[i] \ {i})]] :
        direct \in {{1}, {1, 2}}, g \in [1 .. 4 -> SUBSET (2 .. 4)]}

\* Two packages, the second of which is installed twice.
Copies ==
    {[direct |-> {1},
      entries |-> << Locked(1, 1, V(1, 0, 0), FALSE, r1), Locked(2, n[1], V(1, 0, 0), dev, r2),
                     Locked(2, n[2], V(v, 0, 0), dev2, {}) >>] :
        r1 \in SUBSET {2}, r2 \in SUBSET {1}, v \in 1 .. 2,
        n \in {<< 1, 2 >>, << 2, 1 >>, << 2, 2 >>},
        dev \in BOOLEAN, dev2 \in BOOLEAN}

MCLocks == Graphs \union Copies
ASSUME NpmLockAssumption

-----------------------------------------------------------------------------
(* The other manifests *)

MCLines == [name : 1 .. 2, version : {None, V(1, 0, 0), V(2, 0, 0)},
            configurations : SUBSET {"test", "main"}]
MCLineLists == [1 .. 2 -> MCLines]

-----------------------------------------------------------------------------
Idle ==
    /\ lock = [direct |-> {}, entries |-> << >>]
    /\ queue = << >> /\ routes = << >>

Questions(kind) ==
    CASE kind = "order" -> OrderQuestions
      [] kind = "events" -> EventQuestions
      [] kind = "triage" -> TriageQuestions
      [] kind = "layers" -> LayerQuestions
      [] kind = "gate" -> GateQuestions
      [] kind = "filing" -> FilingQuestions
      [] kind = "sources" -> SourceQuestions
      [] kind = "names" -> NameQuestions
      [] kind = "range" -> RangeQuestions
      [] kind = "specifier" -> SpecifierQuestions
      [] kind = "manifest" -> ManifestQuestions

Init ==
    \/ /\ question \in UNION {Questions(kind) : kind \in Asked \ {"lock"}}
       /\ Idle
    \/ /\ "lock" \in Asked
       /\ question = [kind |-> "lock"]
       /\ WalkInit

Next == question.kind = "lock" /\ Visit /\ UNCHANGED question

Spec == Init /\ [][Next]_vars
=============================================================================
