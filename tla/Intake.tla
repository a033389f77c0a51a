-------------------------------- MODULE Intake --------------------------------
(***************************************************************************)
(* What may be expected of what a scan takes in and gives out: the ranges  *)
(* of an advisory, the fix a reader is sent to, the version a range is     *)
(* scanned with, the lines of a manifest, the names that imitate others,   *)
(* the two lists of a scan and the answer to a pipeline.  What is asked    *)
(* about is left open: MCTriage asks about a little, Intake_proofs about   *)
(* all there is.                                                           *)
(***************************************************************************)
EXTENDS Decisions, Osv, Gate, SupplyChain

CONSTANTS
  Histories,      \* the bounds of an advisory, in the order of their versions
  Installed,      \* versions
  InstalledLists, \* dependencies in the order a scan takes them
  AdvisoryLists,  \* advisories in the order a lookup gives them
  FilingPolicies, \* policies
  Exploited,      \* sets of exploited CVEs
  FindingLists,   \* stored findings, as Gate has them
  Ranges,         \* what a package.json may ask for
  Specifiers,     \* what a line of a requirements.txt may
  Releases,       \* versions
  LineLists,      \* the lines of a manifest
  Named           \* names of packages

-----------------------------------------------------------------------------
(* What is asked *)

Plainly(v) == v \in Plain /\ v.tail = << >>

\* Windows that do not overlap, each an introduction and the bound that closes
\* it; the last may stay open, and only the first may begin at version 0.
Rises(before, after) ==
    \/ compare("npm", before.version, after.version) < 0
    \/ /\ compare("npm", before.version, after.version) = 0
       /\ before.kind = "introduced" /\ after.kind = "last_affected"

IsHistory(history) ==
    /\ DOMAIN history = 1 .. Len(history) /\ Len(history) \in Nat \ {0}
    /\ \A i \in DOMAIN history :
          /\ history[i].kind \in IF i % 2 = 1 THEN {"introduced"} ELSE {"fixed", "last_affected"}
          /\ history[i].version \in IF i = 1 THEN Plain \union {None} ELSE Plain
          /\ \A j \in DOMAIN history :
                i < j /\ history[i].version # None => Rises(history[i], history[j])

IsList(list) == DOMAIN list = 1 .. Len(list) /\ Len(list) \in Nat

IsFiling(advisory) ==
    /\ advisory.severity \in Severities /\ IsList(advisory.affected)
    /\ \A i \in DOMAIN advisory.affected : advisory.affected[i] # None

IsFinding(finding) ==
    finding.severity \in Severities /\ finding.kev \in BOOLEAN /\ finding.malicious \in BOOLEAN

IsComparator(c) ==
    /\ c.op \in {"^", "~", ">=", "=", "", "<", ">"}
    /\ c.parts \in Seq(Nat) /\ Len(c.parts) <= 3 /\ c.pre = << >>

\* A star stands behind "==" and "!=", and "~=" needs two numbers.
IsClause(c) ==
    /\ c.op \in {"==", "===", "~=", ">=", "<=", ">", "<", "!="}
    /\ c.star \in BOOLEAN /\ (c.star => c.op \in {"==", "!="})
    /\ c.parts \in Seq(Nat) /\ Len(c.parts) \in 1 .. 3
    /\ c.op = "~=" => Len(c.parts) >= 2

IsRange(spec) ==
    /\ IsList(spec) /\ Len(spec) > 0
    /\ \A i \in DOMAIN spec : /\ IsList(spec[i])
                              /\ \A j \in DOMAIN spec[i] : IsComparator(spec[i][j])

\* Package 0 is the project itself.
IsLine(line) ==
    /\ line.name \in Nat \ {0}
    /\ line.version # None => Plainly(line.version)

Floor == [version : RawVersion, exact : BOOLEAN]
Resemblance == [kind : {"typosquat"}, level : {"notable", "concerning"},
                reason : {"separator", "transposition", "confusable", "length", "substitution"}]

ASSUME IntakeAssumption ==
    /\ None \notin RawVersion \union Floor
    /\ None # "registry" /\ None \notin Resemblance
    /\ MaxWalkDepth \in Nat /\ MIN_LENGTH \in Nat
    /\ \A history \in Histories : IsHistory(history)
    /\ Installed \subseteq Plain
    /\ \A list \in InstalledLists :
          IsList(list) /\ \A i \in DOMAIN list : list[i].depth \in Nat
    /\ \A list \in AdvisoryLists :
          IsList(list) /\ \A i \in DOMAIN list : IsFiling(list[i])
    /\ \A policy \in FilingPolicies : IsPolicy(policy)
    /\ \A list \in FindingLists : IsList(list) /\ \A i \in DOMAIN list : IsFinding(list[i])
    /\ MAX_INLINE_FINDINGS \in Nat \ {0}
    /\ \A spec \in Ranges : IsRange(spec)
    /\ \A clauses \in Specifiers :
          IsList(clauses) /\ \A i \in DOMAIN clauses : IsClause(clauses[i])
    /\ \A v \in Releases : Plainly(v)
    /\ \A lines \in LineLists : IsList(lines) /\ \A i \in DOMAIN lines : IsLine(lines[i])
    /\ \A name \in Named \union Popular : IsList(name)

\* The places of a list in every order.
Orders(list) ==
    {p \in [DOMAIN list -> DOMAIN list] : \A i \in DOMAIN list : \E k \in DOMAIN list : p[k] = i}

EventQuestions ==
    UNION {[kind : {"events"}, history : {h}, order : Orders(h)] : h \in Histories}
FilingQuestions ==
    [kind : {"filing"}, installed : InstalledLists, advisories : AdvisoryLists,
     policy : FilingPolicies, kev : Exploited]
GateQuestions == [kind : {"gate"}, findings : FindingLists]
RangeQuestions == [kind : {"range"}, spec : Ranges]
SpecifierQuestions == [kind : {"specifier"}, clauses : Specifiers]
ManifestQuestions == [kind : {"manifest"}, lines : LineLists]
NameQuestions == [kind : {"names"}, left : Named, right : Popular \union {<< >>}]

IntakeAsking ==
    /\ question.kind = "events" => question \in EventQuestions
    /\ question.kind = "filing" => question \in FilingQuestions
    /\ question.kind = "gate" => question \in GateQuestions
    /\ question.kind = "range" => question \in RangeQuestions
    /\ question.kind = "specifier" => question \in SpecifierQuestions
    /\ question.kind = "manifest" => question \in ManifestQuestions
    /\ question.kind = "names" => question \in NameQuestions

-----------------------------------------------------------------------------
(* The affected ranges of an advisory *)

\* An advisory as the feed carries it, its bounds in any order: next to the
\* entry in question, the same bounds given as commits, and an entry of an
\* ecosystem nobody scans.
RawEntry(ecosystem, type, events) ==
    [ecosystem |-> ecosystem, name |-> "@acme/lib", versions |-> {},
     ranges |-> << [type |-> type, events |-> events] >>]
RecordOf(events) ==
    [id |-> "GHSA", aliases |-> {"CVE"}, cves |-> {"CVE"}, mal |-> FALSE, withdrawn |-> FALSE,
     severity |-> << >>, label |-> "HIGH",
     affected |-> << RawEntry("npm", "GIT", events), RawEntry("Hex", "SEMVER", events),
                     RawEntry("npm", "SEMVER", events) >>]

EntryOf(events) == NormalizeOsvRecord(RecordOf(events)).affected[1]
Hit(events, version) == version_matches("npm", version, EntryOf(events))

Below(event, version) == event.version = None \/ compare("npm", event.version, version) <= 0

Ends(event, version) ==
    \/ event.kind = "fixed" /\ Below(event, version)
    \/ event.kind = "last_affected" /\ compare("npm", event.version, version) < 0

\* What the feed's schema says: the last bound at or below a version decides.
SchemaSaysAffected(history, version) ==
    \E i \in DOMAIN history :
        /\ history[i].kind = "introduced"
        /\ Below(history[i], version)
        /\ \A j \in DOMAIN history : j > i => ~ Ends(history[j], version)

Unshuffled(order) == \A i \in DOMAIN order : order[i] = i

\* Whatever the order in which the feed lists the bounds of an advisory, no
\* affected version is taken for safe, and in the order of the versions none
\* is taken for affected either (_pair_range_events, which pairs by position);
\* the engine in Go takes the same versions for affected.
NothingAffectedIsMissed ==
    question.kind = "events" =>
        \A version \in Installed :
            LET events == Picked(question.history, question.order)
                hit == Hit(events, version)
                said == SchemaSaysAffected(question.history, version)
            IN  /\ said => hit
                /\ Unshuffled(question.order) /\ hit => said
                /\ affectedBy(version, EntryOf(events)) = hit

\* The version a reader is told to upgrade to lies above the installed one,
\* is not affected itself, and is the lowest fix of which that is true
\* (first_fixed_version, which looks at the fixes and not at the windows).
\* The engine in Go tells the same.
UpgradeIsSafe ==
    question.kind = "events" =>
        LET history == question.history
            events == Picked(history, question.order)
            entry == EntryOf(events)
        IN  \A version \in {v \in Installed : Hit(events, v)} :
                LET fix == first_fixed_version("npm", version, entry)
                    safe == {i \in DOMAIN history :
                                /\ history[i].kind = "fixed"
                                /\ compare("npm", history[i].version, version) > 0
                                /\ ~ Hit(events, history[i].version)}
                    Lowest == IF safe = {} THEN fix = None
                              ELSE /\ \E i \in safe : history[i].version = fix
                                   /\ \A i \in safe : compare("npm", history[i].version, fix) >= 0
                IN  /\ Unshuffled(question.order) => Lowest
                    /\ GoFix([version |-> version], entry) = fix

-----------------------------------------------------------------------------
(* The lists of a scan *)

FilesAll(result, filed, pairs) ==
    /\ Len(filed) = Cardinality(pairs)
    /\ \A p \in pairs : \E k \in DOMAIN filed :
            /\ filed[k].dependency = question.installed[p[1]]
            /\ filed[k].advisory = question.advisories[p[2]]
    /\ \A i, j \in DOMAIN result.actionable :
            i < j => Urgency(result.actionable[i].kev, result.actionable[i].advisory.severity) >=
                     Urgency(result.actionable[j].kev, result.actionable[j].advisory.severity)
    /\ result.dependencies_scanned + result.unreached_by_depth = Len(question.installed)

\* Every dependency within the depth a scan goes to, and every advisory with an
\* entry that covers it, is in exactly one of the two lists; nothing else is;
\* and the actionable ones come by urgency (triage_all and its two loops).
EveryMatchIsFiled ==
    question.kind = "filing" =>
        LET candidates == [d \in ToSet(question.installed) |-> question.advisories]
            pairs == {p \in (DOMAIN question.installed) \X (DOMAIN question.advisories) :
                        /\ WithinDepth(question.policy, question.installed[p[1]])
                        /\ \E i \in DOMAIN question.advisories[p[2]].affected :
                              Covers(question.installed[p[1]],
                                     question.advisories[p[2]].affected[i])}
            Right(result) == FilesAll(result, result.actionable \o result.suppressed, pairs)
        IN  Right(triage_all(question.installed, candidates, question.kev, question.policy,
                             [cve \in {} |-> 0]))

-----------------------------------------------------------------------------
(* The answer a pipeline gets *)

\* What a pipeline stops for, at the level its owner chose: docs_service.py,
\* the table of the CLI's gate.
Stops(f, level) ==
    /\ f.verdict = "actionable" /\ f.status = "open"
    /\ f.kev \/ f.malicious \/ AtLeast(f.severity, level)

\* A pipeline sees malware and confirmed exploitation in the counts, however
\* few findings are spelled out, and never stops without a finding to show for
\* it (severity_counts and _blocking_findings, which is cut off).
PipelinesSeeTheWorst ==
    question.kind = "gate" =>
        LET findings == question.findings
            counts == severity_counts(findings)
            listed == blocking_findings(findings)
            seen == {i \in DOMAIN findings : Stops(findings[i], "high")}
        IN  /\ Cardinality({i \in seen : findings[i].kev}) = counts["exploited"]
            /\ Cardinality({i \in seen : findings[i].malicious}) = counts["malicious"]
            /\ IF seen = {} THEN counts["critical"] = 0 /\ counts["high"] = 0
               ELSE /\ listed # << >>
                    /\ Stops(listed[1], "high")
                    /\ counts["exploited"] > 0 => listed[1].kev

-----------------------------------------------------------------------------
(* The ranges of a package.json and of a requirements.txt *)

\* What npm lets a comparator stand for; a caret before a 0 stands for less.
Admits(c, v) ==
    LET floor == ZeroFill(c)
        Same(n) == \A i \in 1 .. n : i \in DOMAIN c.parts => v.nums[i] = c.parts[i]
        above == compare("npm", v, floor) >= 0
    IN  CASE c.parts = << >> -> c.op # "<"
          [] c.parts # << >> /\ c.op = "^" -> above /\ Same(1)
          [] c.parts # << >> /\ c.op = "~" -> above /\ Same(2)
          [] c.parts # << >> /\ c.op = ">=" -> above
          [] c.parts # << >> /\ c.op = ">" -> compare("npm", v, floor) > 0
          [] c.parts # << >> /\ c.op = "<" -> ~ above
          [] OTHER -> Same(3)

\* What PEP 440 lets a clause stand for, among releases.
Allows(c, v) ==
    LET sign == compare("PyPI", v, Raw(c.parts, << >>))
        Starts(n) == \A i \in 1 .. n : v.nums[i] = c.parts[i]
    IN  CASE c.star -> Starts(Len(c.parts)) = (c.op = "==")
          [] c.op \in {"==", "==="} /\ ~ c.star -> sign = 0
          [] c.op = "!=" /\ ~ c.star -> sign # 0
          [] c.op = "~=" -> sign >= 0 /\ Starts(Len(c.parts) - 1)
          [] c.op = ">=" -> sign >= 0
          [] c.op = ">" -> sign > 0
          [] c.op = "<" -> sign < 0
          [] OTHER -> sign <= 0

Resolvable(spec) == \A i \in DOMAIN spec : ResolveBranch(spec[i]) # None

LowestOf(ecosystem, floor, admitted) ==
    \A v \in admitted : /\ compare(ecosystem, floor.version, v) <= 0
                        /\ floor.exact => compare(ecosystem, floor.version, v) = 0

\* The version a package.json or a requirements.txt is scanned with is no
\* higher than any its range admits, and one called exact is the only one:
\* where every branch of the range has a floor (resolve_npm_floor: the lowest
\* over the branches, the first within one), and in whatever order the clauses
\* come (resolve_pypi_floor: the highest of the lower bounds).
FloorIsLowest ==
    /\ (question.kind = "range" /\ Resolvable(question.spec)) =>
          LowestOf("npm", resolve_npm_floor(question.spec),
                   {v \in Releases : \E i \in DOMAIN question.spec :
                       \A j \in DOMAIN question.spec[i] : Admits(question.spec[i][j], v)})
    /\ (question.kind = "specifier" /\ resolve_pypi_floor(question.clauses) # None) =>
          LowestOf("PyPI", resolve_pypi_floor(question.clauses),
                   {v \in Releases : \A i \in DOMAIN question.clauses :
                       Allows(question.clauses[i], v)})

\* Neither the version a reader is sent to nor the one a range is scanned with
\* is higher than it has to be.
LowestIsChosen == UpgradeIsSafe /\ FloorIsLowest

-----------------------------------------------------------------------------
(* Manifests.  One list of lines is written down in every format: "test" and *)
(* "main" are configurations, and what has no version is managed elsewhere.  *)

Managed == Raw(<< 3, 0, 0 >>, << >>)
Version(line) == IF line.version = None THEN Managed ELSE line.version
OnlyTests(line) == line.configurations = {"test"}

\* The project asks for package 1.
CargoPackages(lines) ==
    << [name |-> 0, version |-> Managed, source |-> None, requires |-> << 1 >>] >> \o
    [i \in DOMAIN lines |-> [name |-> lines[i].name, version |-> Version(lines[i]),
                             source |-> "registry", requires |-> << 2 >>]]

Sections(lines) ==
    LET Of(test) == LET chosen == Kept(lines, {i \in DOMAIN lines : OnlyTests(lines[i]) = test})
                    IN  [i \in DOMAIN chosen |->
                            [name |-> chosen[i].name,
                             spec |-> << << [op |-> "=", parts |-> Version(chosen[i]).nums,
                                             pre |-> << >>] >> >>]]
    IN  [dependencies |-> Of(FALSE), devDependencies |-> Of(TRUE),
         optionalDependencies |-> << >>, peerDependencies |-> << >>]

\* In a requirements.txt, package 0 comes from a URL.
Wanted(lines) ==
    [i \in DOMAIN lines |->
        [name |-> lines[i].name, url |-> FALSE,
         clauses |-> << [op |-> "==", parts |-> Version(lines[i]).nums, star |-> FALSE] >>]] \o
    << [name |-> 0, url |-> TRUE, clauses |-> << >>] >>

Readings(lines) ==
    LET exact == [i \in DOMAIN lines |-> [name |-> lines[i].name, version |-> Version(lines[i]),
                                          configurations |-> lines[i].configurations]]
        declared == [i \in DOMAIN lines |->
                        [name |-> lines[i].name, version |-> lines[i].version,
                         scope |-> IF OnlyTests(lines[i]) THEN "test" ELSE "compile"]]
        nodes == [i \in DOMAIN lines |->
                        [name |-> lines[i].name, version |-> Version(lines[i]),
                         dev |-> OnlyTests(lines[i]), chain |-> << >>]]
        requires == [i \in DOMAIN lines |->
                        [path |-> lines[i].name, version |-> Version(lines[i]),
                         indirect |-> OnlyTests(lines[i])]]
    IN  [pypi |-> RequirementsTxt(Wanted(lines)),
         gradle |-> GradleLockfile(exact), sbt |-> SbtLock(exact),
         pom |-> PomXml(declared, [n \in {lines[i].name : i \in DOMAIN lines} |-> Managed]),
         npm |-> PackageJson(Sections(lines)), npm1 |-> PackageLockV1(nodes),
         cargo |-> CargoLock(CargoPackages(lines)),
         go |-> GoMod(requires, {}, [n \in {} |-> 0])]

Reads(format, read, lines) ==
    LET Same(d, line) == d.name = line.name /\ d.version = Version(line)
    IN  /\ \A i \in DOMAIN lines : \E d \in read :
              /\ Same(d, lines[i])
              /\ \/ OnlyTests(lines[i])
                 \/ format = "gradle" /\ lines[i].configurations = {}
                 \/ d.reachability # "dev_only"
        /\ \A d \in read :
              /\ \E i \in DOMAIN lines : Same(d, lines[i])
              /\ \A e \in read : (d.name = e.name /\ d.version = e.version) => d = e

\* In every format: each line is scanned, nothing else is, nothing is scanned
\* twice, and what one line asks for outside the tests is not taken for a
\* development dependency because another line asks for it in the tests.
ShippedIsNeverDev ==
    question.kind = "manifest" =>
        LET readings == Readings(question.lines)
        IN  \A format \in DOMAIN readings : Reads(format, readings[format], question.lines)

\* What was found of a dependency does not get lost between the two lists or
\* on the way to a pipeline, nor does a line of a manifest.
NothingIsHidden == EveryMatchIsFiled /\ PipelinesSeeTheWorst /\ ShippedIsNeverDev

-----------------------------------------------------------------------------
(* Names that imitate others *)

\* The number of edits between two names, by its recursive definition.
Distance(left, right) ==
    LET Edits(d, i, j) ==
            IF i = 0 \/ j = 0 THEN i + j
            ELSE Min({d[<< i - 1, j >>] + 1, d[<< i, j - 1 >>] + 1,
                      d[<< i - 1, j - 1 >>] + (IF left[i] = right[j] THEN 0 ELSE 1)})
        d[p \in (0 .. Len(left)) \X (0 .. Len(right))] == Edits(d, p[1], p[2])
    IN  d[<< Len(left), Len(right) >>]

Imitates(left, right) ==
    LET mine == Canonical(left)
        theirs == Canonical(right)
    IN  Distance(mine, theirs) <= 1 \/ IsTransposition(mine, theirs)

\* The bounded distance is the distance as far as the bound, and every name
\* that is one edit or one swap away from a popular one is reported, unless it
\* is short, popular itself or known to be distinct (check_typosquat, whose
\* distance gives up row by row).
ImitationsAreSeen ==
    question.kind = "names" =>
        LET left == question.left
            right == question.right
            distance == Distance(left, right)
        IN  /\ \A limit \in 1 .. 2 :
                  LET bounded == edit_distance(left, right, limit)
                  IN  IF distance > limit THEN bounded > limit ELSE bounded = distance
            /\ (/\ right \in Popular /\ Imitates(left, right)
                /\ Len(left) >= MIN_LENGTH /\ left \notin Popular \union KnownDistinct)
               => None \notin check_typosquat(left, FALSE)
=============================================================================
