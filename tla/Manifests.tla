----------------------------- MODULE Manifests ------------------------------
(***************************************************************************)
(* app/core/manifests.py: what a manifest says is installed.  A manifest   *)
(* stands here for what its reader (JSON, TOML, XML, lines) made of it;    *)
(* the entries the parsers skip as malformed, and the warnings, are left   *)
(* out, and so is the truncation at MAX_DEPENDENCIES.                      *)
(***************************************************************************)
EXTENDS Versions, FiniteSets, TLC

CONSTANT MaxWalkDepth    \* _MAX_WALK_DEPTH, 64 in the code

Exposure == [runtime_direct |-> 0, runtime_transitive |-> 1, dev_only |-> 2]

Dependency(name, version, reachability, exact, depth, via) ==
    [name |-> name, version |-> version, reachability |-> reachability,
     version_exact |-> exact, depth |-> depth, via |-> via]

\* (Variant: of equal copies the first stays, however exposed.)
DedupeFirst(deps) ==
    LET Stays(i) == \A j \in DOMAIN deps :
            (deps[i].name = deps[j].name /\ deps[i].version = deps[j].version) => i <= j
    IN  {deps[i] : i \in {k \in DOMAIN deps : Stays(k)}}

\* The first of the most exposed among the entries of one name and version.
Dedupe(deps) ==
    LET Same(d, e) == d.name = e.name /\ d.version = e.version
        Stays(i) == \A j \in DOMAIN deps : Same(deps[i], deps[j]) =>
            \/ Exposure[deps[i].reachability] < Exposure[deps[j].reachability]
            \/ Exposure[deps[i].reachability] = Exposure[deps[j].reachability] /\ i <= j
    IN  {deps[i] : i \in {k \in DOMAIN deps : Stays(k)}}

-----------------------------------------------------------------------------
(* package.json: a range is a sequence of branches, a branch a sequence of *)
(* comparators, a comparator an operator and the numbers that follow it.   *)

ZeroFill(c) == Raw([i \in 1 .. (IF Len(c.parts) < 3 THEN 3 ELSE Len(c.parts)) |->
                        Padded(c.parts, i)], c.pre)

ResolveToken(c) ==
    IF c.parts = << >> \/ c.op = "<" THEN None
    ELSE [version |-> ZeroFill(c), exact |-> c.op \in {"=", ""} /\ Len(c.parts) >= 3]

\* Of several comparators the first that gives a floor counts; ">" is not
\* among them.
ResolveBranch(branch) ==
    LET Floor(c) == c.op \in {">=", "^", "~", ""} /\ ResolveToken(c) # None
        floors == Kept(branch, {i \in DOMAIN branch : Floor(branch[i])})
    IN  IF Len(branch) = 1 THEN ResolveToken(branch[1])
        ELSE IF floors = << >> THEN None
        ELSE [version |-> ZeroFill(floors[1]), exact |-> FALSE]

\* The branches that have one.
Floors(branches) == Kept(branches, {i \in DOMAIN branches : branches[i] # None})

\* (Variant: the floor of the first branch counts.)
resolve_npm_first(spec) ==
    LET floors == Floors([i \in DOMAIN spec |-> ResolveBranch(spec[i])])
    IN  IF floors = << >> THEN None
        ELSE [floors[1] EXCEPT !.exact = @ /\ Len(floors) = 1]

resolve_npm_floor(spec) ==
    LET floors == Floors([i \in DOMAIN spec |-> ResolveBranch(spec[i])])
        Lower(lowest, f) ==
            IF compare("npm", f.version, lowest.version) < 0 THEN f ELSE lowest
        lowest == FoldLeft(Lower, floors[1], Tail(floors))
    IN  IF floors = << >> THEN None
        ELSE [lowest EXCEPT !.exact = @ /\ Len(floors) = 1]

\* What has no floor cannot be checked and is left out.
Declared(names, floors, reachability) ==
    Kept([i \in DOMAIN names |->
             IF floors[i] = None THEN None
             ELSE Dependency(names[i], floors[i].version, reachability, floors[i].exact, 0, << >>)],
         {i \in DOMAIN names : floors[i] # None})

\* sections: the entries of each section, a name and a range.
PackageJson(sections) ==
    LET Of(entries, reachability) ==
            Declared([i \in DOMAIN entries |-> entries[i].name],
                     [i \in DOMAIN entries |-> resolve_npm_floor(entries[i].spec)], reachability)
    IN  Dedupe(Of(sections.dependencies, "runtime_direct")
               \o Of(sections.optionalDependencies, "runtime_direct")
               \o Of(sections.peerDependencies, "runtime_direct")
               \o Of(sections.devDependencies, "dev_only"))

-----------------------------------------------------------------------------
(* requirements.txt: a specifier is a list of clauses, in whatever order   *)
(* the packaging library hands them out, a clause an operator, the numbers *)
(* behind it and whether a star follows them.  Only releases are written   *)
(* here, which that library orders as compare orders any release.          *)

\* A pin counts alone; otherwise the highest of the lower bounds.
resolve_pypi_floor(clauses) ==
    LET Pins(c) == c.op \in {"==", "==="} /\ ~ c.star
        Bounds(c) == c.op \in {">=", "~=", ">"} \/ (c.op = "==" /\ c.star)
        pins == Kept(clauses, {i \in DOMAIN clauses : Pins(clauses[i])})
        floors == Kept(clauses, {i \in DOMAIN clauses : Bounds(clauses[i])})
        Higher(highest, c) ==
            IF compare("PyPI", Raw(c.parts, << >>), highest) > 0
            THEN Raw(c.parts, << >>) ELSE highest
    IN  IF pins # << >> THEN [version |-> Raw(pins[1].parts, << >>), exact |-> TRUE]
        ELSE IF floors = << >> THEN None
        ELSE [version |-> FoldLeft(Higher, Raw(floors[1].parts, << >>), Tail(floors)),
              exact |-> FALSE]

\* What is installed from a URL has no version to check.
RequirementsTxt(lines) ==
    Dedupe(Declared([i \in DOMAIN lines |-> lines[i].name],
                    [i \in DOMAIN lines |-> IF lines[i].url THEN None
                                            ELSE resolve_pypi_floor(lines[i].clauses)],
                    "runtime_direct"))

-----------------------------------------------------------------------------
(* A package-lock.json of version 1; NpmLock reads the later ones.          *)

\* Version 1 nests: nodes in the order they are met, each with its chain.
PackageLockV1(nodes) ==
    LET Of(n) == Dependency(n.name, n.version,
                     IF n.dev THEN "dev_only"
                     ELSE IF n.chain = << >> THEN "runtime_direct" ELSE "runtime_transitive",
                     TRUE, Len(n.chain), n.chain)
        within == Kept(nodes, {i \in DOMAIN nodes : /\ Len(nodes[i].chain) <= MaxWalkDepth
                                                    /\ nodes[i].version # None})
    IN  Dedupe([i \in DOMAIN within |-> Of(within[i])])

-----------------------------------------------------------------------------
(* The other formats: lines or entries in the order of the file. *)

\* go.mod: an excluded version is left out, a replaced module is what it is
\* replaced by, and one replaced by a directory has no version to check.
GoMod(requires, excluded, replacements) ==
    LET Given(r) == IF r.path \in DOMAIN replacements THEN replacements[r.path]
                    ELSE [path |-> r.path, version |-> r.version]
        kept == Kept(requires, {i \in DOMAIN requires :
                    /\ << requires[i].path, requires[i].version >> \notin excluded
                    /\ Given(requires[i]).version # None})
        Of(r) == Dependency(Given(r).path, Given(r).version,
                     IF r.indirect THEN "runtime_transitive" ELSE "runtime_direct",
                     TRUE, IF r.indirect THEN 1 ELSE 0, << >>)
    IN  Dedupe([i \in DOMAIN kept |-> Of(kept[i])])

\* Cargo.lock: what has no source is the workspace, and what the workspace
\* asks for is direct.
CargoLock(packages) ==
    LET local == {packages[i].name : i \in {j \in DOMAIN packages : packages[j].source = None}}
        direct == UNION {ToSet(packages[i].requires) :
                            i \in {j \in DOMAIN packages : packages[j].name \in local}}
        Of(p) == Dependency(p.name, p.version,
                     IF p.name \in direct THEN "runtime_direct" ELSE "runtime_transitive",
                     TRUE, IF p.name \in direct THEN 0 ELSE 1, << >>)
        foreign == Kept(packages, {i \in DOMAIN packages : packages[i].name \notin local})
    IN  Dedupe([i \in DOMAIN foreign |-> Of(foreign[i])])

\* pom.xml: a version is one, None, or Bad for a property nobody defines and
\* for a range.
PomXml(declared, managed) ==
    LET Version(d) == IF d.version = None /\ d.name \in DOMAIN managed
                      THEN managed[d.name] ELSE d.version
        known == Kept(declared, {i \in DOMAIN declared : /\ Version(declared[i]) # None
                                                         /\ Parses(Version(declared[i]))})
        Of(d) == Dependency(d.name, Version(d),
                     IF d.scope \in {"test", "provided"} THEN "dev_only" ELSE "runtime_direct",
                     TRUE, 0, << >>)
    IN  Dedupe([i \in DOMAIN known |-> Of(known[i])])

\* gradle.lockfile and build.sbt.lock: which configurations ask for it.  A
\* line that names none ships for sbt and does not for Gradle.
Resolved(lines, shipping) ==
    LET Of(l) == Dependency(l.name, l.version,
                     IF l \in shipping THEN "runtime_transitive" ELSE "dev_only",
                     TRUE, 0, << >>)
    IN  Dedupe([i \in DOMAIN lines |-> Of(lines[i])])

\* (Variant: a line ships when it names no configuration of the tests.)
GradleLockfileAll(lines) ==
    Resolved(lines, {l \in ToSet(lines) : "test" \notin l.configurations})

GradleLockfile(lines) ==
    Resolved(lines, {l \in ToSet(lines) : l.configurations \ {"test"} # {}})

SbtLock(lines) ==
    Resolved(lines, {l \in ToSet(lines) :
                         l.configurations = {} \/ l.configurations \ {"test"} # {}})
=============================================================================
