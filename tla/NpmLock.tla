------------------------------ MODULE NpmLock -------------------------------
(***************************************************************************)
(* A package-lock.json, from version 2 on, as app/core/manifests.py and    *)
(* the engine in Go read it.  The walk over it is a loop, and here a state *)
(* machine, because the order in which that loop serves its queue is what  *)
(* decides the depth of a package.  Names are numbers, in the order the    *)
(* loop sorts them.                                                        *)
(***************************************************************************)
EXTENDS Manifests

CONSTANT Locks       \* the files: [direct, entries], the names the root asks
                     \* for outside devDependencies, and the packages in the
                     \* order of the file: [name, nesting, version, dev, requires]

VARIABLES lock,      \* the file that is read
          queue,     \* names to visit
          routes     \* name -> the chain from the project to it

walk == << lock, queue, routes >>

IsEntry(entry) ==
    /\ entry.name \in Nat /\ entry.nesting \in Nat /\ entry.dev \in BOOLEAN
    /\ entry.requires \in Seq(Nat)

NpmLockAssumption ==
    /\ MaxWalkDepth \in Nat \ {0}
    /\ \A file \in Locks :
          /\ file.direct \subseteq Nat /\ IsFiniteSet(file.direct)
          /\ file.entries \in Seq(ToSet(file.entries))
          /\ \A i \in DOMAIN file.entries : IsEntry(file.entries[i])

-----------------------------------------------------------------------------
(* The walk *)

\* Of several copies of a package the shallowest, the first of the shallowest.
IndexByName(entries, name) ==
    LET copies == {i \in DOMAIN entries : entries[i].name = name}
        hoisted == {i \in copies : \A j \in copies : entries[i].nesting <= entries[j].nesting}
    IN  IF copies = {} THEN << >> ELSE entries[Min(hoisted)].requires

\* Numbers from the lowest to the highest.
InOrder(numbers) ==
    [k \in 1 .. Cardinality(numbers) |->
        CHOOSE n \in numbers : Cardinality({m \in numbers : m < n}) = k - 1]

\* One round of the inner loops: the children not seen before, in order.
NewChildren(name) ==
    LET wanted == IndexByName(lock.entries, name)
        first == {i \in DOMAIN wanted : /\ wanted[i] \notin DOMAIN routes
                                        /\ \A j \in 1 .. i - 1 : wanted[j] # wanted[i]}
    IN  IF Len(routes[name]) >= MaxWalkDepth THEN << >>
        ELSE [k \in 1 .. Cardinality(first) |-> wanted[InOrder(first)[k]]]

Routed(name, children) ==
    [n \in DOMAIN routes \union ToSet(children) |->
        IF n \in DOMAIN routes THEN routes[n] ELSE Append(routes[name], n)]

\* (Variant: the children are served before the names that waited.)
VisitDeepFirst ==
    /\ queue # << >>
    /\ LET children == NewChildren(Head(queue))
       IN  /\ queue' = children \o Tail(queue)
           /\ routes' = Routed(Head(queue), children)
    /\ UNCHANGED lock

Visit ==
    /\ queue # << >>
    /\ LET children == NewChildren(Head(queue))
       IN  /\ queue' = Tail(queue) \o children
           /\ routes' = Routed(Head(queue), children)
    /\ UNCHANGED lock

WalkInit ==
    /\ lock \in Locks
    /\ queue = InOrder(lock.direct)
    /\ routes = [name \in lock.direct |-> << name >>]

WalkSpec == WalkInit /\ [][Visit]_walk

-----------------------------------------------------------------------------
(* What is scanned, once the walk is over *)

LockReachability(entry, direct) ==
    IF entry.dev THEN "dev_only"
    ELSE IF entry.name \in direct THEN "runtime_direct" ELSE "runtime_transitive"

\* What no route reaches is installed and asked for by nothing: depth 1.
LockDependency(entry) ==
    LET routed == entry.name \in DOMAIN routes
        via == IF routed THEN Front(routes[entry.name]) ELSE << >>
        depth == IF routed THEN Len(via) ELSE IF entry.name \in lock.direct THEN 0 ELSE 1
    IN  Dependency(entry.name, entry.version, LockReachability(entry, lock.direct),
                   TRUE, depth, via)

\* _parse_lock_v2, once the walk is over.
PackageLock ==
    Dedupe([i \in DOMAIN lock.entries |-> LockDependency(lock.entries[i])])

\* The engine's maps are walked in no order, and of two equally deep copies the
\* first stays.
GoLockDependency(entry) ==
    Dependency(entry.name, entry.version, LockReachability(entry, lock.direct), TRUE,
               IF entry.name \in lock.direct THEN 0 ELSE entry.nesting - 1, << >>)

\* Every result the engine can come to: one copy per name and version.
GoPackageLock ==
    LET deps == {GoLockDependency(lock.entries[i]) : i \in DOMAIN lock.entries}
        Key(d) == << d.name, d.version >>
        Shallowest(k) == {d \in deps : Key(d) = k /\ \A e \in deps : Key(e) = k => d.depth <= e.depth}
        keys == {Key(d) : d \in deps}
    IN  {{pick[k] : k \in keys} :
            pick \in {f \in [keys -> deps] : \A k \in keys : f[k] \in Shallowest(k)}}

-----------------------------------------------------------------------------
(* What it says of a package *)

LockNames == lock.direct \union
         UNION {{entry.name} \union ToSet(entry.requires) : entry \in ToSet(lock.entries)}

\* The names n requirements from the project, counting the project's own.
Reached(n) ==
    LET Required == [name \in LockNames |-> ToSet(IndexByName(lock.entries, name))]
        Chains == {c \in [1 .. n -> LockNames] : /\ c[1] \in lock.direct
                                             /\ \A i \in 1 .. n - 1 : c[i + 1] \in Required[c[i]]}
    IN  {c[n] : c \in Chains}

\* A route is a chain of requirements that starts at a direct dependency, no
\* shorter one leads to the package, and at the end every package within the
\* bound of the walk has one: its depth is a distance, not an artefact of the
\* order in which the queue is served (_walk_npm_graph).
RouteIsShortest ==
    /\ \A name \in DOMAIN routes :
          LET route == routes[name]
          IN  /\ route[1] \in lock.direct /\ route[Len(route)] = name
              /\ \A i \in 1 .. Len(route) - 1 :
                    route[i + 1] \in ToSet(IndexByName(lock.entries, route[i]))
    /\ \A n \in 1 .. MaxWalkDepth :
          LET reached == Reached(n)
          IN  /\ \A name \in reached \intersect DOMAIN routes : Len(routes[name]) <= n
              /\ queue = << >> => reached \subseteq DOMAIN routes

\* What is installed is scanned at its version, and as exposed as its most
\* exposed copy; nothing else is scanned (_dedupe keeps one of equal copies).
\* The engine in Go misses no copy either, whichever way it walks its maps.
MostExposedWins ==
    queue = << >> =>
        LET Same(d, e) == d.name = e.name /\ d.version = e.version
        IN  /\ \A i \in DOMAIN lock.entries :
                  /\ \E d \in PackageLock :
                        /\ Same(d, lock.entries[i])
                        /\ ~ lock.entries[i].dev => d.reachability # "dev_only"
                  /\ \A reading \in GoPackageLock : \E d \in reading : Same(d, lock.entries[i])
            /\ \A d \in PackageLock :
                    /\ \E i \in DOMAIN lock.entries : Same(d, lock.entries[i])
                    /\ \A e \in PackageLock : Same(d, e) => d = e
                    /\ d.depth = 0 <=> d.name \in lock.direct
=============================================================================
