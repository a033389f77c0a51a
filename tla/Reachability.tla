---------------------------- MODULE Reachability ----------------------------
(***************************************************************************)
(* app/core/reachability.py: which npm dependencies the uploaded source    *)
(* imports.  A source file is what its text comes to: whether its path is  *)
(* one the analyser takes, whether it is production source, the packages   *)
(* it imports and whether it imports something that is not a literal.  The *)
(* evidence kept with a state is left out.                                 *)
(***************************************************************************)
EXTENDS Integers, Sequences, FiniteSets

Strength == [unknown |-> 0, not_observed |-> 0, potentially_reachable |-> 1, reachable |-> 2]

Readable(files) == {f \in files : f.supported}

\* The imports seen, as pairs of a package and whether production asks for it.
Imports(files) == UNION {{<< package, f.production >> : package \in f.imports} : f \in Readable(files)}

Imported(files, package) == \E production \in BOOLEAN : << package, production >> \in Imports(files)

\* (Variant: an import nobody can read is not counted as a doubt.)
UncertainUnlessComplete(bundle) == ~ bundle.complete

\* What makes a negative answer unsafe: an inventory that is not complete, a
\* file that was skipped, an import nobody can read.
Uncertain(bundle) ==
    \/ ~ bundle.complete
    \/ \E f \in bundle.files : ~ f.supported \/ f.dynamic

\* via[1] is the direct dependency that leads to this one.
AnalyzeOne(dependency, bundle) ==
    LET throughRoot == /\ dependency.via # << >>
                       /\ dependency.depth > 0
                       /\ Imported(bundle.files, dependency.via[1])
        noRoute == dependency.depth > 0 /\ dependency.via = << >>
    IN  IF << dependency.name, TRUE >> \in Imports(bundle.files) THEN "reachable"
        ELSE IF Imported(bundle.files, dependency.name) \/ throughRoot
        THEN "potentially_reachable"
        ELSE IF Uncertain(bundle) \/ noRoute THEN "unknown" ELSE "not_observed"

\* A scan that comes without source repeats what the last one with source
\* stored of the same version, and knows nothing of any other.
CarryForward(dependency, rows) ==
    LET stored == {r \in rows : r.name = dependency.name /\ r.version = dependency.version}
    IN  IF stored = {} THEN "unknown"
        ELSE (CHOOSE r \in stored : TRUE).automated_reachability

(* engine/pkg/reachability: any file makes the inventory complete, tests
   count as source, and a route through an imported package outranks an
   import of the package itself. *)

GoAnalyzeOne(dependency, bundle) ==
    IF /\ dependency.depth > 0
       /\ dependency.via # << >>
       /\ \E f \in bundle.files : dependency.via[1] \in f.imports
    THEN "potentially_reachable"
    ELSE IF \E f \in bundle.files : dependency.name \in f.imports THEN "reachable"
    ELSE IF bundle.files # {} THEN "not_observed" ELSE "unknown"
=============================================================================
