------------------------------ MODULE Projects ------------------------------
(***************************************************************************)
(* The files of one project, and the pushes that replace them.             *)
(*                                                                         *)
(* A project keeps one row per manifest, and on its own row a copy of what *)
(* the first of them holds.  The Python service replaces a file in one     *)
(* transaction: it reads the project when the key is checked, the          *)
(* manifests later, and writes the columns it changed when it commits.     *)
(* The web server does the same statement by statement, outside any        *)
(* transaction.  Parsing is left out: a file is known by its name and its  *)
(* ecosystem.                                                              *)
(***************************************************************************)
EXTENDS Naturals, FiniteSets, Sequences

CONSTANTS
  File,      \* contents that can be parsed
  EcoOf,     \* the ecosystem of a content
  PathOf,    \* the name it is uploaded under
  Pusher,    \* requests to the Python service: pipelines, and the browser's form
  WebTab,    \* requests to the web server
  api_scan_rate_limit_per_hour

Ecosystem == {EcoOf[f] : f \in File}
Null == "null"

ProjectsAssumption ==
  /\ IsFiniteSet(File) /\ Null \notin File
  /\ EcoOf \in [File -> Ecosystem] /\ Null \notin Ecosystem /\ DOMAIN PathOf = File
  /\ IsFiniteSet(Pusher) /\ IsFiniteSet(WebTab) /\ Pusher \cap WebTab = {}
  /\ api_scan_rate_limit_per_hour \in Nat \ {0}

VARIABLES
  target,     \* the project: is it there, its ecosystem, and the file it mirrors
  manifests,  \* its rows of project_manifests, the oldest first
  push,       \* what each request has read and is about to write
  runs,       \* the rows of scan_runs of the last hour, up to the limit
  pushed      \* those of them that pipelines caused

vars == <<target, manifests, push, runs, pushed>>

Idle == [at |-> "idle", file |-> Null, mirror |-> Null, rows |-> <<>>]
PathTaken(i, f) == \E k \in DOMAIN manifests : k # i /\ manifests[k].path = PathOf[f]
Row(f) == [path |-> PathOf[f], ecosystem |-> EcoOf[f], file |-> f]
\* A renamed file keeps its row, and the row its ecosystem.
Holding(row, f) == [row EXCEPT !.path = PathOf[f], !.file = f]

Counted(n) == IF n < api_scan_rate_limit_per_hour THEN n + 1 ELSE n

-----------------------------------------------------------------------------
(***************************************************************************)
(* A project begins with a file, or with the name of an ecosystem only.    *)
(***************************************************************************)

create_empty_target(e) ==
  /\ ~target.there /\ target.ecosystem = Null
  /\ target' = [there |-> TRUE, ecosystem |-> e, mirror |-> Null]
  /\ UNCHANGED <<manifests, push, runs, pushed>>

create_target(f) ==
  /\ ~target.there /\ target.ecosystem = Null
  /\ target' = [there |-> TRUE, ecosystem |-> EcoOf[f], mirror |-> f]
  /\ manifests' = <<Row(f)>>
  /\ UNCHANGED <<push, runs, pushed>>

\* The rows go with it; what is in flight finds nothing to write to.
delete_target ==
  /\ target.there
  /\ target' = [target EXCEPT !.there = FALSE]
  /\ manifests' = <<>>
  /\ UNCHANGED <<push, runs, pushed>>

-----------------------------------------------------------------------------
(***************************************************************************)
(* A push to the Python service.                                           *)
(***************************************************************************)

\* (Variant: one more than the limit passes.)
check_rate_limit_loose == runs <= api_scan_rate_limit_per_hour
check_rate_limit == runs < api_scan_rate_limit_per_hour

\* The key is looked up with its project, and the scans of the hour are counted.
authenticate_push(p, f) ==
  /\ push[p] = Idle /\ target.there
  /\ check_rate_limit
  /\ push' = [push EXCEPT ![p] = [Idle EXCEPT !.at = "read", !.file = f, !.mirror = target.mirror]]
  /\ UNCHANGED <<target, manifests, runs, pushed>>

\* (Variant: a file of any ecosystem replaces the first one.)
AcceptedAlways(rows, f) == TRUE
\* The ecosystem of the first manifest stands, or the declared one.
Accepted(rows, f) == EcoOf[f] = (IF rows = <<>> THEN target.ecosystem ELSE rows[1].ecosystem)

Unchanged(p) == push[p].mirror = push[p].file

\* The manifests are read: by the replacement, or, when the content is the one
\* the project is known to have, by the scan.
load_manifests(p) ==
  /\ push[p].at = "read" /\ target.there
  /\ Unchanged(p) \/ Accepted(manifests, push[p].file)
  /\ push' = [push EXCEPT ![p].at = "loaded", ![p].rows = manifests]
  /\ UNCHANGED <<target, manifests, runs, pushed>>

refuse_push(p) ==
  /\ push[p].at = "read"
  /\ ~target.there \/ ~(Unchanged(p) \/ Accepted(manifests, push[p].file))
  /\ push' = [push EXCEPT ![p] = Idle]
  /\ UNCHANGED <<target, manifests, runs, pushed>>

Answered(p) ==
  /\ runs' = Counted(runs) /\ pushed' = pushed + 1
  /\ push' = [push EXCEPT ![p] = Idle]

\* Nothing to replace: the files that were loaded are scanned.
scan_unchanged(p) ==
  /\ push[p].at = "loaded" /\ target.there /\ Unchanged(p)
  /\ Answered(p)
  /\ UNCHANGED <<target, manifests>>

\* A column that already held the new value when it was loaded is not written.
replace_manifest(p) ==
  LET f == push[p].file
      old == push[p].rows IN
  /\ push[p].at = "loaded" /\ target.there /\ ~Unchanged(p)
  /\ ~PathTaken(IF old = <<>> THEN 0 ELSE 1, f)
  /\ target' = [target EXCEPT !.mirror = f]
  /\ manifests' = IF old = <<>> THEN Append(manifests, Row(f))
                  ELSE IF old[1].file = f THEN manifests
                  ELSE [manifests EXCEPT ![1] = Holding(@, f)]
  /\ Answered(p)

\* The project went away, or another file of it has that path.
push_fails(p) ==
  /\ push[p].at = "loaded"
  /\ \/ ~target.there
     \/ ~Unchanged(p) /\ PathTaken(IF push[p].rows = <<>> THEN 0 ELSE 1, push[p].file)
  /\ push' = [push EXCEPT ![p] = Idle]
  /\ UNCHANGED <<target, manifests, runs, pushed>>

-----------------------------------------------------------------------------
(***************************************************************************)
(* The web server's form.                                                  *)
(***************************************************************************)

WebReads(w, f) ==
  /\ push[w] = Idle /\ target.there /\ EcoOf[f] = target.ecosystem
  /\ push' = [push EXCEPT ![w] = [Idle EXCEPT !.at = "read", !.file = f]]
  /\ UNCHANGED <<target, manifests, runs, pushed>>

WebFinds(w) ==
  /\ push[w].at = "read"
  /\ push' = [push EXCEPT ![w].at = "loaded", ![w].rows = manifests]
  /\ UNCHANGED <<target, manifests, runs, pushed>>

\* By the row's id; a row that is gone is not written.
WebWrites(w) ==
  LET new == push[w].rows = <<>> IN
  /\ push[w].at = "loaded"
  /\ new => target.there
  /\ manifests # <<>> => ~PathTaken(IF new THEN 0 ELSE 1, push[w].file)
  /\ manifests' = IF new THEN Append(manifests, Row(push[w].file))
                  ELSE [i \in DOMAIN manifests |-> IF i = 1 THEN Holding(manifests[i], push[w].file) ELSE manifests[i]]
  /\ push' = [push EXCEPT ![w].at = "written"]
  /\ UNCHANGED <<target, runs, pushed>>

WebFails(w) ==
  /\ push[w].at = "loaded"
  /\ \/ push[w].rows = <<>> /\ ~target.there
     \/ manifests # <<>> /\ PathTaken(IF push[w].rows = <<>> THEN 0 ELSE 1, push[w].file)
  /\ push' = [push EXCEPT ![w] = Idle]
  /\ UNCHANGED <<target, manifests, runs, pushed>>

\* The copy on the project follows, and a scan is recorded.
WebMirrors(w) ==
  /\ push[w].at = "written"
  /\ target' = IF target.there THEN [target EXCEPT !.mirror = push[w].file] ELSE target
  /\ runs' = IF target.there THEN Counted(runs) ELSE runs
  /\ push' = [push EXCEPT ![w] = Idle]
  /\ UNCHANGED <<manifests, pushed>>

\* An hour passes.
HourPasses ==
  /\ runs # 0 /\ runs' = 0 /\ pushed' = 0
  /\ UNCHANGED <<target, manifests, push>>

-----------------------------------------------------------------------------
Init ==
  /\ target = [there |-> FALSE, ecosystem |-> Null, mirror |-> Null]
  /\ manifests = <<>>
  /\ push = [p \in Pusher \cup WebTab |-> Idle]
  /\ runs = 0 /\ pushed = 0

Next ==
  \/ \E e \in Ecosystem : create_empty_target(e)
  \/ \E f \in File : create_target(f)
  \/ delete_target \/ HourPasses
  \/ \E p \in Pusher :
       \/ \E f \in File : authenticate_push(p, f)
       \/ load_manifests(p) \/ refuse_push(p) \/ scan_unchanged(p)
       \/ replace_manifest(p) \/ push_fails(p)
  \/ \E w \in WebTab :
       \/ \E f \in File : WebReads(w, f)
       \/ WebFinds(w) \/ WebWrites(w) \/ WebFails(w) \/ WebMirrors(w)

Spec == Init /\ [][Next]_vars

-----------------------------------------------------------------------------
\* However many pushes are counted at the same time, no more of them pass in an
\* hour than the limit and those that were in flight with the last one.
PushesAreRationed == pushed <= api_scan_rate_limit_per_hour + Cardinality(Pusher) - 1

\* Findings are recorded against a manifest: what it holds stays of the
\* ecosystem they were matched in, whichever server replaces it.
NothingIsReinterpreted == \A i \in DOMAIN manifests : EcoOf[manifests[i].file] = manifests[i].ecosystem

=============================================================================
