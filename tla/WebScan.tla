------------------------------- MODULE WebScan -------------------------------
(***************************************************************************)
(* The web server's own scan of a project with one manifest: it asks the   *)
(* engine, reads the stored findings, and brings them up to date statement *)
(* by statement, each one committed on its own.  The owner, the service's  *)
(* scans and other scans of the web server write the same rows meanwhile.  *)
(*                                                                         *)
(* Findings.tla is the service's scan, a transaction of the same steps.    *)
(* notified_at is left out, for this scan announces nothing; so are the    *)
(* counts, the runs and the list of dependencies.                          *)
(***************************************************************************)
EXTENDS FiniteSets

CONSTANTS
  Finding,
  WebTab      \* scans of the web server, step by step

Seen == {"absent", "suppressed", "actionable"}

WebScanAssumption == IsFiniteSet(Finding) /\ IsFiniteSet(WebTab)

VARIABLES
  status,    \* of the stored findings; "none" is no row
  verdict,
  web        \* what each scan was answered, what it read, and what is left to write

vars == <<status, verdict, web>>

\* `alone`: nobody else has written since it read the rows.
Idle == [at |-> "idle", sees |-> [f \in Finding |-> "absent"],
         read |-> [f \in Finding |-> "none"], todo |-> {}, alone |-> TRUE]

Disturbed(others) == [w \in WebTab |-> IF w \in others THEN [web[w] EXCEPT !.alone = FALSE] ELSE web[w]]
Writing == {w \in WebTab : web[w].at = "writing"}

-----------------------------------------------------------------------------
\* The engine is asked first; what it was answered with may be old by now.
scanProject(w, sees) ==
  /\ web[w].at = "idle"
  /\ web' = [web EXCEPT ![w] = [Idle EXCEPT !.at = "answered", !.sees = sees]]
  /\ UNCHANGED <<status, verdict>>

\* (Variant: a finding that is resolved is not looked at again.)
ToWriteUnresolved(sees, read) == {f \in Finding : read[f] # "resolved" /\ (sees[f] # "absent" \/ read[f] # "none")}
\* The rows of the manifest.  What is to be written follows from them alone.
ToWrite(sees, read) == {f \in Finding : sees[f] # "absent" \/ read[f] \notin {"none", "resolved"}}

ReadStored(w) ==
  /\ web[w].at = "answered"
  /\ web' = [web EXCEPT ![w].at = "writing", ![w].read = status, ![w].todo = ToWrite(web[w].sees, status)]
  /\ UNCHANGED <<status, verdict>>

StatusFor(s) == IF s = "actionable" THEN "open" ELSE "filtered"

\* Found ones before the ones that are gone.
Turn(w, f) ==
  /\ web[w].at = "writing" /\ f \in web[w].todo
  /\ web[w].sees[f] = "absent" => \A g \in web[w].todo : web[w].sees[g] = "absent"

Written(w, f) == [Disturbed(Writing \ {w}) EXCEPT ![w].todo = web[w].todo \ {f}, ![w].read[f] = "none"]

Insert(w, f) ==
  LET s == web[w].sees[f] IN
  /\ Turn(w, f) /\ s # "absent" /\ web[w].read[f] = "none"
  /\ status[f] = "none"
  /\ status' = [status EXCEPT ![f] = StatusFor(s)]
  /\ verdict' = [verdict EXCEPT ![f] = s]
  /\ web' = Written(w, f)

\* Dismissed stays dismissed: the statement looks at the row as it is.
\* (Variant: at the row as it was read.)
NewStatusAsRead(w, f) == IF web[w].read[f] = "dismissed" THEN "dismissed" ELSE StatusFor(web[w].sees[f])
NewStatus(w, f) == IF status[f] = "dismissed" THEN "dismissed" ELSE StatusFor(web[w].sees[f])

Update(w, f) ==
  /\ Turn(w, f) /\ web[w].sees[f] # "absent" /\ web[w].read[f] # "none"
  /\ status' = [status EXCEPT ![f] = NewStatus(w, f)]
  /\ verdict' = [verdict EXCEPT ![f] = web[w].sees[f]]
  /\ web' = Written(w, f)

Resolve(w, f) ==
  /\ Turn(w, f) /\ web[w].sees[f] = "absent"
  /\ status' = [status EXCEPT ![f] = "resolved"]
  /\ web' = Written(w, f)
  /\ UNCHANGED verdict

\* A statement fails: a row that was inserted meanwhile, an advisory that is not
\* stored, a connection.  What was written stays.
ScanFails(w) ==
  /\ web[w].at = "writing" /\ web[w].todo # {}
  /\ web' = [web EXCEPT ![w] = Idle]
  /\ UNCHANGED <<status, verdict>>

Done(w) == web[w].at = "writing" /\ web[w].todo = {}

ScanEnds(w) ==
  /\ Done(w)
  /\ web' = [web EXCEPT ![w] = Idle]
  /\ UNCHANGED <<status, verdict>>

-----------------------------------------------------------------------------
(***************************************************************************)
(* The others.                                                             *)
(***************************************************************************)

\* A scan of the service, which writes all of them; or the next statement of
\* another scan of the web server, which writes one.
OtherScan(F, sees) ==
  /\ F = Finding \/ Cardinality(F) = 1
  /\ status' = [f \in Finding |->
       IF f \notin F \/ (sees[f] = "absent" /\ status[f] = "none") THEN status[f]
       ELSE IF sees[f] = "absent" THEN "resolved"
       ELSE IF status[f] = "dismissed" THEN "dismissed" ELSE StatusFor(sees[f])]
  /\ verdict' = [f \in Finding |-> IF f \notin F \/ sees[f] = "absent" THEN verdict[f] ELSE sees[f]]
  /\ web' = Disturbed(Writing)

\* From any page that was rendered before.
Decide(f, s) ==
  /\ status[f] # "none" /\ status[f] # s
  /\ status' = [status EXCEPT ![f] = s]
  /\ web' = Disturbed(Writing)
  /\ UNCHANGED verdict

Init ==
  /\ status = [f \in Finding |-> "none"]
  /\ verdict = [f \in Finding |-> "suppressed"]
  /\ web = [w \in WebTab |-> Idle]

Next ==
  \/ \E sees \in [Finding -> Seen] :
       \/ \E F \in SUBSET Finding : OtherScan(F, sees)
       \/ \E w \in WebTab : scanProject(w, sees)
  \/ \E f \in Finding : Decide(f, "dismissed") \/ Decide(f, "open")
  \/ \E w \in WebTab :
       \/ ReadStored(w) \/ ScanFails(w) \/ ScanEnds(w)
       \/ \E f \in Finding : Insert(w, f) \/ Update(w, f) \/ Resolve(w, f)

Spec == Init /\ [][Next]_vars

-----------------------------------------------------------------------------
\* The statement of a scan that writes a dismissed finding leaves it dismissed,
\* or resolves it.
DismissalStands ==
  \A w \in WebTab, f \in Finding :
    web[w].at = "writing" /\ f \in web[w].todo /\ f \notin web'[w].todo /\ status[f] = "dismissed"
      => status'[f] \in {"dismissed", "resolved"} \/ web'[w] = Idle

\* Statement by statement, next to anyone else, the web server's scan moves a
\* finding in no other way than a check may, and it takes no dismissal back,
\* not even one made while it was running.
Life == INSTANCE FindingLife
WebScanKeepsTheLife == Life!LifeSpec /\ [][DismissalStands]_vars

\* Wherever earlier scans stopped half way, one that comes to its end without
\* anyone else leaves the rows as the engine sees the project.
HalfScansAreMended ==
  \A w \in WebTab : Done(w) /\ web[w].alone =>
    \A f \in Finding :
      /\ web[w].sees[f] = "absent" => status[f] \in {"none", "resolved"}
      /\ web[w].sees[f] # "absent" => status[f] \in {"dismissed", StatusFor(web[w].sees[f])}
                                      /\ verdict[f] = web[w].sees[f]
=============================================================================
