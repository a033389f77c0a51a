-------------------------------- MODULE Gate --------------------------------
(***************************************************************************)
(* What a pipeline is told of a project after a push: the counts and the   *)
(* findings spelled out in the answer (app/routes/api.py).  A stored       *)
(* finding is its severity, whether it is known to be exploited, whether   *)
(* it is malware, its verdict and its status; the texts beside it are left *)
(* out.                                                                    *)
(***************************************************************************)
EXTENDS Triage

CONSTANT MAX_INLINE_FINDINGS

\* Only what is open and actionable is told.
Told(findings) ==
    Kept(findings, {i \in DOMAIN findings :
                       findings[i].verdict = "actionable" /\ findings[i].status = "open"})

CountsIn(f, name) ==
    CASE name = "malicious" -> f.malicious
      [] name = "exploited" -> f.kev
      [] OTHER -> f.severity = name

severity_counts(findings) ==
    LET told == Told(findings)
    IN  [name \in Severities \union {"malicious", "exploited"} |->
            Cardinality({i \in DOMAIN told : CountsIn(told[i], name)})]

MayBlock(f) == f.severity \in {"critical", "high"} \/ f.kev \/ f.malicious

\* Exploited first, then by severity, as the decisions of a scan.
blocking_findings(findings) ==
    LET told == Told(findings)
        worst == Kept(told, {i \in DOMAIN told : MayBlock(told[i])})
        sorted == Sorted(worst, [i \in DOMAIN worst |-> Urgency(worst[i].kev, worst[i].severity)])
    IN  SubSeq(sorted, 1, Min({Len(sorted), MAX_INLINE_FINDINGS}))
=============================================================================
