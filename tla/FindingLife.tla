---------------------------- MODULE FindingLife -----------------------------
(***************************************************************************)
(* What the life of a finding looks like to its owner, with every check    *)
(* and every decision atomic: a check moves each finding it covers by what *)
(* it saw, a decision moves one finding, and nothing else ever happens.    *)
(* Findings.tla, where a check is a transaction of many steps that the     *)
(* owner's requests interleave with, implements it.                        *)
(***************************************************************************)
CONSTANTS Finding

VARIABLES
  status,   \* none, open, filtered, dismissed or resolved
  verdict   \* what the last check that saw the finding concluded

lifeVars == <<status, verdict>>

LifeInit ==
  /\ status = [f \in Finding |-> "none"]
  /\ verdict = [f \in Finding |-> "suppressed"]

\* A decision the owner took while a check was running may outlive it.
Decided == {"open", "dismissed"}

\* The statuses a check that concluded v may leave a finding of status s in.
After(s, v) ==
  CASE v = "actionable" -> {"open"} \cup ({s} \cap {"dismissed"})
    [] v = "suppressed" -> {"filtered"} \cup ({s} \cap Decided)
    [] v = "absent" -> IF s = "none" THEN {"none"} ELSE {"resolved"} \cup ({s} \cap Decided)

\* A check of finding f that concluded v.
Checked(f, v) ==
  /\ status'[f] \in After(status[f], v)
  /\ verdict'[f] = IF v = "absent" THEN verdict[f] ELSE v

Unchecked(f) == status'[f] = status[f] /\ verdict'[f] = verdict[f]

\* A check covers some of the findings and leaves the others alone.
Check ==
  /\ DOMAIN status' = Finding /\ DOMAIN verdict' = Finding
  /\ \A f \in Finding :
       Unchecked(f) \/ \E v \in {"actionable", "suppressed", "absent"} : Checked(f, v)

\* A finding that is stored is dismissed or reopened by its owner.
Decide ==
  \E f \in Finding, s \in Decided :
    /\ status[f] # "none"
    /\ status' = [status EXCEPT ![f] = s]
    /\ UNCHANGED verdict

LifeNext == Check \/ Decide

LifeSpec == LifeInit /\ [][LifeNext]_lifeVars
=============================================================================
