------------------------------ MODULE Showcase ------------------------------
(***************************************************************************)
(* One account's name on the landing page: the owner says it is a company, *)
(* names it and asks to be shown; an administrator approves the name.  A   *)
(* handler reads the account when it starts and writes, when it commits,   *)
(* the columns that are to differ from what it read.                       *)
(***************************************************************************)
CONSTANTS
  Name,      \* company names
  Request    \* requests in flight, of the owner and of administrators

VARIABLES
  account,   \* the columns of users
  request,
  checked,   \* history: the name the last approval found
  asked,     \* history: the owner's last word on being shown
  crossed    \* history: two requests about it overlapped

vars == <<account, request, checked, asked, crossed>>

ShowcaseAssumption == "no name" \notin Name

Personal == [organisation |-> FALSE, name |-> "no name", opt_in |-> FALSE, approved |-> FALSE]
NoRequest == [op |-> "idle", name |-> "no name", read |-> Personal, overtaken |-> FALSE]
Free(r) == request[r].op = "idle"

is_showcased ==
  account.organisation /\ account.name # "no name" /\ account.opt_in /\ account.approved

\* A column is written when it is to differ from what was read.
Column(c, was, is) == IF was[c] = is THEN account[c] ELSE is

-----------------------------------------------------------------------------
Ask(r, op, name) ==
  /\ Free(r)
  /\ request' = [request EXCEPT ![r] = [NoRequest EXCEPT !.op = op, !.name = name, !.read = account]]
  /\ UNCHANGED <<account, checked, asked, crossed>>

\* set_organisation, set_showcase and the panel's set_user_showcase, as far as
\* they are not refused.
AskSome(r) ==
  \/ \E n \in Name : Ask(r, "rename", n)
  \/ Ask(r, "personal", "no name") \/ Ask(r, "opt out", "no name") \/ Ask(r, "revoke", "no name")
  \/ account.organisation /\ account.name # "no name"
       /\ (Ask(r, "opt in", "no name") \/ Ask(r, "approve", "no name"))

Write(r, organisation, name, opt_in, approved) ==
  /\ account' = [organisation |-> organisation, name |-> name, opt_in |-> opt_in, approved |-> approved]
  /\ request' = [q \in Request |-> IF q = r THEN NoRequest ELSE [request[q] EXCEPT !.overtaken = ~Free(q)]]
  /\ crossed' = (crossed \/ request[r].overtaken)

\* (Variant: a new name keeps the approval of the old one.)
become_organisation_approved(r) ==
  LET was == request[r].read IN
  Write(r, Column("organisation", was, TRUE), Column("name", was, request[r].name), account.opt_in, account.approved)
become_organisation(r) ==
  LET was == request[r].read IN
  Write(r, Column("organisation", was, TRUE), Column("name", was, request[r].name), account.opt_in,
        Column("approved", was, FALSE))

become_personal(r) ==
  LET was == request[r].read IN
  Write(r, Column("organisation", was, FALSE), Column("name", was, "no name"),
        Column("opt_in", was, FALSE), Column("approved", was, FALSE))

set_showcase_opt_in(r, opted_in) ==
  Write(r, account.organisation, account.name, Column("opt_in", request[r].read, opted_in), account.approved)

\* The time of it differs from any that was stored.
approve_showcase(r) == Write(r, account.organisation, account.name, account.opt_in, TRUE)
revoke_showcase(r) ==
  Write(r, account.organisation, account.name, account.opt_in, Column("approved", request[r].read, FALSE))

Commit(r) ==
  \/ request[r].op = "rename" /\ become_organisation(r) /\ UNCHANGED <<checked, asked>>
  \/ request[r].op = "personal" /\ become_personal(r) /\ asked' = FALSE /\ UNCHANGED checked
  \/ request[r].op = "opt in" /\ set_showcase_opt_in(r, TRUE) /\ asked' = TRUE /\ UNCHANGED checked
  \/ request[r].op = "opt out" /\ set_showcase_opt_in(r, FALSE) /\ asked' = FALSE /\ UNCHANGED checked
  \/ request[r].op = "approve" /\ approve_showcase(r) /\ checked' = request[r].read.name /\ UNCHANGED asked
  \/ request[r].op = "revoke" /\ revoke_showcase(r) /\ UNCHANGED <<checked, asked>>

Init ==
  /\ account = Personal /\ request = [r \in Request |-> NoRequest]
  /\ checked = "no name" /\ asked = FALSE /\ crossed = FALSE

Next == \E r \in Request : AskSome(r) \/ Commit(r)

Spec == Init /\ [][Next]_vars

-----------------------------------------------------------------------------
\* A name is shown when the last approval found that very name, and its owner
\* has not taken the consent back since, unless two requests about it
\* overlapped.  (What the administrator had on the page is not sent along.)
NamesAreChecked == is_showcased => (account.name = checked /\ asked) \/ crossed
=============================================================================
