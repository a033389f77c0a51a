--------------------------- MODULE Administration ---------------------------
(***************************************************************************)
(* Who administers a deployment: accounts deleted, suspended, promoted and *)
(* demoted by overlapping requests and shells, and the administrator that  *)
(* a starting process makes when there is none.                            *)
(*                                                                         *)
(* A request reads the accounts when it starts and writes when it commits. *)
(* Its entry in the audit trail refers to actor and target: inserting it   *)
(* needs both rows and keeps them from being deleted until the transaction *)
(* ends.  A process that starts has one connection, and mail settings as   *)
(* _preflight wants them; sessions and the typed confirmation are left out.*)
(***************************************************************************)
EXTENDS FiniteSets

CONSTANTS
  User,         \* accounts
  Configured,   \* the one whose address is ADMIN_EMAIL
  Request,      \* requests to the panel, sign-ins and shells that may be in flight
  Process       \* web processes and shells that run ensure_admin

AdministrationAssumption == Configured \in User /\ IsFiniteSet(User)

VARIABLES
  row,        \* the rows of users
  job,        \* what each request has read and where it is
  boot,       \* where each process is in ensure_admin
  holder,     \* who holds LOCK_ADMIN_BOOTSTRAP
  password,   \* the process that made up the password of Configured, or its owner
  mailed,     \* history: the processes whose password has been mailed
  raced       \* history: a removal was decided on before another, and done after it

stored == <<row, password>>
vars == <<stored, job, boot, holder, mailed, raced>>

NoRow == [exists |-> FALSE, admin |-> FALSE, suspended |-> FALSE]
Idle == [op |-> "idle", actor |-> Configured, target |-> Configured, audited |-> FALSE, overtaken |-> FALSE]
Free(r) == job[r].op = "idle"
Done(r) == job' = [job EXCEPT ![r] = Idle]

Exists(u) == row[u].exists
Admins == {u \in User : row[u].admin}
is_last_admin(u) == Admins = {u}
can_sign_in(u) == Exists(u) /\ ~row[u].suspended

-----------------------------------------------------------------------------
(***************************************************************************)
(* The panel, sign-in, promote-admin and demote-admin.                     *)
(***************************************************************************)

Ask(r, op, actor, target) ==
  /\ Free(r)
  /\ job' = [job EXCEPT ![r] = [Idle EXCEPT !.op = op, !.actor = actor, !.target = target]]
  /\ UNCHANGED <<stored, boot, holder, mailed, raced>>

AskPanel(r) ==
  \E actor \in Admins, target \in User :
    /\ can_sign_in(actor) /\ Exists(target)
    /\ \/ target # actor /\ ~is_last_admin(target) /\ Ask(r, "delete", actor, target)
       \/ target # actor /\ ~row[target].admin /\ ~row[target].suspended /\ Ask(r, "suspend", actor, target)
       \/ row[target].suspended /\ Ask(r, "unsuspend", actor, target)

\* From a shell; signing in promotes Configured as well.
AskPromote(r) ==
  \E u \in User : Exists(u) /\ ~row[u].admin /\ Ask(r, "promote", u, u)
AskDemote(r) ==
  \E u \in Admins : ~is_last_admin(u) /\ Ask(r, "demote", u, u)

\* The entry of a deletion is flushed before the account is deleted.
\* (Variant: and nothing of it is written before.)
record_audit_later(r) == job' = [job EXCEPT ![r].audited = TRUE]
record_audit(r) ==
  IF Exists(job[r].actor) /\ Exists(job[r].target)
  THEN job' = [job EXCEPT ![r].audited = TRUE]
  ELSE Done(r)

Audit(r) ==
  /\ job[r].op = "delete" /\ ~job[r].audited
  /\ record_audit(r)
  /\ UNCHANGED <<stored, boot, holder, mailed, raced>>

\* Referred to by an entry that is not committed yet.
Referred(u, r) == \E q \in Request \ {r} : job[q].audited /\ u \in {job[q].actor, job[q].target}

\* A demotion overtakes every removal under way, and a deletion every demotion.
Overtaking(r, ops) ==
  [q \in Request |-> IF q = r THEN Idle
                     ELSE [job[q] EXCEPT !.overtaken = @ \/ job[q].op \in ops]]

Delete(r) ==
  LET j == job[r] IN
  /\ j.op = "delete" /\ j.audited /\ ~Referred(j.target, r)
  /\ row' = [row EXCEPT ![j.target] = NoRow]
  /\ password' = IF j.target = Configured THEN "owner" ELSE password
  /\ job' = Overtaking(r, {"demote"})
  /\ raced' = (raced \/ j.overtaken)
  /\ UNCHANGED <<boot, holder, mailed>>

Entered(r) == Exists(job[r].actor) /\ Exists(job[r].target)

Suspend(r) ==
  /\ job[r].op = "suspend" /\ Entered(r)
  /\ row' = [row EXCEPT ![job[r].target].suspended = TRUE]
  /\ Done(r) /\ UNCHANGED <<password, boot, holder, mailed, raced>>

Unsuspend(r) ==
  /\ job[r].op = "unsuspend" /\ Entered(r)
  /\ row' = [row EXCEPT ![job[r].target].suspended = FALSE]
  /\ Done(r) /\ UNCHANGED <<password, boot, holder, mailed, raced>>

Promote(r) ==
  /\ job[r].op = "promote" /\ Entered(r)
  /\ row' = [row EXCEPT ![job[r].target].admin = TRUE]
  /\ Done(r) /\ UNCHANGED <<password, boot, holder, mailed, raced>>

Demote(r) ==
  /\ job[r].op = "demote" /\ Entered(r)
  /\ row' = [row EXCEPT ![job[r].target].admin = FALSE]
  /\ job' = Overtaking(r, {"demote", "delete"})
  /\ raced' = (raced \/ job[r].overtaken)
  /\ UNCHANGED <<password, boot, holder, mailed>>

\* A row it needs is gone, it is the victim of a deadlock, or its connection drops.
Fail(r) ==
  /\ ~Free(r)
  /\ Done(r) /\ UNCHANGED <<stored, boot, holder, mailed, raced>>

-----------------------------------------------------------------------------
(***************************************************************************)
(* ensure_admin.  Its caller commits, after the lock has been given back.  *)
(***************************************************************************)

At(p, at) == boot[p] = at
Goto(p, at) == boot' = [boot EXCEPT ![p] = at]
Unlock(p) == holder' = IF holder = p THEN "nobody" ELSE holder

\* An account with this address that is not committed: a second one waits.
Inserted == {p \in Process : boot[p] \in {"created", "mailed"}}

ensure_admin(p) ==
  /\ At(p, "idle") /\ Admins = {}
  /\ Goto(p, "checked")
  /\ UNCHANGED <<stored, job, holder, mailed, raced>>

\* It is declined as well while the metadata job holds the key, which is the
\* same number (LOCK_PACKAGE_METADATA).
Lock(p) ==
  /\ At(p, "checked")
  /\ \/ holder = "nobody" /\ Admins = {} /\ holder' = p /\ Goto(p, "locked")
     \/ Goto(p, "idle") /\ UNCHANGED holder
  /\ UNCHANGED <<stored, job, mailed, raced>>

Find(p) ==
  /\ At(p, "locked")
  /\ Goto(p, IF Exists(Configured) THEN "promoting" ELSE "creating")
  /\ UNCHANGED <<stored, job, holder, mailed, raced>>

Flush(p) ==
  /\ At(p, "promoting")
  /\ IF Exists(Configured) THEN Goto(p, "promoted") ELSE Goto(p, "idle")
  /\ Unlock(p)
  /\ UNCHANGED <<stored, job, mailed, raced>>

\* With a password made up for the purpose; the address is unique.
Insert(p) ==
  /\ At(p, "creating") /\ Inserted = {}
  /\ IF Exists(Configured)
     THEN Goto(p, "idle") /\ Unlock(p) /\ UNCHANGED mailed
     ELSE Goto(p, "created") /\ mailed' = mailed \ {p} /\ UNCHANGED holder
  /\ UNCHANGED <<stored, job, raced>>

\* (Variant: delivery is somebody else's concern.)
send_email_anyway(p) ==
  /\ Goto(p, "mailed")
  /\ mailed' \in {mailed, mailed \cup {p}}
\* A mail that cannot be sent rolls the account back.
send_email(p) ==
  \/ Goto(p, "mailed") /\ mailed' = mailed \cup {p}
  \/ Goto(p, "idle") /\ UNCHANGED mailed

Mail(p) ==
  /\ At(p, "created")
  /\ send_email(p)
  /\ Unlock(p)
  /\ UNCHANGED <<stored, job, raced>>

BootCommit(p) ==
  /\ \/ At(p, "mailed") /\ row' = [row EXCEPT ![Configured] = [NoRow EXCEPT !.exists = TRUE, !.admin = TRUE]]
                        /\ password' = p
     \/ At(p, "promoted") /\ row' = [row EXCEPT ![Configured].admin = Exists(Configured)]
                          /\ UNCHANGED password
  /\ Goto(p, "idle")
  /\ UNCHANGED <<job, holder, mailed, raced>>

Crash(p) ==
  /\ ~At(p, "idle")
  /\ Goto(p, "idle") /\ Unlock(p)
  /\ UNCHANGED <<stored, job, mailed, raced>>

\* The owner of the address signs up, and is an administrator at once.
SignUp ==
  /\ ~Exists(Configured) /\ Inserted = {}
  /\ row' = [row EXCEPT ![Configured] = [NoRow EXCEPT !.exists = TRUE, !.admin = TRUE]]
  /\ password' = "owner"
  /\ UNCHANGED <<job, boot, holder, mailed, raced>>

-----------------------------------------------------------------------------
AtRest ==
  /\ job = [r \in Request |-> Idle] /\ boot = [p \in Process |-> "idle"]
  /\ holder = "nobody" /\ password = "owner" /\ mailed = {} /\ raced = FALSE

\* A deployment with an administrator, and one without.
PanelInit ==
  /\ row = [u \in User |-> [exists |-> TRUE, admin |-> u # Configured, suspended |-> FALSE]]
  /\ AtRest
BootInit == row = [u \in User |-> NoRow] /\ AtRest
Init == PanelInit \/ BootInit

PanelNext ==
  \E r \in Request :
    \/ AskPanel(r) \/ AskPromote(r) \/ AskDemote(r) \/ Audit(r) \/ Delete(r)
    \/ Suspend(r) \/ Unsuspend(r) \/ Promote(r) \/ Demote(r) \/ Fail(r)
BootNext ==
  \/ SignUp
  \/ \E p \in Process :
       \/ ensure_admin(p) \/ Lock(p) \/ Find(p) \/ Flush(p)
       \/ Insert(p) \/ Mail(p) \/ BootCommit(p) \/ Crash(p)
Next == PanelNext \/ BootNext

Spec == Init /\ [][Next]_vars

-----------------------------------------------------------------------------
\* Two administrators who delete each other do not both succeed: a deployment
\* that has an administrator has one afterwards, unless a demotion from a shell
\* overlapped with another removal.
LastAdminStays == Admins # {} => Admins' # {} \/ raced'

\* Nobody is left with an administrator whose password was never sent, however
\* many processes start at once, and wherever one of them dies.
AdminPasswordIsKnown == password = "owner" \/ password \in mailed

\* The panel never loses its last administrator, and no step makes one whose
\* password nobody was sent.
SomebodyAdministers == [][LastAdminStays /\ AdminPasswordIsKnown']_vars
=============================================================================
