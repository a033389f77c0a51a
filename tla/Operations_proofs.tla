--------------------------- MODULE Operations_proofs ---------------------------
(***************************************************************************)
(* Proofs about what keeps a deployment going: the advisory mirror, who    *)
(* administers it, whose name it shows and its backups, for any number of  *)
(* advisories, accounts, requests, processes and scripts; and the schedule *)
(* of the feeds, for any intervals of one scheduler.                       *)
(***************************************************************************)
EXTENDS Operations, Naturals, FiniteSets, Sequences, FiniteSetTheorems, FunctionTheorems, SequenceTheorems, TLAPS

-----------------------------------------------------------------------------
(***************************************************************************)
(* Showcase.  A request that nothing has overtaken has read the account as *)
(* it is; as long as no request that was overtaken has written, consent    *)
(* and approval are those of the name in the row.                          *)
(***************************************************************************)

Account == [organisation : BOOLEAN, name : Name \cup {"no name"}, opt_in : BOOLEAN, approved : BOOLEAN]
Op == {"idle", "rename", "personal", "opt in", "opt out", "approve", "revoke"}
Asking == [op : Op, name : Name \cup {"no name"}, read : Account, overtaken : BOOLEAN]

ShowcaseInv ==
  /\ company \in Account /\ edit \in [Editor -> Asking] /\ crossed \in BOOLEAN /\ consent \in BOOLEAN
  /\ \A r \in Editor : H!Free(r) \/ edit[r].overtaken \/ edit[r].read = company
  /\ crossed \/ ((company.opt_in => consent) /\ (company.approved => company.name = checked))

LEMMA ShowcaseAsks ==
  ASSUME ShowcaseInv, NEW r \in Editor, NEW op \in Op, NEW n \in Name \cup {"no name"}, H!Ask(r, op, n)
  PROVE  ShowcaseInv'
<1> DEFINE new == [H!NoRequest EXCEPT !.op = op, !.name = n, !.read = company]
<1>1. /\ company \in Account /\ edit \in [Editor -> Asking]
      /\ edit' = [edit EXCEPT ![r] = new] /\ UNCHANGED <<company, checked, consent, crossed>>
  BY DEF ShowcaseInv, H!Ask
<1>2. new \in Asking /\ new.read = company
  BY <1>1 DEF H!NoRequest, H!Personal, Asking, Account
<1> HIDE DEF new
<1>3. edit' \in [Editor -> Asking]
  BY <1>1, <1>2
<1>4. \A q \in Editor : edit'[q] = edit[q] \/ edit'[q].read = company
  BY <1>1, <1>2
<1> QED
  BY <1>1, <1>3, <1>4 DEF ShowcaseInv, H!Free

\* A request that writes leaves the others overtaken.
LEMMA ShowcaseWrites ==
  ASSUME ShowcaseInv, NEW r \in Editor,
         NEW o \in BOOLEAN, NEW n \in Name \cup {"no name"}, NEW i \in BOOLEAN, NEW a \in BOOLEAN,
         H!Write(r, o, n, i, a)
  PROVE  /\ company' = [organisation |-> o, name |-> n, opt_in |-> i, approved |-> a]
         /\ company' \in Account /\ edit' \in [Editor -> Asking] /\ crossed' \in BOOLEAN
         /\ \A q \in Editor : H!Free(q)' \/ edit'[q].overtaken
         /\ crossed' <=> crossed \/ edit[r].overtaken
<1>1. /\ company \in Account /\ edit \in [Editor -> Asking] /\ crossed \in BOOLEAN
      /\ company' = [organisation |-> o, name |-> n, opt_in |-> i, approved |-> a]
      /\ edit' = [q \in Editor |-> IF q = r THEN H!NoRequest ELSE [edit[q] EXCEPT !.overtaken = ~H!Free(q)]]
      /\ crossed' = (crossed \/ edit[r].overtaken)
  BY DEF ShowcaseInv, H!Write
<1>2. company' \in Account
  BY <1>1 DEF Account
<1>3. H!NoRequest \in Asking /\ H!NoRequest.op = "idle"
  BY DEF H!NoRequest, H!Personal, Asking, Op, Account
<1>4. ASSUME NEW q \in Editor
      PROVE  edit'[q] \in Asking /\ (edit'[q].op = "idle" \/ edit'[q].overtaken)
  <2>1. CASE q = r
    BY <1>1, <1>3, <2>1
  <2>2. CASE q # r
    <3>1. edit'[q] = [edit[q] EXCEPT !.overtaken = ~H!Free(q)] /\ edit[q] \in Asking
      BY <1>1, <2>2
    <3>2. edit'[q] \in Asking /\ edit'[q].op = edit[q].op
      BY <3>1 DEF Asking
    <3>3. edit'[q].overtaken = ~H!Free(q)
      BY <3>1 DEF Asking
    <3> QED
      BY <3>2, <3>3 DEF H!Free
  <2> QED
    BY <2>1, <2>2
<1>5. edit' \in [Editor -> Asking]
  BY <1>1, <1>4
<1>6. edit[r].overtaken \in BOOLEAN
  BY <1>1 DEF Asking
<1> QED
  BY <1>1, <1>2, <1>4, <1>5, <1>6 DEF H!Free

\* What a request that read the account as it is writes is what it meant to.
LEMMA ColumnWrites ==
  ASSUME NEW was \in Account, company \in Account, was = company
  PROVE  /\ \A b : H!Column("organisation", was, b) = b
         /\ \A b : H!Column("name", was, b) = b
         /\ \A b : H!Column("opt_in", was, b) = b
         /\ \A b : H!Column("approved", was, b) = b
  BY DEF H!Column

LEMMA ColumnTyped ==
  ASSUME NEW was \in Account, company \in Account
  PROVE  /\ \A b \in BOOLEAN : H!Column("organisation", was, b) \in BOOLEAN
         /\ \A n \in Name \cup {"no name"} : H!Column("name", was, n) \in Name \cup {"no name"}
         /\ \A b \in BOOLEAN : H!Column("opt_in", was, b) \in BOOLEAN
         /\ \A b \in BOOLEAN : H!Column("approved", was, b) \in BOOLEAN
  BY DEF H!Column, Account

LEMMA ShowcaseStep ==
  ASSUME ShowcaseInv, [H!Next]_(H!vars)
  PROVE  ShowcaseInv'
<1>1. CASE UNCHANGED H!vars
  BY <1>1 DEF ShowcaseInv, H!vars, H!Free
<1>2. ASSUME NEW r \in Editor, H!AskSome(r)
      PROVE  ShowcaseInv'
  <2>1. PICK op \in Op, n \in Name \cup {"no name"} : H!Ask(r, op, n)
    BY <1>2 DEF H!AskSome, Op
  <2> QED
    BY <2>1, ShowcaseAsks
<1>3. ASSUME NEW r \in Editor, H!Commit(r)
      PROVE  ShowcaseInv'
  <2> DEFINE was == edit[r].read
             name == edit[r].name
             current == ~crossed /\ ~edit[r].overtaken
  <2>1. /\ company \in Account /\ edit[r] \in Asking /\ was \in Account /\ name \in Name \cup {"no name"}
        /\ consent \in BOOLEAN /\ crossed \in BOOLEAN
    BY DEF ShowcaseInv, Asking
  <2>2. ~H!Free(r)
    BY <1>3 DEF H!Commit, H!Free
  <2>3. current => /\ was = company /\ (company.opt_in => consent)
                   /\ (company.approved => company.name = checked)
    BY <2>2 DEF ShowcaseInv
  <2>4. company.organisation \in BOOLEAN /\ company.name \in Name \cup {"no name"}
        /\ company.opt_in \in BOOLEAN /\ company.approved \in BOOLEAN
    BY <2>1 DEF Account
  <2> HIDE DEF was, name
  <2>5. ASSUME NEW o \in BOOLEAN, NEW n \in Name \cup {"no name"}, NEW i \in BOOLEAN, NEW a \in BOOLEAN,
               H!Write(r, o, n, i, a), consent' \in BOOLEAN,
               current => (i => consent') /\ (a => n = checked')
        PROVE  ShowcaseInv'
    <3>1. /\ company' = [organisation |-> o, name |-> n, opt_in |-> i, approved |-> a]
          /\ company' \in Account /\ edit' \in [Editor -> Asking] /\ crossed' \in BOOLEAN
          /\ \A q \in Editor : H!Free(q)' \/ edit'[q].overtaken
          /\ crossed' <=> crossed \/ edit[r].overtaken
      BY <2>5, ShowcaseWrites
    <3>2. crossed' \/ ((company'.opt_in => consent') /\ (company'.approved => company'.name = checked'))
      BY <2>5, <3>1
    <3> QED
      BY <2>5, <3>1, <3>2 DEF ShowcaseInv
  <2>6. CASE H!become_organisation(r) /\ UNCHANGED <<checked, consent>>
    <3> DEFINE o == H!Column("organisation", was, TRUE)
               n == H!Column("name", was, name)
               a == H!Column("approved", was, FALSE)
    <3>1. H!Write(r, o, n, company.opt_in, a)
      BY <2>6 DEF H!become_organisation, was, name
    <3>2. o \in BOOLEAN /\ n \in Name \cup {"no name"} /\ a \in BOOLEAN
      BY <2>1, ColumnTyped
    <3>3. current => ~a
      BY <2>1, <2>3, ColumnWrites
    <3> HIDE DEF o, n, a
    <3> QED
      BY <2>1, <2>3, <2>4, <2>5, <2>6, <3>1, <3>2, <3>3
  <2>7. CASE H!become_personal(r) /\ consent' = FALSE /\ UNCHANGED checked
    <3> DEFINE o == H!Column("organisation", was, FALSE)
               n == H!Column("name", was, "no name")
               i == H!Column("opt_in", was, FALSE)
               a == H!Column("approved", was, FALSE)
    <3>1. H!Write(r, o, n, i, a)
      BY <2>7 DEF H!become_personal, was
    <3>2. o \in BOOLEAN /\ n \in Name \cup {"no name"} /\ i \in BOOLEAN /\ a \in BOOLEAN
      BY <2>1, ColumnTyped
    <3>3. current => ~a /\ ~i
      BY <2>1, <2>3, ColumnWrites
    <3> HIDE DEF o, n, i, a
    <3> QED
      BY <2>5, <2>7, <3>1, <3>2, <3>3
  <2>8. ASSUME NEW b \in BOOLEAN, H!set_showcase_opt_in(r, b), consent' = b, UNCHANGED checked
        PROVE  ShowcaseInv'
    <3> DEFINE i == H!Column("opt_in", was, b)
    <3>1. H!Write(r, company.organisation, company.name, i, company.approved)
      BY <2>8 DEF H!set_showcase_opt_in, was
    <3>2. i \in BOOLEAN
      BY <2>1, ColumnTyped
    <3>3. current => i = b
      BY <2>1, <2>3, ColumnWrites
    <3> HIDE DEF i
    <3> QED
      BY <2>3, <2>4, <2>5, <2>8, <3>1, <3>2, <3>3
  <2>9. CASE H!approve_showcase(r) /\ checked' = edit[r].read.name /\ UNCHANGED consent
    <3>1. H!Write(r, company.organisation, company.name, company.opt_in, TRUE) /\ checked' = was.name
      BY <2>9 DEF H!approve_showcase, was
    <3>2. current => company.name = checked'
      BY <2>3, <3>1
    <3> QED
      BY <2>1, <2>3, <2>4, <2>5, <2>9, <3>1, <3>2
  <2>10. CASE H!revoke_showcase(r) /\ UNCHANGED <<checked, consent>>
    <3> DEFINE a == H!Column("approved", was, FALSE)
    <3>1. H!Write(r, company.organisation, company.name, company.opt_in, a)
      BY <2>10 DEF H!revoke_showcase, was
    <3>2. a \in BOOLEAN
      BY <2>1, ColumnTyped
    <3>3. current => ~a
      BY <2>1, <2>3, ColumnWrites
    <3> HIDE DEF a
    <3> QED
      BY <2>1, <2>3, <2>4, <2>5, <2>10, <3>1, <3>2, <3>3
  <2> QED
    BY <1>3, <2>6, <2>7, <2>8, <2>9, <2>10 DEF H!Commit
<1> QED
  BY <1>1, <1>2, <1>3 DEF H!Next

\* However many requests of the owner and of administrators are in flight.
THEOREM NamesShownAreApproved ==
  H!Spec => []NamesAreChecked
<1>1. H!Init => ShowcaseInv
  <2>1. H!Personal \in Account /\ ~H!Personal.opt_in /\ ~H!Personal.approved
    BY DEF H!Personal, Account
  <2>2. H!NoRequest \in Asking /\ H!NoRequest.op = "idle"
    BY <2>1 DEF H!NoRequest, Asking, Op
  <2> QED
    BY <2>1, <2>2 DEF H!Init, H!Free, ShowcaseInv
<1>2. ShowcaseInv /\ [H!Next]_(H!vars) => ShowcaseInv'
  BY ShowcaseStep
<1>3. ShowcaseInv => NamesAreChecked
  BY DEF ShowcaseInv, NamesAreChecked, H!NamesAreChecked, H!is_showcased
<1> QED
  BY <1>1, <1>2, <1>3, PTL DEF H!Spec

-----------------------------------------------------------------------------
(***************************************************************************)
(* Administration.  Whoever deletes an account was an administrator when   *)
(* the request was read and is one still, unless a demotion has overtaken  *)
(* the request or the row is gone; and a row its entry refers to is there. *)
(***************************************************************************)

UserRow == [exists : BOOLEAN, admin : BOOLEAN, suspended : BOOLEAN]
PanelOp == {"idle", "delete", "suspend", "unsuspend", "promote", "demote"}
PanelJob == [op : PanelOp, actor : User, target : User, audited : BOOLEAN, overtaken : BOOLEAN]

PanelTypeOK ==
  /\ people \in [User -> UserRow] /\ errand \in [Clerk -> PanelJob] /\ raced \in BOOLEAN

\* What holds of one request j, when the accounts are as in rows.
Justified(j, rows) ==
  /\ j.audited => j.op = "delete" /\ rows[j.actor].exists /\ rows[j.target].exists
  /\ j.op = "delete" => j.actor # j.target
  /\ j.op = "delete" /\ ~j.overtaken => (rows[j.actor].exists => rows[j.actor].admin)
  /\ j.op = "demote" /\ ~j.overtaken => \E v \in User : v # j.target /\ rows[v].admin

PanelInv ==
  /\ PanelTypeOK
  /\ \A u \in User : people[u].admin => people[u].exists
  /\ \A r \in Clerk : Justified(errand[r], people)

\* A request that has ended, or only begun to suspend, promote and so on.
LEMMA NothingAsked ==
  ASSUME U!AdministrationAssumption
  PROVE  U!Idle \in PanelJob /\ \A rows : Justified(U!Idle, rows)
<1>1. U!Idle \in PanelJob /\ U!Idle.op = "idle" /\ ~U!Idle.audited
  BY DEF U!Idle, PanelJob, PanelOp, U!AdministrationAssumption
<1> QED
  BY <1>1 DEF Justified

\* Accounts that are given rights take none from the requests in flight.
LEMMA RowsGiven ==
  ASSUME PanelInv, people' \in [User -> UserRow], UNCHANGED raced,
         \A u \in User : (people[u].exists => people'[u].exists) /\ (people[u].admin => people'[u].admin)
                         /\ (people'[u].admin => people'[u].exists)
                         /\ (people'[u].exists /\ ~people[u].exists => people'[u].admin),
         errand' \in [Clerk -> PanelJob],
         \A r \in Clerk : errand'[r] = errand[r] \/ Justified(errand'[r], people')
  PROVE  PanelInv'
<1>1. PanelTypeOK'
  BY DEF PanelInv, PanelTypeOK
<1>2. ASSUME NEW r \in Clerk
      PROVE  Justified(errand'[r], people')
  <2>1. CASE errand'[r] = errand[r]
    <3>1. errand[r] \in PanelJob /\ errand[r].actor \in User /\ errand[r].target \in User
      BY DEF PanelInv, PanelTypeOK, PanelJob
    <3>2. Justified(errand[r], people)
      BY DEF PanelInv
    <3>3. Justified(errand[r], people')
      BY <3>1, <3>2 DEF Justified
    <3> QED
      BY <2>1, <3>3
  <2> QED
    BY <2>1
<1> QED
  BY <1>1, <1>2 DEF PanelInv

\* Nothing but a request that ends.
LEMMA JobEnds ==
  ASSUME U!AdministrationAssumption, PanelInv, NEW r \in Clerk, U!Done(r)
  PROVE  /\ errand' \in [Clerk -> PanelJob]
         /\ \A q \in Clerk : errand'[q] = errand[q] \/ Justified(errand'[q], people')
<1>1. errand \in [Clerk -> PanelJob] /\ errand' = [errand EXCEPT ![r] = U!Idle]
  BY DEF PanelInv, PanelTypeOK, U!Done
<1> QED
  BY <1>1, NothingAsked

LEMMA PanelAsks ==
  ASSUME U!AdministrationAssumption, PanelInv, NEW r \in Clerk,
         NEW op \in PanelOp, NEW a \in User, NEW t \in User, U!Ask(r, op, a, t),
         op = "delete" => a # t /\ people[a].admin,
         op = "demote" => \E v \in User : v # t /\ people[v].admin
  PROVE  PanelInv'
<1> DEFINE new == [U!Idle EXCEPT !.op = op, !.actor = a, !.target = t]
<1>1. /\ people \in [User -> UserRow] /\ errand \in [Clerk -> PanelJob]
      /\ errand' = [errand EXCEPT ![r] = new] /\ UNCHANGED <<people, raced>>
  BY DEF PanelInv, PanelTypeOK, U!Ask, U!stored
<1>2. new \in PanelJob /\ new.op = op /\ new.actor = a /\ new.target = t /\ ~new.audited
  BY NothingAsked DEF U!Idle, PanelJob
<1> HIDE DEF new
<1>3. Justified(new, people)
  BY <1>2 DEF Justified
<1>4. errand' \in [Clerk -> PanelJob] /\ \A q \in Clerk : errand'[q] = errand[q] \/ errand'[q] = new
  BY <1>1, <1>2
<1> QED
  BY <1>1, <1>3, <1>4 DEF PanelInv, PanelTypeOK

\* A removal is justified while it is under way: afterwards somebody is left.
LEMMA DeleteLeaves ==
  ASSUME U!AdministrationAssumption, PanelInv, NEW r \in Clerk, U!Delete(r)
  PROVE  PanelInv' /\ U!LastAdminStays
<1> DEFINE t == errand[r].target
           a == errand[r].actor
<1>1. /\ people \in [User -> UserRow] /\ errand \in [Clerk -> PanelJob] /\ raced \in BOOLEAN
      /\ errand[r] \in PanelJob /\ t \in User /\ a \in User /\ errand[r].overtaken \in BOOLEAN
  BY DEF PanelInv, PanelTypeOK, PanelJob
<1>2. /\ errand[r].op = "delete" /\ errand[r].audited /\ ~U!Referred(t, r)
      /\ people' = [people EXCEPT ![t] = U!NoRow] /\ raced' = (raced \/ errand[r].overtaken)
      /\ errand' = [q \in Clerk |-> IF q = r THEN U!Idle
                                   ELSE [errand[q] EXCEPT !.overtaken = @ \/ errand[q].op \in {"demote"}]]
  BY DEF U!Delete, U!Overtaking
<1>3. U!NoRow \in UserRow /\ ~U!NoRow.exists /\ ~U!NoRow.admin
  BY DEF U!NoRow, UserRow
<1>4. a # t /\ people[a].exists /\ (~errand[r].overtaken => people[a].admin)
  BY <1>2 DEF PanelInv, Justified
<1>5. people' \in [User -> UserRow] /\ ~people'[t].exists /\ ~people'[t].admin /\ \A u \in User : u # t => people'[u] = people[u]
  BY <1>1, <1>2, <1>3
<1>6. U!LastAdminStays
  BY <1>1, <1>2, <1>4, <1>5 DEF U!LastAdminStays, U!Admins
<1>7. ASSUME NEW q \in Clerk
      PROVE  errand'[q] \in PanelJob /\ Justified(errand'[q], people')
  <2>1. CASE q = r
    BY <1>2, <2>1, NothingAsked
  <2>2. CASE q # r
    <3> DEFINE j == errand[q]
               k == errand'[q]
    <3>1. j \in PanelJob /\ j.actor \in User /\ j.target \in User /\ Justified(j, people)
      BY <1>1 DEF PanelInv, PanelJob
    <3>2. j.audited => j.actor # t /\ j.target # t
      BY <1>1, <1>2, <2>2 DEF U!Referred
    <3>3. k = [j EXCEPT !.overtaken = @ \/ j.op \in {"demote"}]
      BY <1>2, <2>2
    <3> HIDE DEF j, k
    <3>4. /\ k \in PanelJob /\ k.op = j.op /\ k.actor = j.actor /\ k.target = j.target /\ k.audited = j.audited
          /\ j.overtaken => k.overtaken
          /\ k.op = "demote" => k.overtaken
      BY <3>1, <3>3 DEF PanelJob
    <3>5. Justified(k, people')
      BY <1>5, <3>1, <3>2, <3>4 DEF Justified
    <3> QED
      BY <3>4, <3>5 DEF k
  <2> QED
    BY <2>1, <2>2
<1>8. errand' \in [Clerk -> PanelJob]
  BY <1>2, <1>7
<1>9. \A u \in User : people'[u].admin => people'[u].exists
  BY <1>5 DEF PanelInv
<1> QED
  BY <1>1, <1>2, <1>5, <1>6, <1>7, <1>8, <1>9 DEF PanelInv, PanelTypeOK

LEMMA DemoteLeaves ==
  ASSUME U!AdministrationAssumption, PanelInv, NEW r \in Clerk, U!Demote(r)
  PROVE  PanelInv' /\ U!LastAdminStays
<1> DEFINE t == errand[r].target
<1>1. /\ people \in [User -> UserRow] /\ errand \in [Clerk -> PanelJob] /\ raced \in BOOLEAN
      /\ errand[r] \in PanelJob /\ t \in User /\ errand[r].overtaken \in BOOLEAN
  BY DEF PanelInv, PanelTypeOK, PanelJob
<1>2. /\ errand[r].op = "demote"
      /\ people' = [people EXCEPT ![t].admin = FALSE] /\ raced' = (raced \/ errand[r].overtaken)
      /\ errand' = [q \in Clerk |-> IF q = r THEN U!Idle
                                   ELSE [errand[q] EXCEPT !.overtaken = @ \/ errand[q].op \in {"demote", "delete"}]]
  BY DEF U!Demote, U!Overtaking
<1>3. ~errand[r].overtaken => \E v \in User : v # t /\ people[v].admin
  BY <1>2 DEF PanelInv, Justified
<1>4. people[t] \in UserRow
  BY <1>1
<1>5. /\ people' \in [User -> UserRow] /\ \A u \in User : people'[u].exists = people[u].exists
      /\ \A u \in User : u # t => people'[u] = people[u]
      /\ \A u \in User : people'[u].admin => people[u].admin
  BY <1>1, <1>2, <1>4 DEF UserRow
<1>6. U!LastAdminStays
  BY <1>1, <1>2, <1>3, <1>5 DEF U!LastAdminStays, U!Admins
<1>7. ASSUME NEW q \in Clerk
      PROVE  errand'[q] \in PanelJob /\ Justified(errand'[q], people')
  <2>1. CASE q = r
    BY <1>2, <2>1, NothingAsked
  <2>2. CASE q # r
    <3> DEFINE j == errand[q]
               k == errand'[q]
    <3>1. j \in PanelJob /\ j.actor \in User /\ j.target \in User /\ Justified(j, people)
      BY <1>1 DEF PanelInv, PanelJob
    <3>2. k = [j EXCEPT !.overtaken = @ \/ j.op \in {"demote", "delete"}]
      BY <1>2, <2>2
    <3> HIDE DEF j, k
    <3>3. /\ k \in PanelJob /\ k.op = j.op /\ k.actor = j.actor /\ k.target = j.target /\ k.audited = j.audited
          /\ k.op \in {"demote", "delete"} => k.overtaken
      BY <3>1, <3>2 DEF PanelJob
    <3>4. Justified(k, people')
      BY <1>5, <3>1, <3>3 DEF Justified
    <3> QED
      BY <3>3, <3>4 DEF k
  <2> QED
    BY <2>1, <2>2
<1>8. errand' \in [Clerk -> PanelJob]
  BY <1>2, <1>7
<1>9. \A u \in User : people'[u].admin => people'[u].exists
  BY <1>5 DEF PanelInv
<1> QED
  BY <1>1, <1>2, <1>5, <1>6, <1>7, <1>8, <1>9 DEF PanelInv, PanelTypeOK

\* Whoever starts up: one of them at a time has the account of Configured
\* inserted, and has its password mailed before it commits.
BootStage == {"idle", "checked", "locked", "promoting", "promoted", "creating", "created", "mailed"}

BootInv ==
  /\ boot \in [Process -> BootStage]
  /\ \A p \in Process : boot[p] = "mailed" => p \in mailed
  /\ \A p \in U!Inserted : ~people[Configured].exists /\ \A q \in U!Inserted : q = p
  /\ ~people[Configured].exists => password = "owner"
  /\ U!AdminPasswordIsKnown

LEMMA AdminsKept ==
  ASSUME \A u \in User : people[u].admin => people'[u].admin
  PROVE  U!LastAdminStays
  BY DEF U!LastAdminStays, U!Admins

LEMMA BootAside ==
  ASSUME BootInv, UNCHANGED <<boot, mailed>>,
         \/ people'[Configured].exists = people[Configured].exists /\ UNCHANGED password
         \/ ~people'[Configured].exists /\ password' = "owner"
         \/ ~people'[Configured].exists /\ ~people[Configured].exists /\ UNCHANGED password
  PROVE  BootInv'
<1>1. U!Inserted' = U!Inserted
  BY DEF U!Inserted
<1> QED
  BY <1>1 DEF BootInv, U!AdminPasswordIsKnown

\* Suspending, unsuspending and promoting leave every right to administer.
LEMMA RightsStay ==
  ASSUME U!AdministrationAssumption, PanelInv, NEW r \in Clerk,
         U!Suspend(r) \/ U!Unsuspend(r) \/ U!Promote(r)
  PROVE  /\ PanelInv' /\ U!LastAdminStays
         /\ people'[Configured].exists = people[Configured].exists /\ UNCHANGED <<boot, mailed, password>>
<1> DEFINE t == errand[r].target
<1>1. /\ people \in [User -> UserRow] /\ errand[r] \in PanelJob /\ t \in User
      /\ Configured \in User /\ \A u \in User : people[u].admin => people[u].exists
  BY DEF PanelInv, PanelTypeOK, PanelJob, U!AdministrationAssumption
<1>2. /\ people[t].exists /\ U!Done(r) /\ UNCHANGED <<raced, password, boot, mailed>>
      /\ \/ people' = [people EXCEPT ![t].suspended = TRUE]
         \/ people' = [people EXCEPT ![t].suspended = FALSE]
         \/ people' = [people EXCEPT ![t].admin = TRUE]
  BY DEF U!Suspend, U!Unsuspend, U!Promote, U!Entered, U!Exists
<1> HIDE DEF t
<1>3. /\ people' \in [User -> UserRow] /\ \A u \in User : people'[u].exists = people[u].exists
      /\ \A u \in User : people[u].admin => people'[u].admin
      /\ \A u \in User : people'[u].admin => people[u].admin \/ u = t
  BY <1>1, <1>2 DEF UserRow
<1>4. PanelInv'
  BY <1>1, <1>2, <1>3, JobEnds, RowsGiven
<1> QED
  BY <1>1, <1>2, <1>3, <1>4, AdminsKept

LEMMA PanelStep ==
  ASSUME U!AdministrationAssumption, PanelInv, BootInv, U!PanelNext
  PROVE  PanelInv' /\ BootInv' /\ U!LastAdminStays
<1>1. PICK r \in Clerk :
        \/ U!AskPanel(r) \/ U!AskPromote(r) \/ U!AskDemote(r) \/ U!Audit(r) \/ U!Delete(r)
        \/ U!Suspend(r) \/ U!Unsuspend(r) \/ U!Promote(r) \/ U!Demote(r) \/ U!Fail(r)
  BY DEF U!PanelNext
<1>2. people \in [User -> UserRow] /\ errand \in [Clerk -> PanelJob] /\ Configured \in User
  BY DEF PanelInv, PanelTypeOK, U!AdministrationAssumption
<1>3. ASSUME UNCHANGED <<people, password, boot, mailed>>
      PROVE  BootInv' /\ U!LastAdminStays
  BY <1>3, BootAside, AdminsKept
<1>4. CASE U!AskPanel(r)
  <2>1. PICK a \in User, t \in User, op \in {"delete", "suspend", "unsuspend"} :
          U!Ask(r, op, a, t) /\ (op = "delete" => a # t /\ people[a].admin)
    BY <1>4 DEF U!AskPanel, U!Admins
  <2>2. op \in PanelOp /\ op # "demote"
    BY DEF PanelOp
  <2>3. PanelInv'
    BY <2>1, <2>2, PanelAsks
  <2> QED
    BY <1>3, <2>1, <2>3 DEF U!Ask, U!stored
<1>5. CASE U!AskPromote(r)
  <2>1. PICK u \in User : U!Ask(r, "promote", u, u)
    BY <1>5 DEF U!AskPromote
  <2>2. PanelInv'
    BY <2>1, PanelAsks DEF PanelOp
  <2> QED
    BY <1>3, <2>1, <2>2 DEF U!Ask, U!stored
<1>6. CASE U!AskDemote(r)
  <2>1. PICK u \in User : U!Ask(r, "demote", u, u) /\ people[u].admin /\ U!Admins # {u}
    BY <1>6 DEF U!AskDemote, U!is_last_admin, U!Admins
  <2>2. \E v \in User : v # u /\ people[v].admin
    BY <2>1 DEF U!Admins
  <2>3. PanelInv'
    BY <2>1, <2>2, PanelAsks DEF PanelOp
  <2> QED
    BY <1>3, <2>1, <2>3 DEF U!Ask, U!stored
<1>7. CASE U!Audit(r)
  <2>1. UNCHANGED <<people, password, boot, mailed, raced>> /\ errand[r].op = "delete"
    BY <1>7 DEF U!Audit, U!stored
  <2>2. CASE U!Done(r)
    <3>1. PanelInv'
      BY <1>2, <2>1, <2>2, JobEnds, RowsGiven DEF PanelInv
    <3> QED
      BY <1>3, <2>1, <3>1
  <2>3. CASE U!Entered(r) /\ errand' = [errand EXCEPT ![r].audited = TRUE]
    <3> DEFINE k == [errand[r] EXCEPT !.audited = TRUE]
    <3>1. errand[r] \in PanelJob /\ Justified(errand[r], people)
      BY <1>2 DEF PanelInv
    <3>2. /\ k \in PanelJob /\ k.op = errand[r].op /\ k.actor = errand[r].actor /\ k.target = errand[r].target
          /\ k.overtaken = errand[r].overtaken
      BY <3>1 DEF PanelJob
    <3>3. errand' = [errand EXCEPT ![r] = k]
      BY <1>2, <2>3
    <3> HIDE DEF k
    <3>4. Justified(k, people)
      BY <2>1, <2>3, <3>1, <3>2 DEF Justified, U!Entered, U!Exists
    <3>5. errand' \in [Clerk -> PanelJob] /\ \A q \in Clerk : errand'[q] = errand[q] \/ errand'[q] = k
      BY <1>2, <3>2, <3>3
    <3>6. PanelInv'
      BY <1>2, <2>1, <3>4, <3>5, RowsGiven DEF PanelInv
    <3> QED
      BY <1>3, <2>1, <3>6
  <2> QED
    BY <1>7, <2>2, <2>3 DEF U!Audit, U!record_audit, U!Entered
<1>8. CASE U!Delete(r)
  <2>1. /\ UNCHANGED <<boot, mailed>> /\ errand[r].target \in User /\ errand[r] \in PanelJob
        /\ people' = [people EXCEPT ![errand[r].target] = U!NoRow]
        /\ password' = IF errand[r].target = Configured THEN "owner" ELSE password
    BY <1>2, <1>8 DEF U!Delete, PanelJob
  <2>2. ~U!NoRow.exists
    BY DEF U!NoRow
  <2>3. CASE errand[r].target = Configured
    BY <1>2, <1>8, <2>1, <2>2, <2>3, DeleteLeaves, BootAside
  <2>4. CASE errand[r].target # Configured
    BY <1>2, <1>8, <2>1, <2>4, DeleteLeaves, BootAside
  <2> QED
    BY <2>3, <2>4
<1>9. CASE U!Suspend(r) \/ U!Unsuspend(r) \/ U!Promote(r)
  BY <1>9, RightsStay, BootAside
<1>10. CASE U!Demote(r)
  <2>1. /\ UNCHANGED <<boot, mailed, password>> /\ errand[r] \in PanelJob
        /\ people' = [people EXCEPT ![errand[r].target].admin = FALSE]
    BY <1>2, <1>10 DEF U!Demote
  <2>2. people[Configured] \in UserRow
    BY <1>2
  <2>3. people'[Configured].exists = people[Configured].exists
    BY <1>2, <2>1, <2>2 DEF UserRow
  <2> QED
    BY <1>10, <2>1, <2>3, DemoteLeaves, BootAside
<1>11. CASE U!Fail(r)
  <2>1. U!Done(r) /\ UNCHANGED <<people, password, boot, mailed, raced>>
    BY <1>11 DEF U!Fail, U!stored
  <2>2. PanelInv'
    BY <1>2, <2>1, JobEnds, RowsGiven DEF PanelInv
  <2> QED
    BY <1>3, <2>1, <2>2
<1> QED
  BY <1>1, <1>4, <1>5, <1>6, <1>7, <1>8, <1>9, <1>10, <1>11

\* A process that goes on, or dies, without inserting anything.
LEMMA BootGoes ==
  ASSUME BootInv, NEW p \in Process, NEW x \in BootStage \ {"created", "mailed"}, U!Goto(p, x),
         UNCHANGED <<people, password, mailed>>
  PROVE  BootInv'
<1>1. boot \in [Process -> BootStage] /\ boot' = [boot EXCEPT ![p] = x]
  BY DEF BootInv, U!Goto
<1>2. boot' \in [Process -> BootStage] /\ \A q \in Process : boot'[q] = boot[q] \/ boot'[q] = x
  BY <1>1
<1>3. U!Inserted' \subseteq U!Inserted
  BY <1>2 DEF U!Inserted
<1>4. \A q \in Process : boot'[q] = "mailed" => q \in mailed
  BY <1>2 DEF BootInv
<1> QED
  BY <1>2, <1>3, <1>4 DEF BootInv, U!AdminPasswordIsKnown

LEMMA BootStep ==
  ASSUME U!AdministrationAssumption, PanelInv, BootInv, U!BootNext
  PROVE  PanelInv' /\ BootInv' /\ U!LastAdminStays
<1>1. /\ people \in [User -> UserRow] /\ errand \in [Clerk -> PanelJob] /\ Configured \in User
      /\ boot \in [Process -> BootStage] /\ \A u \in User : people[u].admin => people[u].exists
  BY DEF PanelInv, PanelTypeOK, U!AdministrationAssumption, BootInv
<1>2. ASSUME UNCHANGED <<people, errand, raced>>
      PROVE  PanelInv' /\ U!LastAdminStays
  BY <1>1, <1>2, RowsGiven, AdminsKept
<1> DEFINE made == [U!NoRow EXCEPT !.exists = TRUE, !.admin = TRUE]
<1>3. made \in UserRow /\ made.exists /\ made.admin
  BY DEF U!NoRow, UserRow
<1> HIDE DEF made
<1>4. ASSUME people' = [people EXCEPT ![Configured] = made], UNCHANGED <<errand, raced>>
      PROVE  PanelInv' /\ U!LastAdminStays /\ people'[Configured].exists
  <2>1. people' \in [User -> UserRow] /\ \A u \in User : people'[u] = people[u] \/ (people'[u].exists /\ people'[u].admin)
    BY <1>1, <1>3, <1>4
  <2>2. people'[Configured].exists
    BY <1>1, <1>3, <1>4
  <2> QED
    BY <1>1, <1>4, <2>1, <2>2, RowsGiven, AdminsKept
<1>5. CASE U!SignUp
  <2>1. /\ people' = [people EXCEPT ![Configured] = made] /\ password' = "owner" /\ U!Inserted = {}
        /\ UNCHANGED <<errand, boot, mailed, raced>>
    BY <1>5 DEF U!SignUp, made
  <2>2. U!Inserted' = {}
    BY <2>1 DEF U!Inserted
  <2> QED
    BY <1>4, <2>1, <2>2 DEF BootInv, U!AdminPasswordIsKnown
<1>6. ASSUME NEW p \in Process, U!ensure_admin(p) \/ U!Lock(p) \/ U!Find(p) \/ U!Flush(p) \/ U!Crash(p)
      PROVE  PanelInv' /\ BootInv' /\ U!LastAdminStays
  <2>1. UNCHANGED <<people, password, errand, raced, mailed>>
    BY <1>6 DEF U!ensure_admin, U!Lock, U!Find, U!Flush, U!Crash, U!stored
  <2>2. \E x \in {"idle", "checked", "locked", "promoting", "creating", "promoted"} : U!Goto(p, x)
    BY <1>6 DEF U!ensure_admin, U!Lock, U!Find, U!Flush, U!Crash
  <2>3. BootInv'
    BY <2>1, <2>2, BootGoes DEF BootStage
  <2> QED
    BY <1>2, <2>1, <2>3
<1>7. ASSUME NEW p \in Process, U!Insert(p)
      PROVE  PanelInv' /\ BootInv' /\ U!LastAdminStays
  <2>1. UNCHANGED <<people, password, errand, raced>> /\ U!Inserted = {}
    BY <1>7 DEF U!Insert, U!stored
  <2>2. CASE people[Configured].exists
    <3>1. U!Goto(p, "idle") /\ UNCHANGED mailed
      BY <1>7, <2>2 DEF U!Insert, U!Exists
    <3>2. BootInv'
      BY <2>1, <3>1, BootGoes DEF BootStage
    <3> QED
      BY <1>2, <2>1, <3>2
  <2>3. CASE ~people[Configured].exists
    <3>1. boot' = [boot EXCEPT ![p] = "created"] /\ mailed' = mailed \ {p}
      BY <1>7, <2>3 DEF U!Insert, U!Exists, U!Goto
    <3>2. boot' \in [Process -> BootStage] /\ \A q \in Process : q # p => boot'[q] = boot[q]
      BY <1>1, <3>1 DEF BootStage
    <3>3. boot'[p] = "created"
      BY <1>1, <3>1
    <3>4. \A q \in Process : boot'[q] \in {"created", "mailed"} => q = p
      BY <2>1, <3>2 DEF U!Inserted
    <3>5. password = "owner"
      BY <2>3 DEF BootInv
    <3> QED
      BY <1>2, <2>1, <2>3, <3>2, <3>3, <3>4, <3>5 DEF BootInv, U!Inserted, U!AdminPasswordIsKnown
  <2> QED
    BY <2>2, <2>3
<1>8. ASSUME NEW p \in Process, U!Mail(p)
      PROVE  PanelInv' /\ BootInv' /\ U!LastAdminStays
  <2>1. UNCHANGED <<people, password, errand, raced>> /\ boot[p] = "created"
    BY <1>8 DEF U!Mail, U!stored, U!At
  <2>2. CASE U!Goto(p, "idle") /\ UNCHANGED mailed
    <3>1. BootInv'
      BY <2>1, <2>2, BootGoes DEF BootStage
    <3> QED
      BY <1>2, <2>1, <3>1
  <2>3. CASE U!Goto(p, "mailed") /\ mailed' = mailed \cup {p}
    <3>1. boot' = [boot EXCEPT ![p] = "mailed"]
      BY <2>3 DEF U!Goto
    <3>2. boot' \in [Process -> BootStage] /\ \A q \in Process : q # p => boot'[q] = boot[q]
      BY <1>1, <3>1 DEF BootStage
    <3>3. U!Inserted' \subseteq U!Inserted
      BY <2>1, <3>2 DEF U!Inserted
    <3>4. \A q \in Process : boot'[q] = "mailed" => q \in mailed'
      BY <2>3, <3>2 DEF BootInv
    <3> QED
      BY <1>2, <2>1, <2>3, <3>2, <3>3, <3>4 DEF BootInv, U!AdminPasswordIsKnown
  <2> QED
    BY <1>8, <2>2, <2>3 DEF U!Mail, U!send_email
<1>9. ASSUME NEW p \in Process, U!BootCommit(p)
      PROVE  PanelInv' /\ BootInv' /\ U!LastAdminStays
  <2>1. boot' = [boot EXCEPT ![p] = "idle"] /\ UNCHANGED <<errand, mailed, raced>>
    BY <1>9 DEF U!BootCommit, U!Goto
  <2>2. /\ boot' \in [Process -> BootStage] /\ \A q \in Process : q # p => boot'[q] = boot[q]
        /\ boot'[p] = "idle"
    BY <1>1, <2>1 DEF BootStage
  <2>3. /\ U!Inserted' \subseteq U!Inserted \ {p}
        /\ \A q \in Process : boot'[q] = "mailed" => q \in mailed
    BY <2>2 DEF BootInv, U!Inserted
  <2>4. CASE boot[p] = "mailed" /\ people' = [people EXCEPT ![Configured] = made] /\ password' = p
    <3>1. p \in mailed /\ p \in U!Inserted
      BY <2>4 DEF BootInv, U!Inserted
    <3>2. U!Inserted' = {}
      BY <2>3, <3>1 DEF BootInv
    <3>3. PanelInv' /\ U!LastAdminStays /\ people'[Configured].exists
      BY <1>4, <2>1, <2>4
    <3> QED
      BY <2>1, <2>2, <2>3, <2>4, <3>1, <3>2, <3>3 DEF BootInv, U!AdminPasswordIsKnown
  <2>5. CASE people' = [people EXCEPT ![Configured].admin = people[Configured].exists] /\ UNCHANGED password
    <3>1. people[Configured] \in UserRow
      BY <1>1
    <3>2. /\ people' \in [User -> UserRow] /\ \A u \in User : people'[u].exists = people[u].exists
          /\ \A u \in User : people[u].admin => people'[u].admin
          /\ \A u \in User : people'[u].admin => people'[u].exists
      BY <1>1, <2>5, <3>1 DEF UserRow
    <3>3. PanelInv' /\ U!LastAdminStays
      BY <1>1, <2>1, <3>2, RowsGiven, AdminsKept
    <3>4. people'[Configured].exists = people[Configured].exists
      BY <1>1, <3>2
    <3> QED
      BY <2>1, <2>2, <2>3, <2>5, <3>3, <3>4 DEF BootInv, U!AdminPasswordIsKnown
  <2> QED
    BY <1>9, <2>4, <2>5 DEF U!BootCommit, U!At, U!Exists, made
<1> QED
  BY <1>5, <1>6, <1>7, <1>8, <1>9 DEF U!BootNext

LEMMA AdminStarts ==
  ASSUME U!AdministrationAssumption, U!Init
  PROVE  PanelInv /\ BootInv
<1>1. Configured \in User
  BY DEF U!AdministrationAssumption
<1>2. /\ errand = [r \in Clerk |-> U!Idle] /\ boot = [p \in Process |-> "idle"]
      /\ password = "owner" /\ mailed = {} /\ raced = FALSE
      /\ \/ people = [u \in User |-> [exists |-> TRUE, admin |-> u # Configured, suspended |-> FALSE]]
         \/ people = [u \in User |-> U!NoRow]
  BY DEF U!Init, U!PanelInit, U!BootInit, U!AtRest
<1>3. people \in [User -> UserRow] /\ \A u \in User : people[u].admin => people[u].exists
  <2>1. \A b \in BOOLEAN : /\ [exists |-> TRUE, admin |-> b, suspended |-> FALSE] \in UserRow
                           /\ [exists |-> TRUE, admin |-> b, suspended |-> FALSE].exists
    BY DEF UserRow
  <2>2. U!NoRow \in UserRow /\ ~U!NoRow.admin
    BY DEF UserRow, U!NoRow
  <2>3. CASE people = [u \in User |-> [exists |-> TRUE, admin |-> u # Configured, suspended |-> FALSE]]
    <3>1. \A u \in User : people[u] = [exists |-> TRUE, admin |-> u # Configured, suspended |-> FALSE]
      BY <2>3
    <3>2. \A u \in User : people[u] \in UserRow /\ people[u].exists
      <4> TAKE u \in User
      <4> DEFINE b == u # Configured
      <4>1. b \in BOOLEAN /\ people[u] = [exists |-> TRUE, admin |-> b, suspended |-> FALSE]
        BY <3>1
      <4> HIDE DEF b
      <4> QED
        BY <2>1, <4>1
    <3> QED
      BY <2>3, <3>2
  <2>4. CASE people = [u \in User |-> U!NoRow]
    BY <2>2, <2>4
  <2> QED
    BY <1>2, <2>3, <2>4
<1>4. errand \in [Clerk -> PanelJob] /\ \A r \in Clerk : Justified(errand[r], people)
  BY <1>2, NothingAsked
<1>5. PanelInv
  BY <1>2, <1>3, <1>4 DEF PanelInv, PanelTypeOK
<1>6. boot \in [Process -> BootStage] /\ U!Inserted = {}
  BY <1>2 DEF BootStage, U!Inserted
<1> QED
  BY <1>2, <1>5, <1>6 DEF BootInv, U!AdminPasswordIsKnown

\* However many accounts there are, requests that overlap and processes that
\* start at once, the panel and the bootstrap side by side.
THEOREM SomebodyIsInCharge ==
  ASSUME U!AdministrationAssumption
  PROVE  U!Spec => SomebodyAdministers
<1>1. U!Init => PanelInv /\ BootInv
  BY AdminStarts
<1>2. PanelInv /\ BootInv /\ [U!Next]_(U!vars) => (PanelInv /\ BootInv)'
  <2> SUFFICES ASSUME PanelInv, BootInv, [U!Next]_(U!vars)
               PROVE  PanelInv' /\ BootInv'
    OBVIOUS
  <2>1. CASE UNCHANGED U!vars
    <3>1. UNCHANGED <<people, errand, boot, password, mailed, raced>>
      BY <2>1 DEF U!vars, U!stored
    <3>2. PanelInv'
      BY <3>1 DEF PanelInv, PanelTypeOK
    <3> QED
      BY <3>1, <3>2, BootAside
  <2> QED
    BY <2>1, PanelStep, BootStep DEF U!Next
<1>3. PanelInv /\ BootInv /\ PanelInv' /\ BootInv' /\ [U!Next]_(U!vars) =>
        [U!LastAdminStays /\ U!AdminPasswordIsKnown']_(U!vars)
  <2> SUFFICES ASSUME PanelInv, BootInv, BootInv', U!Next
               PROVE  U!LastAdminStays /\ U!AdminPasswordIsKnown'
    OBVIOUS
  <2>1. U!LastAdminStays
    BY PanelStep, BootStep DEF U!Next
  <2>2. U!AdminPasswordIsKnown'
    BY DEF BootInv
  <2> QED
    BY <2>1, <2>2
<1> QED
  BY <1>1, <1>2, <1>3, PTL DEF U!Spec, SomebodyAdministers, U!SomebodyAdministers

-----------------------------------------------------------------------------
(***************************************************************************)
(* Backups.  Every script has a stamp of its own, so nothing but its       *)
(* script makes more of a file than there was; and what a script has put   *)
(* on its list has had enough newer dumps since, which no other deletes.   *)
(***************************************************************************)

LEMMA BackupsCountAlike == \A X : B!Cardinality(X) = Cardinality(X)
  BY DEF B!Cardinality, Cardinality

At == {"idle", "dump", "check", "gzip", "verify", "move", "upload", "list", "prune"}
Script == [at : At, stamp : 0..MaxScripts, doomed : SUBSET B!Stamp, uploaded : BOOLEAN]
Task == [at : {"idle", "running", "exited"}, stamp : 0..MaxScripts, code : {0, 1}]

\* As many newer ones have been made as are kept.
Old(s, names) == BACKUP_KEEP # 0 /\ Cardinality(B!Newer(s, names)) >= BACKUP_KEEP

FilesInv ==
  /\ raw \in [B!Stamp -> {"none", "cut", "whole"}]
  /\ partial \in [B!Stamp -> {"none", "broken", "whole"}]
  /\ final \in [B!Stamp -> {"none", "whole"}]
  /\ stamps \in 0..MaxScripts /\ produced \in SUBSET B!Stamp

\* What holds of a script sc, when the files are as in raws and partials, names
\* are the dumps made and n scripts have begun.
Going(sc, raws, partials, names, n) ==
  /\ sc \in Script
  /\ sc.at = "idle" => sc = B!NoScript
  /\ sc.at # "idle" => sc.stamp \in 1..n
  /\ sc.at = "gzip" => raws[sc.stamp] # "cut"
  /\ sc.at = "move" => partials[sc.stamp] # "broken"
  /\ sc.at \in {"upload", "list", "prune"} => sc.stamp \in names
  /\ \A s \in sc.doomed : Old(s, names)

ScriptsInv ==
  /\ script \in [Runner -> Script]
  /\ \A r \in Runner : Going(script[r], raw, partial, produced, stamps)
  /\ \A q, r \in Runner : script[q].at # "idle" /\ script[q].stamp = script[r].stamp => q = r

DumpsInv ==
  /\ B!Dumps \subseteq produced
  /\ \A s \in produced : Old(s, produced) \/ final[s] = "whole"
  /\ produced # {} => \E s \in produced : \A t \in produced : t <= s

TaskInv ==
  /\ task \in Task /\ health \in [tried : 0..MaxScripts, succeeded : 0..MaxScripts, error : BOOLEAN]
  /\ script["worker"].at # "idle" => task.at = "running" /\ task.stamp = script["worker"].stamp
  /\ task.at = "exited" /\ task.code = 0 => task.stamp \in produced
  /\ health.succeeded # 0 => produced # {}
  /\ HasBucket /\ ~health.error => health.tried \in produced \cup {0}

BackupsInv == FilesInv /\ ScriptsInv /\ DumpsInv /\ TaskInv

LEMMA StampsFinite ==
  ASSUME B!BackupsAssumption, NEW X \in SUBSET B!Stamp
  PROVE  IsFiniteSet(X) /\ Cardinality(X) \in Nat
<1>1. MaxScripts \in Int /\ 1 \in Int
  BY DEF B!BackupsAssumption
<1>2. IsFiniteSet(1..MaxScripts)
  BY <1>1, FS_Interval
<1>3. IsFiniteSet(X)
  BY <1>2, FS_Subset DEF B!Stamp
<1> QED
  BY <1>3, FS_CardinalityType

\* What is old stays old.
LEMMA OldStays ==
  ASSUME B!BackupsAssumption, NEW Y \in SUBSET B!Stamp, NEW X \in SUBSET Y, NEW s, Old(s, X)
  PROVE  Old(s, Y)
<1> DEFINE x == B!Newer(s, X)
           y == B!Newer(s, Y)
<1>1. x \in SUBSET y /\ y \in SUBSET B!Stamp
  BY DEF B!Newer
<1> HIDE DEF x, y
<1>2. IsFiniteSet(y) /\ Cardinality(y) \in Nat /\ Cardinality(x) \in Nat
  BY <1>1, StampsFinite
<1>3. Cardinality(x) <= Cardinality(y)
  BY <1>1, <1>2, FS_Subset
<1>4. BACKUP_KEEP \in Nat /\ BACKUP_KEEP # 0 /\ Cardinality(x) >= BACKUP_KEEP
  BY DEF Old, x, B!BackupsAssumption
<1>5. Cardinality(y) >= BACKUP_KEEP
  BY <1>2, <1>3, <1>4
<1> QED
  BY <1>4, <1>5 DEF Old, y

Raw == {"none", "cut", "whole"}
Partial == {"none", "broken", "whole"}
Final == {"none", "whole"}

LEMMA DeletedFiles ==
  ASSUME NEW T, "none" \in T, NEW f \in [B!Stamp -> T], NEW names
  PROVE  /\ B!Without(f, names) \in [B!Stamp -> T]
         /\ \A s \in B!Stamp : B!Without(f, names)[s] = IF s \in names THEN "none" ELSE f[s]
  BY DEF B!Without

LEMMA FilesDeleted ==
  ASSUME FilesInv, NEW names
  PROVE  /\ B!Without(raw, names) \in [B!Stamp -> Raw]
         /\ B!Without(partial, names) \in [B!Stamp -> Partial]
         /\ B!Without(final, names) \in [B!Stamp -> Final]
         /\ \A s \in B!Stamp : B!Without(raw, names)[s] \in {"none", raw[s]}
         /\ \A s \in B!Stamp : B!Without(partial, names)[s] \in {"none", partial[s]}
<1>1. "none" \in Raw /\ "none" \in Partial /\ "none" \in Final
  BY DEF Raw, Partial, Final
<1>2. raw \in [B!Stamp -> Raw] /\ partial \in [B!Stamp -> Partial] /\ final \in [B!Stamp -> Final]
  BY DEF FilesInv, Raw, Partial, Final
<1> QED
  BY <1>1, <1>2, DeletedFiles

LEMMA WrittenFiles ==
  ASSUME NEW T, NEW f \in [B!Stamp -> T], NEW t, NEW what \in T
  PROVE  /\ B!Written(f, t, what) \in [B!Stamp -> T]
         /\ \A s \in B!Stamp : B!Written(f, t, what)[s] = f[s] \/ (s = t /\ B!Written(f, t, what)[s] = what)
  BY DEF B!Written

LEMMA RawWritten ==
  ASSUME FilesInv, NEW t
  PROVE  /\ B!Written(raw, t, "whole") \in [B!Stamp -> Raw]
         /\ \A s \in B!Stamp : B!Written(raw, t, "whole")[s] = "cut" => raw[s] = "cut"
<1> DEFINE what == "whole"
<1>1. what \in Raw /\ what # "cut" /\ raw \in [B!Stamp -> Raw]
  BY DEF Raw, FilesInv
<1> HIDE DEF what
<1>2. /\ B!Written(raw, t, what) \in [B!Stamp -> Raw]
      /\ \A s \in B!Stamp : B!Written(raw, t, what)[s] = raw[s] \/ (s = t /\ B!Written(raw, t, what)[s] = what)
  BY <1>1, WrittenFiles
<1>3. \A s \in B!Stamp : B!Written(raw, t, what)[s] = "cut" => raw[s] = "cut"
  BY <1>1, <1>2
<1> QED
  BY <1>2, <1>3 DEF what

LEMMA PartialWritten ==
  ASSUME FilesInv, NEW t, NEW what \in Partial, what # "broken"
  PROVE  /\ B!Written(partial, t, what) \in [B!Stamp -> Partial]
         /\ \A s \in B!Stamp : B!Written(partial, t, what)[s] = "broken" => partial[s] = "broken"
<1>1. partial \in [B!Stamp -> Partial]
  BY DEF Partial, FilesInv
<1>2. /\ B!Written(partial, t, what) \in [B!Stamp -> Partial]
      /\ \A s \in B!Stamp : B!Written(partial, t, what)[s] = partial[s] \/ (s = t /\ B!Written(partial, t, what)[s] = what)
  BY <1>1, WrittenFiles
<1> QED
  BY <1>2

\* One script goes on or ends: the others do not notice.
LEMMA OthersGoOn ==
  ASSUME B!BackupsAssumption, FilesInv, ScriptsInv, FilesInv', UNCHANGED stamps, produced \subseteq produced',
         NEW r \in Runner, NEW new, script' = [script EXCEPT ![r] = new],
         Going(new, raw', partial', produced', stamps),
         new.at = "idle" \/ (script[r].at # "idle" /\ new.stamp = script[r].stamp),
         \A s \in B!Stamp : raw'[s] = "cut" => raw[s] = "cut",
         \A s \in B!Stamp : partial'[s] = "broken" =>
                              partial[s] = "broken" \/ (script[r].at # "idle" /\ s = script[r].stamp)
  PROVE  ScriptsInv'
<1>1. script \in [Runner -> Script] /\ new \in Script
  BY DEF ScriptsInv, Going
<1>2. /\ script' \in [Runner -> Script] /\ script'[r] = new
      /\ \A q \in Runner : q # r => script'[q] = script[q]
  BY <1>1
<1>3. ASSUME NEW q \in Runner
      PROVE  Going(script'[q], raw', partial', produced', stamps')
  <2>1. CASE q = r
    BY <1>2, <2>1
  <2>2. CASE q # r
    <3> DEFINE sc == script[q]
    <3>1. Going(sc, raw, partial, produced, stamps)
      BY DEF ScriptsInv
    <3>2. sc \in Script /\ script[r].at # "idle" => script[r].stamp # sc.stamp
      BY <1>1, <2>2 DEF ScriptsInv
    <3> HIDE DEF sc
    <3>3. sc.at # "idle" => sc.stamp \in B!Stamp
      <4>1. stamps \in 0..MaxScripts /\ MaxScripts \in Nat
        BY DEF FilesInv, B!BackupsAssumption
      <4>2. sc.at # "idle" => sc.stamp \in 1..stamps
        BY <3>1 DEF Going
      <4> QED
        BY <4>1, <4>2 DEF B!Stamp
    <3>4. \A s \in sc.doomed : Old(s, produced')
      <4>1. produced' \in SUBSET B!Stamp /\ produced \in SUBSET produced'
        BY DEF FilesInv
      <4>2. \A s \in sc.doomed : Old(s, produced)
        BY <3>1 DEF Going
      <4> QED
        BY <4>1, <4>2, OldStays
    <3>5. sc.at = "gzip" => raw'[sc.stamp] # "cut"
      BY <3>1, <3>3 DEF Going
    <3>6. sc.at = "move" => partial'[sc.stamp] # "broken"
      BY <3>1, <3>2, <3>3 DEF Going
    <3>7. Going(sc, raw', partial', produced', stamps)
      BY <3>1, <3>4, <3>5, <3>6 DEF Going
    <3> QED
      BY <1>2, <2>2, <3>7 DEF sc
  <2> QED
    BY <2>1, <2>2
<1>4. ASSUME NEW p \in Runner, NEW q \in Runner, script'[p].at # "idle", script'[p].stamp = script'[q].stamp
      PROVE  p = q
  <2>1. \A x, y \in Runner : script[x].at # "idle" /\ script[x].stamp = script[y].stamp => x = y
    BY DEF ScriptsInv
  <2>2. script'[p].stamp \in 1..stamps
    BY <1>3, <1>4 DEF Going
  <2>3. script'[q].at # "idle"
    <3>1. Going(script'[q], raw', partial', produced', stamps')
      BY <1>3
    <3>2. B!NoScript.stamp = 0
      BY DEF B!NoScript
    <3> QED
      BY <1>4, <2>2, <3>1, <3>2 DEF Going
  <2>4. script[p].at # "idle" /\ script[p].stamp = script'[p].stamp
    BY <1>2, <1>4
  <2>5. script[q].at # "idle" /\ script[q].stamp = script'[q].stamp
    BY <1>2, <2>3
  <2> QED
    BY <1>4, <2>1, <2>4, <2>5
<1> QED
  BY <1>2, <1>3, <1>4 DEF ScriptsInv

LEMMA NobodyRuns ==
  ASSUME B!BackupsAssumption
  PROVE  B!NoScript \in Script /\ \A ra, pa, names, n : Going(B!NoScript, ra, pa, names, n)
<1>1. 0 \in 0..MaxScripts
  BY DEF B!BackupsAssumption
<1>2. B!NoScript \in Script
  BY <1>1 DEF B!NoScript, Script, At
<1>3. B!NoScript.at = "idle" /\ B!NoScript.doomed = {}
  BY DEF B!NoScript
<1> QED
  BY <1>2, <1>3 DEF Going

\* No file turns worse but one of script r.
Harmless(r) ==
  /\ \A s \in B!Stamp : raw'[s] = "cut" => raw[s] = "cut"
  /\ \A s \in B!Stamp : partial'[s] = "broken" =>
                          partial[s] = "broken" \/ (script[r].at # "idle" /\ s = script[r].stamp)

LEMMA DumpsStay ==
  ASSUME DumpsInv, UNCHANGED <<final, produced>>
  PROVE  DumpsInv'
<1>1. B!Dumps' = B!Dumps
  BY DEF B!Dumps
<1> QED
  BY <1>1 DEF DumpsInv, Old, B!Newer

LEMMA DumpsPruned ==
  ASSUME FilesInv, DumpsInv, NEW names, \A s \in names : Old(s, produced),
         final' = B!Without(final, names), UNCHANGED produced
  PROVE  DumpsInv'
<1>1. \A s \in B!Stamp : final'[s] = IF s \in names THEN "none" ELSE final[s]
  BY DEF FilesInv, B!Without
<1>2. B!Dumps' \subseteq B!Dumps
  BY <1>1 DEF B!Dumps
<1>3. \A s \in produced : Old(s, produced) \/ final'[s] = "whole"
  BY <1>1 DEF DumpsInv, FilesInv
<1> QED
  BY <1>2, <1>3 DEF DumpsInv, Old, B!Newer

LEMMA DumpMoved ==
  ASSUME B!BackupsAssumption, FilesInv, DumpsInv, NEW s \in B!Stamp,
         final' = [final EXCEPT ![s] = "whole"], produced' = produced \cup {s}
  PROVE  DumpsInv'
<1>1. final \in [B!Stamp -> {"none", "whole"}] /\ produced \in SUBSET B!Stamp
  BY DEF FilesInv
<1>2. B!Dumps' \subseteq B!Dumps \cup {s}
  BY <1>1 DEF B!Dumps
<1>3. produced' \in SUBSET B!Stamp /\ produced \in SUBSET produced'
  BY <1>1
<1>4. \A t \in produced' : Old(t, produced') \/ final'[t] = "whole"
  <2> TAKE t \in produced'
  <2>1. CASE t = s
    BY <1>1, <2>1
  <2>2. CASE t # s
    <3>1. t \in produced /\ final'[t] = final[t]
      BY <1>1, <2>2
    <3>2. CASE Old(t, produced)
      BY <1>3, <3>2, OldStays
    <3> QED
      BY <3>1, <3>2 DEF DumpsInv
  <2> QED
    BY <2>1, <2>2
<1>5. \E u \in produced' : \A t \in produced' : t <= u
  <2>1. \A t \in produced' : t \in Int
    BY <1>3 DEF B!Stamp
  <2>2. CASE produced = {}
    BY <2>1, <2>2
  <2>3. CASE produced # {}
    <3>1. PICK u \in produced : \A t \in produced : t <= u
      BY <2>3 DEF DumpsInv
    <3>2. CASE s <= u
      BY <3>1, <3>2
    <3>3. CASE ~(s <= u)
      BY <1>3, <2>1, <3>1, <3>3
    <3> QED
      BY <3>2, <3>3
  <2> QED
    BY <2>2, <2>3
<1> QED
  BY <1>2, <1>4, <1>5 DEF DumpsInv, Old, B!Newer

\* The script of r goes on.
LEMMA GoesOn ==
  ASSUME B!BackupsAssumption, BackupsInv, FilesInv', DumpsInv', UNCHANGED <<stamps, task, health>>,
         produced \subseteq produced', NEW r \in Runner, Harmless(r),
         NEW new, script' = [script EXCEPT ![r] = new], Going(new, raw', partial', produced', stamps),
         script[r].at # "idle", new.stamp = script[r].stamp
  PROVE  BackupsInv'
<1>1. ScriptsInv'
  BY OthersGoOn DEF BackupsInv, Harmless
<1>2. script \in [Runner -> Script] /\ "worker" \in Runner
  BY DEF BackupsInv, ScriptsInv, B!BackupsAssumption
<1>3. script'["worker"] = script["worker"] \/ (r = "worker" /\ script'["worker"] = new)
  BY <1>2
<1>4. TaskInv'
  BY <1>3 DEF BackupsInv, TaskInv
<1> QED
  BY <1>1, <1>4 DEF BackupsInv

LEMMA GoesTo ==
  ASSUME B!BackupsAssumption, BackupsInv, FilesInv', DumpsInv', UNCHANGED <<stamps, task, health>>,
         produced \subseteq produced', NEW r \in Runner, Harmless(r),
         NEW at \in At \ {"idle"}, B!Goto(r, at), script[r].at # "idle",
         at = "gzip" => raw'[script[r].stamp] # "cut",
         at = "move" => partial'[script[r].stamp] # "broken",
         at \in {"upload", "list", "prune"} => script[r].stamp \in produced'
  PROVE  BackupsInv'
<1> DEFINE sc == script[r]
           new == [sc EXCEPT !.at = at]
<1>1. sc \in Script /\ Going(sc, raw, partial, produced, stamps) /\ script \in [Runner -> Script]
  BY DEF BackupsInv, ScriptsInv
<1>2. script' = [script EXCEPT ![r] = new]
  BY <1>1 DEF B!Goto
<1> HIDE DEF sc
<1>3. new \in Script /\ new.at = at /\ new.stamp = sc.stamp /\ new.doomed = sc.doomed
  BY <1>1 DEF Script
<1> HIDE DEF new
<1>4. \A s \in sc.doomed : Old(s, produced')
  <2>1. produced' \in SUBSET B!Stamp /\ produced \in SUBSET produced'
    BY DEF FilesInv
  <2>2. \A s \in sc.doomed : Old(s, produced)
    BY <1>1 DEF Going
  <2> QED
    BY <2>1, <2>2, OldStays
<1>5. sc.stamp \in 1..stamps
  BY <1>1 DEF Going, sc
<1>6. Going(new, raw', partial', produced', stamps)
  BY <1>3, <1>4, <1>5 DEF Going, sc
<1>7. new.stamp = script[r].stamp
  BY <1>3 DEF sc
<1> QED
  BY <1>2, <1>6, <1>7, GoesOn

\* It ends, and whoever waits for it learns how.
LEMMA Ends ==
  ASSUME B!BackupsAssumption, BackupsInv, FilesInv', DumpsInv', UNCHANGED <<stamps, health, produced>>,
         NEW r \in Runner, Harmless(r), NEW code \in {0, 1}, B!Exit(r, code), script[r].at # "idle",
         code = 0 => script[r].stamp \in produced
  PROVE  BackupsInv'
<1>1. script' = [script EXCEPT ![r] = B!NoScript] /\ B!NoScript.at = "idle"
  BY DEF B!Exit, B!NoScript
<1>2. ScriptsInv'
  BY <1>1, OthersGoOn, NobodyRuns DEF BackupsInv, Harmless
<1>3. script \in [Runner -> Script] /\ "worker" \in Runner /\ task \in Task
  BY DEF BackupsInv, ScriptsInv, TaskInv, B!BackupsAssumption
<1>4. CASE r = "worker"
  <2>1. script'["worker"].at = "idle"
    BY <1>1, <1>3, <1>4
  <2>2. task' = [task EXCEPT !.at = "exited", !.code = code]
    BY <1>4 DEF B!Exit
  <2>3. task' \in Task /\ task'.stamp = task.stamp /\ task'.code = code
    BY <1>3, <2>2 DEF Task
  <2>4. task.stamp = script[r].stamp
    BY <1>4 DEF BackupsInv, TaskInv
  <2>5. TaskInv'
    BY <2>1, <2>3, <2>4 DEF BackupsInv, TaskInv
  <2> QED
    BY <1>2, <2>5 DEF BackupsInv
<1>5. CASE r # "worker"
  <2>1. script'["worker"] = script["worker"] /\ task' = task
    BY <1>1, <1>3, <1>5 DEF B!Exit
  <2>2. TaskInv'
    BY <2>1 DEF BackupsInv, TaskInv
  <2> QED
    BY <1>2, <2>2 DEF BackupsInv
<1> QED
  BY <1>4, <1>5

\* A script begins, with a stamp that none has had.
LEMMA Begins ==
  ASSUME B!BackupsAssumption, FilesInv, ScriptsInv, DumpsInv, NEW r \in Runner, B!Begin(r),
         UNCHANGED <<partial, final, produced>>
  PROVE  /\ FilesInv' /\ ScriptsInv' /\ DumpsInv' /\ stamps' \in 1..MaxScripts
         /\ script'[r].stamp = stamps' /\ \A q \in Runner : q # r => script'[q] = script[q]
<1> DEFINE new == [B!NoScript EXCEPT !.at = "dump", !.stamp = stamps']
<1>1. /\ script \in [Runner -> Script] /\ stamps \in 0..MaxScripts /\ MaxScripts \in Nat
      /\ raw \in [B!Stamp -> {"none", "cut", "whole"}]
  BY DEF ScriptsInv, FilesInv, B!BackupsAssumption
<1>2. /\ stamps < MaxScripts /\ stamps' = stamps + 1 /\ raw' = [raw EXCEPT ![stamps'] = "cut"]
      /\ script' = [script EXCEPT ![r] = new]
  BY DEF B!Begin
<1>3. stamps' \in 1..MaxScripts /\ stamps \in Nat
  BY <1>1, <1>2
<1>4. new \in Script /\ new.at = "dump" /\ new.stamp = stamps' /\ new.doomed = {}
  <2> DEFINE n == stamps'
  <2>1. n \in 0..MaxScripts
    BY <1>1, <1>3
  <2> HIDE DEF n
  <2>2. LET k == [B!NoScript EXCEPT !.at = "dump", !.stamp = n]
        IN  k \in Script /\ k.at = "dump" /\ k.stamp = n /\ k.doomed = {}
    BY <2>1 DEF B!NoScript, Script, At
  <2> QED
    BY <2>2 DEF n
<1> HIDE DEF new
<1>5. /\ script' \in [Runner -> Script] /\ script'[r] = new
      /\ \A q \in Runner : q # r => script'[q] = script[q]
  BY <1>1, <1>2, <1>4
<1>6. FilesInv'
  <2>1. raw' \in [B!Stamp -> {"none", "cut", "whole"}]
    BY <1>1, <1>2
  <2>2. stamps' \in 0..MaxScripts
    BY <1>1, <1>3
  <2> QED
    BY <2>1, <2>2 DEF FilesInv
<1>7. ASSUME NEW q \in Runner
      PROVE  Going(script'[q], raw', partial', produced', stamps')
  <2>1. CASE q = r
    <3>1. stamps' \in 1..stamps'
      BY <1>3
    <3> QED
      BY <1>4, <1>5, <2>1, <3>1 DEF Going
  <2>2. CASE q # r
    <3> DEFINE sc == script[q]
    <3>1. Going(sc, raw, partial, produced, stamps)
      BY DEF ScriptsInv
    <3> HIDE DEF sc
    <3>2. sc.at # "idle" => sc.stamp \in 1..stamps
      BY <3>1 DEF Going
    <3>3. sc.at # "idle" => sc.stamp \in 1..stamps' /\ sc.stamp # stamps' /\ sc.stamp \in B!Stamp
      BY <1>1, <1>2, <1>3, <3>2 DEF B!Stamp
    <3>4. sc.at = "gzip" => raw'[sc.stamp] # "cut"
      BY <1>1, <1>2, <3>1, <3>3 DEF Going
    <3>5. Going(sc, raw', partial', produced', stamps')
      BY <3>1, <3>3, <3>4 DEF Going
    <3> QED
      BY <1>5, <2>2, <3>5 DEF sc
  <2> QED
    BY <2>1, <2>2
<1>8. \A q \in Runner : q # r => script'[q].stamp # stamps'
  <2> TAKE q \in Runner
  <2>1. Going(script[q], raw, partial, produced, stamps) /\ B!NoScript.stamp = 0
    BY DEF ScriptsInv, B!NoScript
  <2>2. script[q].stamp = 0 \/ script[q].stamp \in 1..stamps
    BY <2>1 DEF Going
  <2>3. script[q].stamp # stamps'
    BY <1>2, <1>3, <2>2
  <2> QED
    BY <1>5, <2>3
<1>9. \A p, q \in Runner : script'[p].at # "idle" /\ script'[p].stamp = script'[q].stamp => p = q
  <2>1. \A p, q \in Runner : script[p].at # "idle" /\ script[p].stamp = script[q].stamp => p = q
    BY DEF ScriptsInv
  <2> QED
    BY <1>4, <1>5, <1>8, <2>1
<1> QED
  BY <1>3, <1>4, <1>5, <1>6, <1>7, <1>9, DumpsStay DEF ScriptsInv

\* A shell that is killed leaves its files, or the command it was waiting for
\* finishes them.
LEMMA CutLeaves ==
  ASSUME B!BackupsAssumption, FilesInv, ScriptsInv, DumpsInv, NEW r \in Runner, B!Cut(r),
         UNCHANGED <<stamps, produced>>
  PROVE  /\ FilesInv' /\ ScriptsInv' /\ DumpsInv'
         /\ script'[r].at = "idle" /\ \A q \in Runner : q # r => script'[q] = script[q]
<1> DEFINE s == script[r].stamp
<1>1. /\ script \in [Runner -> Script] /\ Going(script[r], raw, partial, produced, stamps)
      /\ raw \in [B!Stamp -> {"none", "cut", "whole"}] /\ partial \in [B!Stamp -> {"none", "broken", "whole"}]
      /\ final \in [B!Stamp -> {"none", "whole"}] /\ stamps \in 0..MaxScripts /\ MaxScripts \in Nat
  BY DEF ScriptsInv, FilesInv, B!BackupsAssumption
<1>2. /\ script' = [script EXCEPT ![r] = B!NoScript]
      /\ \/ script[r].at = "dump" /\ raw' = B!Written(raw, s, "whole") /\ UNCHANGED <<partial, final>>
         \/ script[r].at = "gzip" /\ partial' = B!Written(partial, s, raw[s]) /\ UNCHANGED <<raw, final>>
         \/ script[r].at = "prune" /\ final' = B!Without(final, script[r].doomed) /\ UNCHANGED <<raw, partial>>
         \/ UNCHANGED <<raw, partial, final>>
  BY DEF B!Cut, B!Running
<1>3. script[r].at # "idle" => s \in B!Stamp
  BY <1>1 DEF Going, B!Stamp
<1>4. B!NoScript.at = "idle"
  BY DEF B!NoScript
<1>5. script'[r] = B!NoScript /\ \A q \in Runner : q # r => script'[q] = script[q]
  BY <1>1, <1>2
<1>6. ASSUME FilesInv', Harmless(r)
      PROVE  ScriptsInv'
  BY <1>2, <1>4, <1>6, NobodyRuns, OthersGoOn DEF Harmless
<1> HIDE DEF s
<1>7. CASE script[r].at = "dump" /\ raw' = B!Written(raw, s, "whole") /\ UNCHANGED <<partial, final>>
  <2>1. raw' \in [B!Stamp -> Raw] /\ \A t \in B!Stamp : raw'[t] = "cut" => raw[t] = "cut"
    BY <1>7, RawWritten
  <2>2. FilesInv' /\ Harmless(r)
    BY <1>7, <2>1 DEF FilesInv, Harmless, Raw
  <2> QED
    BY <1>4, <1>5, <1>6, <1>7, <2>2, DumpsStay
<1>8. CASE script[r].at = "gzip" /\ partial' = B!Written(partial, s, raw[s]) /\ UNCHANGED <<raw, final>>
  <2>1. raw[s] \in Partial /\ raw[s] # "broken"
    BY <1>1, <1>3, <1>8 DEF Going, s, Partial
  <2>2. /\ partial' \in [B!Stamp -> Partial]
        /\ \A t \in B!Stamp : partial'[t] = "broken" => partial[t] = "broken"
    BY <1>8, <2>1, PartialWritten
  <2>3. FilesInv' /\ Harmless(r)
    BY <1>8, <2>2 DEF FilesInv, Harmless, Partial
  <2> QED
    BY <1>4, <1>5, <1>6, <1>8, <2>3, DumpsStay
<1>9. CASE script[r].at = "prune" /\ final' = B!Without(final, script[r].doomed) /\ UNCHANGED <<raw, partial>>
  <2>1. final' \in [B!Stamp -> Final]
    BY <1>9, FilesDeleted
  <2>2. FilesInv' /\ Harmless(r)
    BY <1>9, <2>1 DEF FilesInv, Harmless, Final
  <2>3. DumpsInv'
    BY <1>1, <1>9, DumpsPruned DEF Going
  <2> QED
    BY <1>4, <1>5, <1>6, <2>2, <2>3
<1>10. CASE UNCHANGED <<raw, partial, final>>
  <2>1. FilesInv' /\ Harmless(r)
    BY <1>10 DEF FilesInv, Harmless
  <2> QED
    BY <1>4, <1>5, <1>6, <1>10, <2>1, DumpsStay
<1> QED
  BY <1>2, <1>7, <1>8, <1>9, <1>10 DEF s

\* The worker's row is written: what it is told of a dump is so.
LEMMA TaskTold ==
  ASSUME B!BackupsAssumption, BackupsInv, UNCHANGED produced, script'["worker"].at = "idle",
         NEW success \in BOOLEAN, NEW error \in BOOLEAN, B!record_outcome(success, error),
         success => produced # {},
         success /\ HasBucket /\ ~error => task.stamp \in produced
  PROVE  TaskInv'
<1>1. task \in Task /\ health \in [tried : 0..MaxScripts, succeeded : 0..MaxScripts, error : BOOLEAN]
  BY DEF BackupsInv, TaskInv
<1>2. task.stamp \in 0..MaxScripts /\ health.succeeded \in 0..MaxScripts
  BY <1>1 DEF Task
<1>3. /\ health' = [tried |-> task.stamp, succeeded |-> IF success THEN task.stamp ELSE health.succeeded,
                    error |-> error \/ ~success]
      /\ task' = B!NoTask
  BY DEF B!record_outcome
<1>4. health' \in [tried : 0..MaxScripts, succeeded : 0..MaxScripts, error : BOOLEAN]
  <2>1. (error \/ ~success) \in BOOLEAN
    OBVIOUS
  <2>2. (IF success THEN task.stamp ELSE health.succeeded) \in 0..MaxScripts
    BY <1>2
  <2> QED
    BY <1>2, <1>3, <2>1, <2>2
<1>5. B!NoTask \in Task /\ B!NoTask.at = "idle"
  BY DEF B!NoTask, Task, B!BackupsAssumption
<1>6. health'.succeeded # 0 => produced # {}
  BY <1>3 DEF BackupsInv, TaskInv
<1>7. HasBucket /\ ~health'.error => health'.tried \in produced \cup {0}
  BY <1>3
<1> QED
  BY <1>3, <1>4, <1>5, <1>6, <1>7 DEF TaskInv

LEMMA TaskStep ==
  ASSUME B!BackupsAssumption, BackupsInv, B!StartTask \/ B!Timeout \/ B!Record \/ B!KillWorker
  PROVE  BackupsInv'
<1>1. /\ "worker" \in Runner /\ task \in Task /\ FilesInv /\ ScriptsInv /\ DumpsInv /\ TaskInv
      /\ MaxScripts \in Nat /\ HasBucket \in BOOLEAN
  BY DEF BackupsInv, TaskInv, B!BackupsAssumption
<1>2. B!NoTask \in Task /\ B!NoTask.at = "idle"
  BY DEF B!NoTask, Task, B!BackupsAssumption
<1>3. CASE B!StartTask
  <2> DEFINE n == stamps'
  <2>1. /\ B!Begin("worker") /\ UNCHANGED <<partial, final, health, produced>>
        /\ task' = [B!NoTask EXCEPT !.at = "running", !.stamp = n]
    BY <1>3 DEF B!StartTask
  <2>2. FilesInv' /\ ScriptsInv' /\ DumpsInv' /\ n \in 1..MaxScripts /\ script'["worker"].stamp = n
    BY <1>1, <2>1, Begins
  <2>3. n \in 0..MaxScripts
    BY <1>1, <2>2
  <2> HIDE DEF n
  <2>4. task' \in Task /\ task'.at = "running" /\ task'.stamp = n
    BY <2>1, <2>3 DEF B!NoTask, Task
  <2>5. TaskInv'
    BY <1>1, <2>1, <2>2, <2>4 DEF TaskInv
  <2> QED
    BY <2>2, <2>5 DEF BackupsInv
<1>4. CASE B!Timeout
  <2>1. B!Cut("worker") /\ B!record_outcome(FALSE, TRUE) /\ UNCHANGED <<stamps, produced>>
    BY <1>4 DEF B!Timeout
  <2>2. FilesInv' /\ ScriptsInv' /\ DumpsInv' /\ script'["worker"].at = "idle"
    BY <1>1, <2>1, CutLeaves
  <2>3. TaskInv'
    BY <2>1, <2>2, TaskTold
  <2> QED
    BY <2>2, <2>3 DEF BackupsInv
<1>5. CASE B!Record
  <2> DEFINE uploaded == HasBucket /\ task.code = 0
             error == HasBucket /\ ~uploaded
  <2>1. /\ task.at = "exited" /\ UNCHANGED <<raw, partial, final, script, stamps, produced>>
        /\ \/ B!Dumps = {} /\ B!record_outcome(FALSE, TRUE)
           \/ B!Dumps # {} /\ B!record_outcome(TRUE, error)
    BY <1>5 DEF B!Record
  <2>2. script["worker"].at = "idle"
    BY <1>1, <2>1 DEF TaskInv
  <2>3. FilesInv' /\ ScriptsInv' /\ DumpsInv'
    BY <1>1, <2>1, DumpsStay DEF FilesInv, ScriptsInv
  <2>4. error \in BOOLEAN /\ (HasBucket /\ ~error => task.stamp \in produced)
    BY <1>1, <2>1 DEF TaskInv
  <2>5. B!Dumps # {} => produced # {}
    BY <1>1 DEF DumpsInv
  <2> HIDE DEF error
  <2>6. TaskInv'
    <3>1. CASE B!record_outcome(FALSE, TRUE)
      BY <2>1, <2>2, <3>1, TaskTold
    <3>2. CASE B!Dumps # {} /\ B!record_outcome(TRUE, error)
      BY <2>1, <2>2, <2>4, <2>5, <3>2, TaskTold
    <3> QED
      BY <2>1, <3>1, <3>2
  <2> QED
    BY <2>3, <2>6 DEF BackupsInv
<1>6. CASE B!KillWorker
  <2>1. B!Cut("worker") /\ task' = B!NoTask /\ UNCHANGED <<stamps, health, produced>>
    BY <1>6 DEF B!KillWorker
  <2>2. FilesInv' /\ ScriptsInv' /\ DumpsInv' /\ script'["worker"].at = "idle"
    BY <1>1, <2>1, CutLeaves
  <2>3. TaskInv'
    BY <1>1, <1>2, <2>1, <2>2 DEF TaskInv
  <2> QED
    BY <2>2, <2>3 DEF BackupsInv
<1> QED
  BY <1>3, <1>4, <1>5, <1>6

LEMMA ScriptStep ==
  ASSUME B!BackupsAssumption, BackupsInv, NEW r \in Runner,
         \/ B!RunByHand(r) \/ B!DumpEnds(r) \/ B!Check(r) \/ B!GzipEnds(r) \/ B!Verify(r)
         \/ B!Move(r) \/ B!Upload(r) \/ B!List(r) \/ B!Prune(r) \/ B!Interrupt(r)
  PROVE  BackupsInv'
<1> DEFINE s == script[r].stamp
<1>1. /\ FilesInv /\ ScriptsInv /\ DumpsInv /\ TaskInv /\ "worker" \in Runner /\ MaxScripts \in Nat
      /\ raw \in [B!Stamp -> Raw] /\ partial \in [B!Stamp -> Partial] /\ final \in [B!Stamp -> Final]
      /\ stamps \in 0..MaxScripts /\ produced \in SUBSET B!Stamp
  BY DEF BackupsInv, FilesInv, B!BackupsAssumption, Raw, Partial, Final
<1>2. script \in [Runner -> Script] /\ script[r] \in Script /\ Going(script[r], raw, partial, produced, stamps)
  BY <1>1 DEF ScriptsInv
<1>3. script[r].at # "idle" => s \in B!Stamp /\ s \in 1..stamps
  BY <1>1, <1>2 DEF Going, B!Stamp
<1>4. ASSUME UNCHANGED <<partial, final, stamps, produced>>, raw' \in [B!Stamp -> Raw],
             \A t \in B!Stamp : raw'[t] = "cut" => raw[t] = "cut"
      PROVE  FilesInv' /\ Harmless(r) /\ DumpsInv'
  BY <1>1, <1>4, DumpsStay DEF FilesInv, Harmless, Raw
<1>5. B!Without(raw, {s}) \in [B!Stamp -> Raw] /\ \A t \in B!Stamp : B!Without(raw, {s})[t] = "cut" => raw[t] = "cut"
  BY <1>1, FilesDeleted
<1>6. /\ B!Without(partial, {s}) \in [B!Stamp -> Partial]
      /\ \A t \in B!Stamp : B!Without(partial, {s})[t] = "broken" => partial[t] = "broken"
  BY <1>1, FilesDeleted
<1> HIDE DEF s
<1>7. CASE B!RunByHand(r)
  <2>1. r # "worker" /\ B!Begin(r) /\ UNCHANGED <<partial, final, task, health, produced>>
    BY <1>7 DEF B!RunByHand
  <2>2. FilesInv' /\ ScriptsInv' /\ DumpsInv' /\ script'["worker"] = script["worker"]
    BY <1>1, <2>1, Begins
  <2>3. TaskInv'
    BY <1>1, <2>1, <2>2 DEF TaskInv
  <2> QED
    BY <2>2, <2>3 DEF BackupsInv
<1>8. CASE B!DumpEnds(r)
  <2>1. /\ script[r].at = "dump" /\ UNCHANGED <<partial, final, stamps, health, produced>>
        /\ \/ raw' = B!Written(raw, s, "whole") /\ B!Goto(r, "check") /\ UNCHANGED task
           \/ B!Goto(r, "check") /\ UNCHANGED <<raw, task>>
           \/ raw' = B!Without(raw, {s}) /\ B!Exit(r, 1)
    BY <1>8 DEF B!DumpEnds, B!Running, s
  <2>2. raw' \in [B!Stamp -> Raw] /\ \A t \in B!Stamp : raw'[t] = "cut" => raw[t] = "cut"
    BY <1>1, <1>5, <2>1, RawWritten
  <2>3. FilesInv' /\ Harmless(r) /\ DumpsInv'
    BY <1>4, <2>1, <2>2
  <2>4. CASE B!Goto(r, "check") /\ UNCHANGED task
    BY <2>1, <2>3, <2>4, GoesTo DEF At
  <2>5. CASE B!Exit(r, 1)
    BY <2>1, <2>3, <2>5, Ends
  <2> QED
    BY <2>1, <2>4, <2>5
<1>9. CASE B!Check(r)
  <2>1. /\ script[r].at = "check" /\ UNCHANGED <<final, stamps, health, produced>>
        /\ \/ /\ raw[s] = "whole" /\ partial' = [partial EXCEPT ![s] = "broken"]
              /\ B!Goto(r, "gzip") /\ UNCHANGED <<raw, task>>
           \/ raw' = B!Without(raw, {s}) /\ B!Exit(r, 1) /\ UNCHANGED partial
    BY <1>9 DEF B!Check, B!Running, B!Complete, s
  <2>2. CASE /\ raw[s] = "whole" /\ partial' = [partial EXCEPT ![s] = "broken"]
             /\ B!Goto(r, "gzip") /\ UNCHANGED <<raw, task>>
    <3>1. partial' \in [B!Stamp -> Partial] /\ \A t \in B!Stamp : t # s => partial'[t] = partial[t]
      BY <1>1, <2>2 DEF Partial
    <3>2. FilesInv'
      BY <1>1, <2>1, <2>2, <3>1 DEF FilesInv, Partial
    <3>3. Harmless(r)
      BY <2>1, <2>2, <3>1 DEF Harmless, s
    <3>4. DumpsInv'
      BY <1>1, <2>1, DumpsStay
    <3>5. raw'[script[r].stamp] # "cut"
      BY <2>2 DEF s
    <3> QED
      BY <2>1, <2>2, <3>2, <3>3, <3>4, <3>5, GoesTo DEF At
  <2>3. CASE raw' = B!Without(raw, {s}) /\ B!Exit(r, 1) /\ UNCHANGED partial
    <3>1. FilesInv' /\ Harmless(r) /\ DumpsInv'
      BY <1>4, <1>5, <2>1, <2>3
    <3> QED
      BY <2>1, <2>3, <3>1, Ends
  <2> QED
    BY <2>1, <2>2, <2>3
<1>10. CASE B!GzipEnds(r)
  <2>1. /\ script[r].at = "gzip" /\ UNCHANGED <<final, stamps, health, produced>>
        /\ \/ /\ partial' = B!Written(partial, s, raw[s]) /\ raw' = B!Without(raw, {s})
              /\ B!Goto(r, "verify") /\ UNCHANGED task
           \/ raw' = B!Without(raw, {s}) /\ B!Goto(r, "verify") /\ UNCHANGED <<partial, task>>
           \/ partial' = B!Without(partial, {s}) /\ B!Exit(r, 1) /\ UNCHANGED raw
    BY <1>10 DEF B!GzipEnds, B!Running, s
  <2>2. raw[s] \in Partial /\ raw[s] # "broken"
    BY <1>1, <1>2, <1>3, <2>1 DEF Going, s, Raw, Partial
  <2>3. raw' \in [B!Stamp -> Raw] /\ \A t \in B!Stamp : raw'[t] = "cut" => raw[t] = "cut"
    BY <1>1, <1>5, <2>1
  <2>4. partial' \in [B!Stamp -> Partial] /\ \A t \in B!Stamp : partial'[t] = "broken" => partial[t] = "broken"
    BY <1>1, <1>6, <2>1, <2>2, PartialWritten
  <2>5. FilesInv' /\ Harmless(r) /\ DumpsInv'
    BY <1>1, <2>1, <2>3, <2>4, DumpsStay DEF FilesInv, Harmless, Raw, Partial
  <2>6. CASE B!Goto(r, "verify") /\ UNCHANGED task
    BY <2>1, <2>5, <2>6, GoesTo DEF At
  <2>7. CASE B!Exit(r, 1)
    BY <2>1, <2>5, <2>7, Ends
  <2> QED
    BY <2>1, <2>6, <2>7
<1>11. CASE B!Verify(r)
  <2>1. /\ script[r].at = "verify" /\ UNCHANGED <<raw, final, stamps, health, produced>>
        /\ \/ partial[s] # "broken" /\ B!Goto(r, "move") /\ UNCHANGED <<partial, task>>
           \/ partial' = B!Without(partial, {s}) /\ B!Exit(r, 1)
    BY <1>11 DEF B!Verify, B!Running, s
  <2>2. partial' \in [B!Stamp -> Partial] /\ \A t \in B!Stamp : partial'[t] = "broken" => partial[t] = "broken"
    BY <1>1, <1>6, <2>1
  <2>3. FilesInv' /\ Harmless(r) /\ DumpsInv'
    BY <1>1, <2>1, <2>2, DumpsStay DEF FilesInv, Harmless, Raw, Partial
  <2>4. CASE partial[s] # "broken" /\ B!Goto(r, "move") /\ UNCHANGED <<partial, task>>
    <3>1. partial'[script[r].stamp] # "broken"
      BY <2>4 DEF s
    <3> QED
      BY <2>1, <2>3, <2>4, <3>1, GoesTo DEF At
  <2>5. CASE B!Exit(r, 1)
    BY <2>1, <2>3, <2>5, Ends
  <2> QED
    BY <2>1, <2>4, <2>5
<1>12. CASE B!Move(r)
  <2>1. /\ script[r].at = "move" /\ UNCHANGED <<raw, stamps, health>> /\ partial' = B!Without(partial, {s})
        /\ \/ /\ partial[s] # "none" /\ final' = [final EXCEPT ![s] = partial[s]] /\ produced' = produced \cup {s}
              /\ B!Goto(r, "upload") /\ UNCHANGED task
           \/ B!Exit(r, 1) /\ UNCHANGED <<final, produced>>
    BY <1>12 DEF B!Move, B!Running, s
  <2>2. Harmless(r) /\ partial' \in [B!Stamp -> Partial]
    BY <1>6, <2>1 DEF Harmless
  <2>3. CASE /\ partial[s] # "none" /\ final' = [final EXCEPT ![s] = partial[s]] /\ produced' = produced \cup {s}
             /\ B!Goto(r, "upload") /\ UNCHANGED task
    <3>1. s \in B!Stamp /\ partial[s] = "whole"
      BY <1>1, <1>2, <1>3, <2>1, <2>3 DEF Going, s, Partial
    <3>2. final' = [final EXCEPT ![s] = "whole"]
      BY <2>3, <3>1
    <3>3. final' \in [B!Stamp -> Final] /\ produced' \in SUBSET B!Stamp
      BY <1>1, <2>3, <3>1, <3>2 DEF Final
    <3>4. FilesInv'
      BY <1>1, <2>1, <2>2, <3>3 DEF FilesInv, Raw, Partial, Final
    <3>5. DumpsInv'
      BY <1>1, <2>3, <3>1, <3>2, DumpMoved
    <3>6. produced \subseteq produced' /\ script[r].stamp \in produced'
      BY <2>3 DEF s
    <3> QED
      BY <2>1, <2>2, <2>3, <3>4, <3>5, <3>6, GoesTo DEF At
  <2>4. CASE B!Exit(r, 1) /\ UNCHANGED <<final, produced>>
    <3>1. FilesInv' /\ DumpsInv'
      BY <1>1, <2>1, <2>2, <2>4, DumpsStay DEF FilesInv, Raw, Partial
    <3> QED
      BY <2>1, <2>2, <2>4, <3>1, Ends
  <2> QED
    BY <2>1, <2>3, <2>4
<1>13. ASSUME UNCHANGED <<raw, partial, final, stamps, produced>>
       PROVE  FilesInv' /\ Harmless(r) /\ DumpsInv'
  BY <1>1, <1>13, DumpsStay DEF FilesInv, Harmless
<1>14. CASE B!Upload(r)
  <2>1. PICK ok \in BOOLEAN : script' = [script EXCEPT ![r].at = "list", ![r].uploaded = ok]
    BY <1>14 DEF B!Upload
  <2>2. script[r].at = "upload" /\ UNCHANGED <<raw, partial, final, task, stamps, health, produced>>
    BY <1>14 DEF B!Upload, B!Running
  <2> DEFINE new == [script[r] EXCEPT !.at = "list", !.uploaded = ok]
  <2>3. script' = [script EXCEPT ![r] = new]
    BY <1>2, <2>1
  <2>4. new \in Script /\ new.at = "list" /\ new.stamp = script[r].stamp /\ new.doomed = script[r].doomed
    BY <1>2 DEF Script, At
  <2> HIDE DEF new
  <2>5. Going(new, raw', partial', produced', stamps)
    BY <1>2, <2>2, <2>4 DEF Going
  <2> QED
    BY <1>13, <2>2, <2>3, <2>4, <2>5, GoesOn
<1>15. CASE B!List(r)
  <2> DEFINE doomed == B!Doomed(B!Dumps)
             new == [script[r] EXCEPT !.at = "prune", !.doomed = doomed]
  <2>1. /\ script[r].at = "list" /\ UNCHANGED <<raw, partial, final, task, stamps, health, produced>>
        /\ script' = [script EXCEPT ![r].at = "prune", ![r].doomed = doomed]
    BY <1>15 DEF B!List, B!Running
  <2>2. script' = [script EXCEPT ![r] = new]
    BY <1>2, <2>1
  <2>3. B!Dumps \in SUBSET produced /\ doomed \in SUBSET B!Stamp
    BY <1>1 DEF DumpsInv, B!Doomed, B!Dumps
  <2>4. \A t \in doomed : Old(t, produced)
    <3>1. \A t \in doomed : Old(t, B!Dumps)
      BY BackupsCountAlike DEF B!Doomed, Old
    <3> QED
      BY <1>1, <2>3, <3>1, OldStays
  <2> HIDE DEF doomed
  <2>5. new \in Script /\ new.at = "prune" /\ new.stamp = script[r].stamp /\ new.doomed = doomed
    BY <1>2, <2>3 DEF Script, At
  <2> HIDE DEF new
  <2>6. Going(new, raw', partial', produced', stamps)
    BY <1>2, <2>1, <2>4, <2>5 DEF Going
  <2> QED
    BY <1>13, <2>1, <2>2, <2>5, <2>6, GoesOn
<1>16. CASE B!Prune(r)
  <2>1. /\ script[r].at = "prune" /\ UNCHANGED <<stamps, health, produced>>
        /\ final' = B!Without(final, script[r].doomed)
        /\ raw' = B!Without(raw, B!Stamp) /\ partial' = B!Without(partial, B!Stamp)
        /\ B!Exit(r, IF script[r].uploaded THEN 0 ELSE 1)
    BY <1>16 DEF B!Prune, B!Running
  <2>2. /\ raw' \in [B!Stamp -> Raw] /\ partial' \in [B!Stamp -> Partial] /\ final' \in [B!Stamp -> Final]
        /\ \A t \in B!Stamp : raw'[t] \in {"none", raw[t]} /\ partial'[t] \in {"none", partial[t]}
    BY <1>1, <2>1, FilesDeleted
  <2>3. FilesInv' /\ Harmless(r)
    BY <1>1, <2>1, <2>2 DEF FilesInv, Harmless, Raw, Partial, Final
  <2>4. DumpsInv' /\ script[r].stamp \in produced
    BY <1>1, <1>2, <2>1, DumpsPruned DEF Going
  <2>5. PICK code \in {0, 1} : B!Exit(r, code)
    BY <2>1
  <2> QED
    BY <2>1, <2>3, <2>4, <2>5, Ends
<1>17. CASE B!Interrupt(r)
  <2>1. r # "worker" /\ B!Cut(r) /\ UNCHANGED <<task, stamps, health, produced>>
    BY <1>17 DEF B!Interrupt
  <2>2. FilesInv' /\ ScriptsInv' /\ DumpsInv' /\ script'["worker"] = script["worker"]
    BY <1>1, <2>1, CutLeaves
  <2>3. TaskInv'
    BY <1>1, <2>1, <2>2 DEF TaskInv
  <2> QED
    BY <2>2, <2>3 DEF BackupsInv
<1> QED
  BY <1>7, <1>8, <1>9, <1>10, <1>11, <1>12, <1>14, <1>15, <1>16, <1>17

LEMMA BackupsStart ==
  ASSUME B!BackupsAssumption, B!Init
  PROVE  BackupsInv
<1>1. /\ raw = [s \in B!Stamp |-> "none"] /\ partial = raw /\ final = raw /\ produced = {} /\ stamps = 0
      /\ script = [r \in Runner |-> B!NoScript] /\ task = B!NoTask
      /\ health = [tried |-> 0, succeeded |-> 0, error |-> FALSE]
      /\ MaxScripts \in Nat /\ "worker" \in Runner /\ 0 \in 0..MaxScripts
  BY DEF B!Init, B!BackupsAssumption
<1>2. FilesInv
  BY <1>1 DEF FilesInv
<1>3. ScriptsInv
  BY <1>1, NobodyRuns DEF ScriptsInv, B!NoScript
<1>4. DumpsInv
  BY <1>1 DEF DumpsInv, B!Dumps
<1>5. B!NoTask \in Task /\ B!NoTask.at = "idle"
  BY <1>1 DEF B!NoTask, Task
<1>6. TaskInv
  BY <1>1, <1>5 DEF TaskInv, B!NoScript
<1> QED
  BY <1>2, <1>3, <1>4, <1>6 DEF BackupsInv

\* Where something was made, the newest of it is there.
LEMMA NewestIsKept ==
  ASSUME B!BackupsAssumption, BackupsInv, produced # {}
  PROVE  B!Dumps # {}
<1>1. /\ produced \in SUBSET B!Stamp /\ MaxScripts \in Nat
      /\ \A s \in produced : Old(s, produced) \/ final[s] = "whole"
  BY DEF BackupsInv, FilesInv, DumpsInv, B!BackupsAssumption
<1>2. IsFiniteSet(produced)
  BY <1>1, StampsFinite
<1>3. PICK s \in produced : \A t \in produced : ~(t > s)
  <2>1. \A t \in produced : t \in Int
    BY <1>1 DEF B!Stamp
  <2>2. PICK s \in produced : \A t \in produced : t <= s
    BY DEF BackupsInv, DumpsInv
  <2> QED
    BY <2>1, <2>2
<1>4. B!Newer(s, produced) = {}
  BY <1>3 DEF B!Newer
<1>5. ~Old(s, produced)
  BY <1>4, FS_EmptySet DEF Old, B!BackupsAssumption
<1>6. final[s] = "whole" /\ s \in B!Stamp
  BY <1>1, <1>3, <1>5
<1> QED
  BY <1>6 DEF B!Dumps

\* However many scripts run at once, and however many dumps are kept.
THEOREM BackupsCanBeRestored ==
  ASSUME B!BackupsAssumption
  PROVE  B!Spec => []DumpsAreKept
<1>1. B!Init => BackupsInv
  BY BackupsStart
<1>2. BackupsInv /\ [B!Next]_(B!vars) => BackupsInv'
  <2> SUFFICES ASSUME BackupsInv, [B!Next]_(B!vars)
               PROVE  BackupsInv'
    OBVIOUS
  <2>1. CASE UNCHANGED B!vars
    BY <2>1, DumpsStay DEF B!vars, BackupsInv, FilesInv, ScriptsInv, TaskInv
  <2>2. CASE B!StartTask \/ B!Timeout \/ B!Record \/ B!KillWorker
    BY <2>2, TaskStep
  <2> QED
    BY <2>1, <2>2, ScriptStep DEF B!Next
<1>3. BackupsInv => DumpsAreKept
  <2> SUFFICES ASSUME BackupsInv PROVE B!DumpsAreKept
    BY DEF DumpsAreKept
  <2>1. \A s \in B!Stamp : final[s] \in {"none", "whole"}
    BY DEF BackupsInv, FilesInv
  <2>2. ASSUME NEW s \in produced, B!Cardinality(B!Newer(s, produced)) < BACKUP_KEEP \/ BACKUP_KEEP = 0
        PROVE  final[s] = "whole"
    <3> DEFINE newer == B!Newer(s, produced)
    <3>1. newer \in SUBSET B!Stamp
      BY DEF BackupsInv, FilesInv, B!Newer
    <3> HIDE DEF newer
    <3>2. Cardinality(newer) \in Nat /\ BACKUP_KEEP \in Nat
      BY <3>1, StampsFinite DEF B!BackupsAssumption
    <3>3. Cardinality(newer) < BACKUP_KEEP \/ BACKUP_KEEP = 0
      BY <2>2, BackupsCountAlike DEF newer
    <3>4. ~(BACKUP_KEEP # 0 /\ Cardinality(newer) >= BACKUP_KEEP)
      BY <3>2, <3>3
    <3>5. ~Old(s, produced)
      BY <3>4 DEF Old, newer
    <3> QED
      BY <3>5 DEF BackupsInv, DumpsInv
  <2>3. B!FeedHealth_status = "ok" => B!Dumps # {}
    <3>1. B!FeedHealth_status = "ok" => health.succeeded # 0
      BY DEF B!FeedHealth_status
    <3> QED
      BY <3>1, NewestIsKept DEF BackupsInv, TaskInv
  <2>4. HasBucket /\ ~health.error => health.tried \in produced \cup {0}
    BY DEF BackupsInv, TaskInv
  <2> QED
    BY <2>1, <2>2, <2>3, <2>4 DEF B!DumpsAreKept
<1> QED
  BY <1>1, <1>2, <1>3, PTL DEF B!Spec

-----------------------------------------------------------------------------
(***************************************************************************)
(* Mirror.  What the downloaded archive says of an advisory is either      *)
(* still to be read or what the rows and the index say of it, however the  *)
(* chunks are cut.                                                         *)
(***************************************************************************)

LEMMA MirrorCountsAlike == \A X : (D!IsFiniteSet(X) <=> IsFiniteSet(X)) /\ D!Cardinality(X) = Cardinality(X)
<1> SUFFICES ASSUME NEW X PROVE (D!IsFiniteSet(X) <=> IsFiniteSet(X)) /\ D!Cardinality(X) = Cardinality(X)
  OBVIOUS
<1>1. D!IsFiniteSet(X) <=> IsFiniteSet(X)
  BY DEF D!IsFiniteSet, IsFiniteSet
<1>2. D!Cardinality(X) = Cardinality(X)
  BY DEF D!Cardinality, Cardinality
<1> QED
  BY <1>1, <1>2

Archive == [Advisory -> D!Text]
Sync == [at : Nat, archive : Archive, rest : Seq(Advisory), stored : Nat, done : SUBSET D!Ecosystem]

\* What the archive of s says of a is to be read, or what the tables rs and ix say.
Read(a, s, rs, ix) ==
  \/ s.archive[a].affected = {}
  \/ \E i \in 1..Len(s.rest) : s.rest[i] = a
  \/ rs[a] = s.archive[a] /\ \A p \in Package : <<a, p>> \in ix <=> p \in s.archive[a].affected

MirrorInv ==
  /\ osv \in Archive /\ sync \in Sync
  /\ \A a \in Advisory : Read(a, sync, records, index)

\* The archive's entries in some order are all of them.
LEMMA OrdersHaveAll ==
  ASSUME NEW X \in SUBSET Advisory, IsFiniteSet(X), NEW order \in D!Orders(X)
  PROVE  order \in Seq(Advisory) /\ \A a \in X : \E i \in 1..Len(order) : order[i] = a
<1> DEFINE n == Cardinality(X)
<1>1. n \in Nat
  BY FS_CardinalityType
<1>2. order \in [1..n -> X] /\ \A i, j \in 1..n : order[i] = order[j] => i = j
  BY MirrorCountsAlike DEF D!Orders
<1> HIDE DEF n
<1>3. order \in Injection(1..n, X)
  BY <1>2, Fun_IsInj
<1>4. IsFiniteSet(1..n) /\ Cardinality(1..n) = n
  BY <1>1, FS_Interval
<1>5. order \in Surjection(1..n, X)
  BY <1>3, <1>4, FS_Injection DEF n
<1>6. \A a \in X : \E i \in 1..n : order[i] = a
  <2> DEFINE N == 1..n
  <2>1. order \in Surjection(N, X)
    BY <1>5
  <2> HIDE DEF N
  <2>2. \A a \in X : \E i \in N : order[i] = a
    BY <2>1, Fun_SurjectionProperties
  <2> QED
    BY <2>2 DEF N
<1>7. order \in [1..n -> Advisory]
  BY <1>2
<1>8. order \in Seq(Advisory)
  BY <1>1, <1>7, SeqDef
<1>9. Len(order) = n
  BY <1>1, <1>7, <1>8, LenProperties
<1> QED
  BY <1>6, <1>8, <1>9

\* A chunk is no longer than it may be.
LEMMA ChunkIsShort ==
  ASSUME D!MirrorAssumption, sync \in Sync
  PROVE  Cardinality(D!Chunk) \in Nat /\ Cardinality(D!Chunk) <= UPSERT_CHUNK
<1> DEFINE rest == sync.rest
           places == {k \in DOMAIN rest : k <= UPSERT_CHUNK}
           f == [k \in places |-> rest[k]]
<1>1. rest \in Seq(Advisory) /\ UPSERT_CHUNK \in Nat /\ Len(rest) \in Nat /\ DOMAIN rest = 1..Len(rest)
  BY LenProperties DEF Sync, D!MirrorAssumption
<1>2. D!Chunk = {rest[i] : i \in places}
  BY DEF D!Chunk
<1>3. places \in SUBSET (1..UPSERT_CHUNK)
  BY <1>1
<1>4. IsFiniteSet(1..UPSERT_CHUNK) /\ Cardinality(1..UPSERT_CHUNK) = UPSERT_CHUNK
  BY <1>1, FS_Interval
<1> HIDE DEF places
<1>5. IsFiniteSet(places) /\ Cardinality(places) <= UPSERT_CHUNK /\ Cardinality(places) \in Nat
  BY <1>3, <1>4, FS_Subset, FS_CardinalityType
<1>6. f \in [places -> D!Chunk] /\ \A x \in D!Chunk : \E i \in places : f[i] = x
  BY <1>2
<1>7. f \in Surjection(places, D!Chunk)
  BY <1>6, Fun_IsSurj
<1> HIDE DEF f
<1>8. IsFiniteSet(D!Chunk) /\ Cardinality(D!Chunk) <= Cardinality(places)
  BY <1>5, <1>7, FS_Surjection
<1>9. Cardinality(D!Chunk) \in Nat
  BY <1>8, FS_CardinalityType
<1> QED
  BY <1>1, <1>5, <1>8, <1>9

LEMMA NothingSynced ==
  /\ D!Absent \in D!Text /\ D!Nothing \in Archive /\ \A a \in Advisory : D!Nothing[a].affected = {}
  /\ D!NoSync \in Sync /\ D!NoSync.archive = D!Nothing /\ D!NoSync.done = {}
<1>1. D!Absent \in D!Text /\ D!Absent.affected = {}
  BY DEF D!Absent, D!Text
<1>2. D!Nothing \in Archive /\ \A a \in Advisory : D!Nothing[a].affected = {}
  BY <1>1 DEF D!Nothing, Archive
<1>3. <<>> \in Seq(Advisory) /\ {} \in SUBSET D!Ecosystem /\ 0 \in Nat
  OBVIOUS
<1>4. D!NoSync \in Sync /\ D!NoSync.archive = D!Nothing /\ D!NoSync.done = {}
  BY <1>2, <1>3 DEF D!NoSync, Sync
<1> QED
  BY <1>1, <1>2, <1>4

\* The job is at its next ecosystem, or over: there is no archive.
LEMMA NoArchive ==
  ASSUME MirrorInv, UNCHANGED osv, NEW n \in Nat, NEW done \in SUBSET D!Ecosystem,
         \/ sync' = [D!NoSync EXCEPT !.at = n, !.done = done]
         \/ sync' = [D!NoSync EXCEPT !.at = n]
         \/ sync' = D!NoSync
  PROVE  MirrorInv'
<1>1. \A k \in Sync : /\ [k EXCEPT !.at = n, !.done = done] \in Sync
                     /\ [k EXCEPT !.at = n, !.done = done].archive = k.archive
                     /\ [k EXCEPT !.at = n] \in Sync /\ [k EXCEPT !.at = n].archive = k.archive
  BY DEF Sync
<1>2. sync' \in Sync /\ sync'.archive = D!Nothing
  BY <1>1, NothingSynced
<1> QED
  BY <1>2, NothingSynced DEF MirrorInv, Read

LEMMA DownloadStep ==
  ASSUME D!MirrorAssumption, MirrorInv, D!_download
  PROVE  MirrorInv'
<1> DEFINE carried == {a \in Advisory : D!Carries(D!Current, osv[a])}
           all == [a \in Advisory |-> IF a \in carried THEN osv[a] ELSE D!Absent]
<1>1. PICK order \in D!Orders(carried) : sync' = [sync EXCEPT !.archive = all, !.rest = order]
  BY DEF D!_download
<1>2. osv \in Archive /\ sync \in Sync /\ UNCHANGED <<osv, records, index>>
  BY DEF MirrorInv, D!_download
<1>3. all \in Archive /\ \A a \in Advisory : a \notin carried => all[a].affected = {}
  BY <1>2, NothingSynced DEF Archive, D!Absent
<1>4. IsFiniteSet(carried) /\ carried \in SUBSET Advisory
  BY FS_Subset, MirrorCountsAlike DEF D!MirrorAssumption
<1> HIDE DEF carried, all
<1>5. order \in Seq(Advisory) /\ \A a \in carried : \E i \in 1..Len(order) : order[i] = a
  BY <1>4, OrdersHaveAll
<1>6. sync' \in Sync /\ sync'.archive = all /\ sync'.rest = order
  BY <1>1, <1>2, <1>3, <1>5 DEF Sync
<1>7. \A a \in Advisory : Read(a, sync', records', index')
  BY <1>3, <1>5, <1>6 DEF Read
<1> QED
  BY <1>2, <1>6, <1>7 DEF MirrorInv

\* What is stored is as the archive has it, what is not is still to be read.
LEMMA FlushStep ==
  ASSUME D!MirrorAssumption, MirrorInv, D!_flush
  PROVE  MirrorInv'
<1> DEFINE rest == sync.rest
           c == Cardinality(D!Chunk)
           left == SubSeq(rest, c + 1, Len(rest))
<1>1. /\ osv \in Archive /\ sync \in Sync /\ UNCHANGED osv /\ sync.archive \in Archive
      /\ rest \in Seq(Advisory) /\ Len(rest) \in Nat /\ DOMAIN rest = 1..Len(rest)
      /\ UPSERT_CHUNK \in Nat /\ sync.stored \in Nat
  BY LenProperties DEF MirrorInv, Sync, D!_flush, D!MirrorAssumption
<1>2. /\ sync' = [sync EXCEPT !.rest = left, !.stored = @ + c]
      /\ records' = [a \in Advisory |-> IF a \in D!Chunk THEN sync.archive[a] ELSE records[a]]
      /\ index' = {x \in index : x[1] \notin D!Chunk}
                    \cup {x \in D!Chunk \X Package : x[2] \in sync.archive[x[1]].affected}
  BY MirrorCountsAlike DEF D!_flush, D!upsert_vulnerabilities, D!Reindexed
<1>3. c \in Nat /\ c <= UPSERT_CHUNK
  BY <1>1, ChunkIsShort
<1>4. \A i \in 1..Len(rest) : i <= UPSERT_CHUNK => rest[i] \in D!Chunk
  BY <1>1 DEF D!Chunk
<1>5. \A x \in D!Chunk : x \in Advisory
  <2>1. \A i \in 1..Len(rest) : rest[i] \in Advisory
    BY <1>1, ElementOfSeq
  <2> QED
    BY <1>1, <2>1 DEF D!Chunk
<1> HIDE DEF c
<1>6. /\ left \in Seq(Advisory) /\ Len(left) = (IF c + 1 <= Len(rest) THEN Len(rest) - (c + 1) + 1 ELSE 0)
      /\ \A i \in 1..(Len(rest) - (c + 1) + 1) : left[i] = rest[(c + 1) + i - 1]
  <2>1. \A i \in (c + 1)..Len(rest) : rest[i] \in Advisory
    BY <1>1, <1>3, ElementOfSeq
  <2>2. c + 1 \in Int /\ Len(rest) \in Int
    BY <1>1, <1>3
  <2> HIDE DEF rest
  <2> QED
    BY <2>1, <2>2, SubSeqProperties
<1>7. \A i \in 1..Len(rest) : i > UPSERT_CHUNK => \E k \in 1..Len(left) : left[k] = rest[i]
  <2> SUFFICES ASSUME NEW i \in 1..Len(rest), i > UPSERT_CHUNK
               PROVE  \E k \in 1..Len(left) : left[k] = rest[i]
    OBVIOUS
  <2> HIDE DEF rest, left
  <2>1. i - c \in 1..(Len(rest) - (c + 1) + 1) /\ (c + 1) + (i - c) - 1 = i /\ c + 1 <= Len(rest)
    BY <1>1, <1>3
  <2>2. left[i - c] = rest[i] /\ i - c \in 1..Len(left)
    BY <1>6, <2>1
  <2> QED
    BY <2>2
<1>8. sync' \in Sync /\ sync'.archive = sync.archive /\ sync'.rest = left
  <2> DEFINE n == sync.stored + c
  <2>1. n \in Nat
    BY <1>1, <1>3
  <2>2. sync' = [sync EXCEPT !.rest = left, !.stored = n]
    BY <1>1, <1>2 DEF Sync
  <2>3. left \in Seq(Advisory) /\ sync \in Sync
    BY <1>1, <1>6
  <2> HIDE DEF n, left
  <2> QED
    BY <2>1, <2>2, <2>3 DEF Sync
<1>9. ASSUME NEW a \in Advisory
      PROVE  Read(a, sync', records', index')
  <2>1. CASE a \in D!Chunk
    <3>1. records'[a] = sync.archive[a]
      BY <1>2, <2>1
    <3>2. \A p \in Package : <<a, p>> \in index' <=> p \in sync.archive[a].affected
      BY <1>2, <2>1
    <3> QED
      BY <1>8, <3>1, <3>2 DEF Read
  <2>2. CASE a \notin D!Chunk
    <3>1. records'[a] = records[a]
      BY <1>2, <2>2
    <3>2. \A p \in Package : <<a, p>> \in index' <=> <<a, p>> \in index
      BY <1>2, <2>2
    <3>3. Read(a, sync, records, index)
      BY DEF MirrorInv
    <3>4. (\E i \in 1..Len(rest) : rest[i] = a) => \E k \in 1..Len(left) : left[k] = a
      <4> SUFFICES ASSUME NEW i \in 1..Len(rest), rest[i] = a
                   PROVE  \E k \in 1..Len(left) : left[k] = a
        OBVIOUS
      <4>1. ~(i <= UPSERT_CHUNK)
        BY <1>4, <2>2
      <4>2. i > UPSERT_CHUNK
        BY <1>1, <4>1
      <4> HIDE DEF rest, left
      <4> QED
        BY <1>7, <4>2
    <3> QED
      BY <1>8, <3>1, <3>2, <3>3, <3>4 DEF Read
  <2> QED
    BY <2>1, <2>2
<1> QED
  BY <1>1, <1>8, <1>9 DEF MirrorInv

LEMMA MirrorStep ==
  ASSUME D!MirrorAssumption, MirrorInv, [D!Next]_(D!vars)
  PROVE  MirrorInv'
<1>1. osv \in Archive /\ sync \in Sync /\ sync.at \in Nat /\ sync.done \in SUBSET D!Ecosystem
  BY DEF MirrorInv, Sync
<1>4. CASE UNCHANGED D!vars
  BY <1>4 DEF MirrorInv, D!vars
<1>5. ASSUME NEW a \in Advisory, D!Revise(a)
      PROVE  MirrorInv'
  <2>1. PICK text \in D!Text : osv' = [osv EXCEPT ![a] = text]
    BY <1>5 DEF D!Revise
  <2>2. osv' \in Archive /\ UNCHANGED <<records, index, sync>>
    BY <1>1, <1>5, <2>1 DEF Archive, D!Revise
  <2> QED
    BY <2>2 DEF MirrorInv
<1>6. CASE D!BeginSync
  <2>1. sync' = [D!NoSync EXCEPT !.at = 1] /\ UNCHANGED osv
    BY <1>6 DEF D!BeginSync
  <2> QED
    BY <1>1, <2>1, NoArchive
<1>7. CASE D!SyncFails
  <2>1. sync' = [D!NoSync EXCEPT !.at = sync.at + 1, !.done = sync.done] /\ UNCHANGED osv
    BY <1>7 DEF D!SyncFails, D!Onward
  <2>2. sync.at + 1 \in Nat
    BY <1>1
  <2> QED
    BY <1>1, <2>1, <2>2, NoArchive
<1>8. CASE D!Success
  <2>1. D!Current \in D!Ecosystem
    BY <1>8 DEF D!Success, D!Downloaded, D!Syncing, D!Current, D!Ecosystem
  <2>2. sync.done \cup {D!Current} \in SUBSET D!Ecosystem /\ sync.at + 1 \in Nat
    BY <1>1, <2>1
  <2>3. UNCHANGED osv /\ sync' = [D!NoSync EXCEPT !.at = sync.at + 1, !.done = sync.done \cup {D!Current}]
    BY <1>8 DEF D!Success, D!Onward
  <2> QED
    BY <2>2, <2>3, NoArchive
<1>9. CASE D!EndSync \/ D!Kill
  BY <1>1, <1>9, NoArchive DEF D!EndSync, D!Kill
<1> QED
  BY <1>4, <1>5, <1>6, <1>7, <1>8, <1>9, DownloadStep, FlushStep DEF D!Next

\* However many advisories and ecosystems, and however the export is chunked.
THEOREM NothingIsHiddenBySyncs ==
  ASSUME D!MirrorAssumption
  PROVE  D!Spec => SyncsHideNothing
<1>1. D!Init => MirrorInv
  <2> SUFFICES ASSUME D!Init PROVE MirrorInv
    OBVIOUS
  <2>1. osv \in Archive
    BY DEF D!Init, Archive
  <2>2. <<>> \in Seq(Advisory)
    OBVIOUS
  <2>3. sync \in Sync /\ sync.archive = D!Nothing
    BY <2>2, NothingSynced DEF D!Init, D!NoSync, Sync
  <2> QED
    BY <2>1, <2>3, NothingSynced DEF MirrorInv, Read
<1>2. MirrorInv /\ [D!Next]_(D!vars) => MirrorInv'
  BY MirrorStep
<1>3. MirrorInv /\ [D!Next]_(D!vars) =>
        [\A p \in Package : \A a \in D!find_local_vulnerabilities(p) :
           a \in D!find_local_vulnerabilities(p)'
             \/ sync.archive[a].withdrawn \/ p \notin sync.archive[a].affected]_(D!vars)
  <2> SUFFICES ASSUME D!Next, NEW p \in Package, NEW a \in D!find_local_vulnerabilities(p),
                      ~sync.archive[a].withdrawn, p \in sync.archive[a].affected
               PROVE  a \in D!find_local_vulnerabilities(p)'
    OBVIOUS
  <2>1. a \in Advisory /\ <<a, p>> \in index /\ ~records[a].withdrawn
    BY DEF D!find_local_vulnerabilities
  <2>2. CASE UNCHANGED <<records, index>>
    BY <2>1, <2>2 DEF D!find_local_vulnerabilities
  <2>3. CASE D!_flush
    <3>1. /\ records' = [b \in Advisory |-> IF b \in D!Chunk THEN sync.archive[b] ELSE records[b]]
          /\ index' = {x \in index : x[1] \notin D!Chunk}
                        \cup {x \in D!Chunk \X Package : x[2] \in sync.archive[x[1]].affected}
      BY <2>3 DEF D!_flush, D!upsert_vulnerabilities, D!Reindexed
    <3>2. ~records'[a].withdrawn
      BY <2>1, <3>1
    <3>3. <<a, p>> \in index'
      BY <2>1, <3>1
    <3> QED
      BY <2>1, <3>2, <3>3 DEF D!find_local_vulnerabilities
  <2> QED
    BY <2>2, <2>3 DEF D!Next, D!Revise, D!BeginSync, D!_download, D!SyncFails, D!Success, D!EndSync, D!Kill
<1>4. MirrorInv /\ [D!Next]_(D!vars) =>
        [\A e \in sync'.done \ sync.done : \A a \in Advisory : \A p \in sync.archive[a].affected :
           (a \in D!find_local_vulnerabilities(p)') = ~sync.archive[a].withdrawn]_(D!vars)
  <2> SUFFICES ASSUME MirrorInv, D!Next, NEW e \in sync'.done \ sync.done, NEW a \in Advisory,
                      NEW p \in sync.archive[a].affected
               PROVE  (a \in D!find_local_vulnerabilities(p)') = ~sync.archive[a].withdrawn
    OBVIOUS
  <2>1. sync \in Sync /\ sync.archive[a] \in D!Text
    BY DEF MirrorInv, Sync, Archive
  <2>2. D!NoSync.done = {}
    BY DEF D!NoSync
  <2>3. CASE D!Success
    <3>1. /\ UNCHANGED <<records, index>> /\ sync.rest = <<>> /\ p \in Package
          /\ sync.archive[a].withdrawn \in BOOLEAN
      BY <2>1, <2>3 DEF D!Success, D!StoredAll, D!Text
    <3>2. Read(a, sync, records, index) /\ Len(sync.rest) = 0
      BY <3>1 DEF MirrorInv
    <3>3. records[a] = sync.archive[a] /\ <<a, p>> \in index
      BY <3>1, <3>2 DEF Read
    <3>4. a \in D!find_local_vulnerabilities(p)' <=> ~sync.archive[a].withdrawn
      BY <3>1, <3>3 DEF D!find_local_vulnerabilities
    <3> QED
      BY <3>4
  <2>4. ASSUME D!BeginSync \/ D!EndSync \/ D!Kill
        PROVE  FALSE
    BY <2>2, <2>4 DEF D!BeginSync, D!EndSync, D!Kill, D!NoSync
  <2>5. ASSUME D!SyncFails \/ D!_download \/ D!_flush \/ \E b \in Advisory : D!Revise(b)
        PROVE  FALSE
    <3>1. CASE D!SyncFails
      BY <3>1 DEF D!SyncFails, D!Onward, D!NoSync
    <3>2. CASE D!_download
      <4>1. PICK x, y : sync' = [sync EXCEPT !.archive = x, !.rest = y]
        BY <3>2 DEF D!_download
      <4>2. sync'.done = sync.done
        BY <2>1, <4>1 DEF Sync
      <4> QED
        BY <4>2
    <3>3. CASE D!_flush
      <4>1. PICK x, y : sync' = [sync EXCEPT !.rest = x, !.stored = y]
        BY <3>3 DEF D!_flush
      <4>2. sync'.done = sync.done
        BY <2>1, <4>1 DEF Sync
      <4> QED
        BY <4>2
    <3>4. CASE \E b \in Advisory : D!Revise(b)
      BY <3>4 DEF D!Revise
    <3> QED
      BY <2>5, <3>1, <3>2, <3>3, <3>4
  <2> QED
    BY <2>3, <2>4, <2>5 DEF D!Next
<1> QED
  BY <1>1, <1>2, <1>3, <1>4, PTL DEF D!Spec, SyncsHideNothing, D!NeverEmptier, D!SyncedMeansSearchable

-----------------------------------------------------------------------------
(***************************************************************************)
(* FeedSchedule.  A turn of the refresh that is lost to the sync is not    *)
(* followed by another one: the two are as many hours apart from then on   *)
(* as the sync's interval is longer.                                       *)
(***************************************************************************)

Turn == kev_refresh_hours
SyncTurn == mirror_refresh_hours
Multiples == {n \in Nat : n % Step = 0}
Stage == {"kev", "epss", "epss_kev_stored", "osv"}
Runs(w, s) == [worker |-> w, job |-> IF s = "osv" THEN "sync_mirror" ELSE "refresh_feeds", stage |-> s]
StageOf(jobs) == IF jobs = {} THEN "nothing" ELSE (CHOOSE r \in jobs : TRUE).stage
Doing == StageOf(running)
ToRefresh(w) == wait[w]["refresh_feeds"]
ToSync(w) == wait[w]["sync_mirror"]

\* One scheduler, which syncs less often than it refreshes, and a catalogue
\* that may miss two turns.
OneScheduler(w) ==
  /\ Scheduler = {w}
  /\ kev_refresh_hours > 0 /\ kev_refresh_hours < mirror_refresh_hours
  /\ 3 * kev_refresh_hours <= KevStaleAfter

TurnsInv(w) ==
  /\ up \in {{}, {w}} /\ (up = {} => excuse = F!Feed /\ running = {})
  /\ \/ running = {}
     \/ \E s \in Stage : running = {Runs(w, s)}
  /\ wait \in [{w} -> [F!Job -> Multiples]]
  /\ ToRefresh(w) <= Turn /\ (Doing \in Stage \ {"osv"} => ToRefresh(w) = Turn)
  /\ ToSync(w) <= SyncTurn /\ (Doing = "osv" => ToSync(w) = SyncTurn)
  /\ age \in [F!Feed -> Nat] /\ excuse \subseteq F!Feed
  /\ lost \in Nat /\ lost <= F!Patience

KevInv(w) ==
  \/ "kev" \in excuse
  \/ Doing \in {"kev", "epss_kev_stored"} /\ age["kev"] <= 3 * Turn
  \/ Doing \notin {"kev", "epss_kev_stored"} /\ age["kev"] + ToRefresh(w) <= 2 * Turn
  \/ /\ Doing \in {"nothing", "osv"}
     /\ age["kev"] + ToRefresh(w) <= 3 * Turn
     /\ ToSync(w) + Turn = ToRefresh(w) + SyncTurn

MirrorAge(w) ==
  \/ "mirror" \in excuse
  \/ lost = F!Patience
  \/ age["mirror"] + (IF Doing = "osv" THEN 0 ELSE ToSync(w)) <= (lost + 1) * SyncTurn

FeedsInv(w) == TurnsInv(w) /\ KevInv(w) /\ MirrorAge(w)

LEMMA Waiting ==
  ASSUME NEW n \in Multiples, n # 0, Step \in Nat \ {0}
  PROVE  n - Step \in Multiples
<1>1. n \in Nat /\ n % Step = 0 /\ n >= Step
  BY DEF Multiples
<1>2. PICK k \in Nat : n = k * Step
  BY <1>1, Z3
<1>3. (n - Step) % Step = 0
  BY <1>1, <1>2, Z3
<1> QED
  BY <1>1, <1>3 DEF Multiples

LEMMA PatienceLasts ==
  ASSUME F!FeedScheduleAssumption, mirror_refresh_hours > 0
  PROVE  /\ F!Patience \in Nat
         /\ \A n \in Nat : n < F!Patience => (n + 1) * SyncTurn <= mirror_stale_after_hours
<1> DEFINE s == mirror_stale_after_hours
           m == mirror_refresh_hours
           q == s \div m
<1>1. s \in Nat /\ m \in Nat /\ m > 0
  BY DEF F!FeedScheduleAssumption
<1> HIDE DEF s, m
<1>2. q \in Nat /\ q * m <= s
  BY <1>1, Z3
<1> HIDE DEF q
<1>3. \A n \in Nat : n < q => (n + 1) * m <= q * m
  BY <1>1, <1>2, Z3
<1>4. \A n \in Nat : n < q => (n + 1) * m <= s
  <2> SUFFICES ASSUME NEW n \in Nat, n < q PROVE (n + 1) * m <= s
    OBVIOUS
  <2>1. (n + 1) * m <= q * m
    BY <1>3
  <2>2. (n + 1) * m \in Nat /\ q * m \in Nat
    BY <1>1, <1>2
  <2> QED
    BY <1>1, <1>2, <2>1, <2>2
<1> QED
  BY <1>2, <1>4 DEF F!Patience, SyncTurn, s, m, q

\* What the scheduler is at.
LEMMA Stages ==
  ASSUME NEW w, NEW jobs
  PROVE  /\ \A s : Runs(w, s).stage = s /\ Runs(w, s).worker = w
         /\ jobs = {} => StageOf(jobs) = "nothing"
         /\ \A s : jobs = {Runs(w, s)} => StageOf(jobs) = s
<1>1. \A s : Runs(w, s).stage = s /\ Runs(w, s).worker = w
  BY DEF Runs
<1>2. \A s : jobs = {Runs(w, s)} => jobs # {} /\ (CHOOSE r \in jobs : TRUE) = Runs(w, s)
  OBVIOUS
<1> QED
  BY <1>1, <1>2 DEF StageOf

LEMMA FeedsStart ==
  ASSUME F!FeedScheduleAssumption, NEW w, OneScheduler(w), F!Init
  PROVE  FeedsInv(w)
<1>1. up = {w} /\ running = {Runs(w, "kev")}
  BY DEF F!Init, OneScheduler, Runs
<1>2. /\ wait = [v \in {w} |-> [job \in F!Job |-> F!Interval(job)]]
      /\ wait[w] = [job \in F!Job |-> F!Interval(job)]
  BY DEF F!Init, OneScheduler
<1>3. ToRefresh(w) = Turn /\ ToSync(w) = SyncTurn
  BY <1>2 DEF ToRefresh, ToSync, Turn, SyncTurn, F!Job, F!Interval
<1>4. Turn \in Multiples /\ SyncTurn \in Multiples /\ Turn \in Nat /\ SyncTurn \in Nat
  BY DEF F!FeedScheduleAssumption, Turn, SyncTurn, Multiples
<1>5. wait \in [{w} -> [F!Job -> Multiples]]
  BY <1>2, <1>4 DEF F!Job, F!Interval, Turn, SyncTurn
<1>6. /\ age \in [F!Feed -> Nat] /\ age["kev"] = 0 /\ age["mirror"] = 0
      /\ excuse \subseteq F!Feed /\ lost = 0
  BY DEF F!Init, F!Feed
<1>7. F!Patience \in Nat
  <2>1. kev_refresh_hours \in Nat /\ mirror_refresh_hours \in Nat
    BY DEF F!FeedScheduleAssumption
  <2>2. mirror_refresh_hours > 0
    BY <2>1 DEF OneScheduler
  <2> QED
    BY <2>2, PatienceLasts
<1>8. Doing = "kev"
  BY <1>1, Stages DEF Doing
<1>9. TurnsInv(w)
  <2>1. \E s \in Stage : running = {Runs(w, s)}
    BY <1>1 DEF Stage
  <2> QED
    BY <1>1, <1>3, <1>4, <1>5, <1>6, <1>7, <1>8, <2>1 DEF TurnsInv
<1>10. KevInv(w)
  BY <1>4, <1>6, <1>8 DEF KevInv
<1>11. MirrorAge(w)
  BY <1>3, <1>4, <1>6, <1>8 DEF MirrorAge
<1> QED
  BY <1>9, <1>10, <1>11 DEF FeedsInv

\* What the assumptions say of the intervals.
LEMMA TurnsAre ==
  ASSUME F!FeedScheduleAssumption, NEW w, OneScheduler(w)
  PROVE  /\ Turn \in Multiples /\ SyncTurn \in Multiples
         /\ Turn \in Nat /\ SyncTurn \in Nat /\ 0 < Turn /\ Turn < SyncTurn
         /\ F!Patience \in Nat /\ Step \in Nat \ {0}
         /\ F!Interval("refresh_feeds") = Turn /\ F!Interval("sync_mirror") = SyncTurn
<1>1. kev_refresh_hours \in Nat /\ mirror_refresh_hours \in Nat /\ Step \in Nat \ {0}
      /\ kev_refresh_hours % Step = 0 /\ mirror_refresh_hours % Step = 0
  BY DEF F!FeedScheduleAssumption
<1>2. mirror_refresh_hours > 0
  BY <1>1 DEF OneScheduler
<1> QED
  BY <1>1, <1>2, PatienceLasts DEF OneScheduler, Turn, SyncTurn, Multiples, F!Interval

\* The hours left, read from the table of both.
LEMMA HoursLeft ==
  ASSUME NEW w, wait \in [{w} -> [F!Job -> Multiples]]
  PROVE  ToRefresh(w) \in Multiples /\ ToSync(w) \in Multiples
         /\ ToRefresh(w) \in Nat /\ ToSync(w) \in Nat
BY DEF ToRefresh, ToSync, F!Job, Multiples

LEMMA RefreshTurn ==
  ASSUME F!FeedScheduleAssumption, NEW w, OneScheduler(w), FeedsInv(w), F!Fire(w, "refresh_feeds")
  PROVE  FeedsInv(w)'
<1>1. wait[w]["refresh_feeds"] = 0 /\ w \in up /\ lost' = lost
      /\ wait' = [wait EXCEPT ![w]["refresh_feeds"] = Turn]
      /\ up' = up /\ age' = age /\ excuse' = excuse
  BY TurnsAre DEF F!Fire
<1>2. /\ running = {} => running' = {Runs(w, "kev")}
      /\ running # {} => running' = running
  BY DEF F!Fire, F!Begin, Runs
<1> DEFINE r == ToRefresh(w)
           s == ToSync(w)
<1>3. r \in Nat /\ s \in Nat /\ r = 0
      /\ ToRefresh(w)' = Turn /\ ToSync(w)' = s
      /\ wait' \in [{w} -> [F!Job -> Multiples]]
  <2>1. wait \in [{w} -> [F!Job -> Multiples]]
    BY DEF FeedsInv, TurnsInv
  <2>2. wait' \in [{w} -> [F!Job -> Multiples]] /\ wait'[w]["refresh_feeds"] = Turn
        /\ wait'[w]["sync_mirror"] = wait[w]["sync_mirror"]
    BY <1>1, <2>1, TurnsAre DEF F!Job
  <2> QED
    BY <1>1, <2>1, <2>2, HoursLeft DEF ToRefresh, ToSync
<1>4. Turn \in Nat /\ SyncTurn \in Nat /\ 0 < Turn /\ Turn < SyncTurn
  BY TurnsAre
<1>5. CASE running = {}
  <2>1. Doing = "nothing" /\ Doing' = "kev"
    BY <1>2, <1>5, Stages DEF Doing
  <2>2. TurnsInv(w)'
    <3>1. \E st \in Stage : running' = {Runs(w, st)}
      BY <1>2, <1>5 DEF Stage
    <3> QED
      BY <1>1, <1>3, <1>4, <2>1, <3>1 DEF FeedsInv, TurnsInv
  <2>3. age["kev"] \in Nat
    BY DEF FeedsInv, TurnsInv, F!Feed
  <2>4. KevInv(w)'
    BY <1>1, <1>3, <1>4, <2>1, <2>3 DEF FeedsInv, KevInv
  <2>5. MirrorAge(w)'
    BY <1>1, <1>3, <2>1 DEF FeedsInv, MirrorAge
  <2> QED
    BY <2>2, <2>4, <2>5 DEF FeedsInv
<1>6. CASE running # {}
  <2>1. PICK st \in Stage : running = {Runs(w, st)}
    BY <1>6 DEF FeedsInv, TurnsInv
  <2>2. Doing = st /\ Doing' = st
    BY <1>2, <1>6, <2>1, Stages DEF Doing
  <2>3. st = "osv"
    BY <1>3, <1>4, <2>2 DEF FeedsInv, TurnsInv
  <2>4. TurnsInv(w)'
    <3>1. \E x \in Stage : running' = {Runs(w, x)}
      BY <1>2, <1>6, <2>1
    <3> QED
      BY <1>1, <1>3, <1>4, <2>2, <2>3, <3>1 DEF FeedsInv, TurnsInv
  <2>5. age["kev"] \in Nat /\ s = SyncTurn
    BY <2>2, <2>3 DEF FeedsInv, TurnsInv, F!Feed
  <2>6. KevInv(w)'
    BY <1>1, <1>3, <1>4, <2>2, <2>3, <2>5 DEF FeedsInv, KevInv
  <2>7. MirrorAge(w)'
    BY <1>1, <1>3, <2>2 DEF FeedsInv, MirrorAge
  <2> QED
    BY <2>4, <2>6, <2>7 DEF FeedsInv
<1> QED
  BY <1>5, <1>6

LEMMA SyncsTurn ==
  ASSUME F!FeedScheduleAssumption, NEW w, OneScheduler(w), FeedsInv(w), F!Fire(w, "sync_mirror")
  PROVE  FeedsInv(w)'
<1>1. /\ wait[w]["sync_mirror"] = 0 /\ w \in up
      /\ lost' = IF running # {} /\ lost < F!Patience THEN lost + 1 ELSE lost
      /\ wait' = [wait EXCEPT ![w]["sync_mirror"] = SyncTurn]
      /\ up' = up /\ age' = age /\ excuse' = excuse
  BY TurnsAre DEF F!Fire
<1>2. /\ running = {} => running' = {Runs(w, "osv")}
      /\ running # {} => running' = running
  BY DEF F!Fire, F!Begin, Runs
<1> DEFINE r == ToRefresh(w)
           s == ToSync(w)
<1>3. r \in Nat /\ s \in Nat /\ s = 0
      /\ ToSync(w)' = SyncTurn /\ ToRefresh(w)' = r
      /\ wait' \in [{w} -> [F!Job -> Multiples]]
  <2>1. wait \in [{w} -> [F!Job -> Multiples]]
    BY DEF FeedsInv, TurnsInv
  <2>2. wait' \in [{w} -> [F!Job -> Multiples]] /\ wait'[w]["sync_mirror"] = SyncTurn
        /\ wait'[w]["refresh_feeds"] = wait[w]["refresh_feeds"]
    BY <1>1, <2>1, TurnsAre DEF F!Job
  <2> QED
    BY <1>1, <2>1, <2>2, HoursLeft DEF ToRefresh, ToSync
<1>4. /\ Turn \in Nat /\ SyncTurn \in Nat /\ 0 < Turn /\ Turn < SyncTurn
      /\ F!Patience \in Nat
  BY TurnsAre
<1>5. lost \in Nat /\ lost <= F!Patience /\ r <= Turn
      /\ age["kev"] \in Nat /\ age["mirror"] \in Nat
  BY DEF FeedsInv, TurnsInv, F!Feed
<1>6. ASSUME running = {} PROVE FeedsInv(w)'
  <2>1. Doing = "nothing" /\ Doing' = "osv" /\ lost' = lost
    BY <1>1, <1>2, <1>6, Stages DEF Doing
  <2>2. TurnsInv(w)'
    <3>1. \E st \in Stage : running' = {Runs(w, st)}
      BY <1>2, <1>6 DEF Stage
    <3> QED
      BY <1>1, <1>3, <1>4, <1>5, <2>1, <3>1 DEF FeedsInv, TurnsInv
  <2>3. KevInv(w)'
    BY <1>1, <1>3, <1>4, <1>5, <2>1 DEF FeedsInv, KevInv
  <2>4. MirrorAge(w)'
    <3>1. \/ "mirror" \in excuse
          \/ lost = F!Patience
          \/ age["mirror"] + s <= (lost + 1) * SyncTurn
      BY <2>1 DEF FeedsInv, MirrorAge
    <3> QED
      BY <1>1, <1>3, <1>5, <2>1, <3>1 DEF MirrorAge
  <2> QED
    BY <2>2, <2>3, <2>4 DEF FeedsInv
<1>7. ASSUME running # {} PROVE FeedsInv(w)'
  <2>1. PICK st \in Stage : running = {Runs(w, st)}
    BY <1>7 DEF FeedsInv, TurnsInv
  <2>2. Doing = st /\ Doing' = st
    BY <1>2, <1>7, <2>1, Stages DEF Doing
  <2>3. st # "osv" /\ r = Turn
    BY <1>3, <1>4, <2>2 DEF FeedsInv, TurnsInv
  <2>4. TurnsInv(w)'
    <3>1. \E x \in Stage : running' = {Runs(w, x)}
      BY <1>2, <1>7, <2>1
    <3>2. lost' \in Nat /\ lost' <= F!Patience
      BY <1>1, <1>4, <1>5
    <3> QED
      BY <1>1, <1>3, <1>4, <2>2, <2>3, <3>1, <3>2 DEF FeedsInv, TurnsInv
  <2>5. KevInv(w)'
    <3>1. st # "nothing"
      BY DEF Stage
    <3> QED
      BY <1>1, <2>2, <2>3, <3>1, <1>3 DEF FeedsInv, KevInv
  <2>6. MirrorAge(w)'
    <3>1. \/ "mirror" \in excuse
          \/ lost = F!Patience
          \/ age["mirror"] + 0 <= (lost + 1) * SyncTurn
      BY <1>3, <2>2, <2>3 DEF FeedsInv, MirrorAge
    <3>2. (lost + 1) * SyncTurn + SyncTurn = ((lost + 1) + 1) * SyncTurn
          /\ (lost + 1) * SyncTurn \in Nat
      BY <1>4, <1>5, Z3
    <3>3. CASE "mirror" \in excuse
      BY <1>1, <3>3 DEF MirrorAge
    <3>4. CASE lost = F!Patience
      BY <1>1, <1>4, <3>4 DEF MirrorAge
    <3>5. CASE lost # F!Patience /\ age["mirror"] + 0 <= (lost + 1) * SyncTurn
      <4>1. lost' = lost + 1
        BY <1>1, <1>4, <1>5, <1>7, <3>5
      <4>2. age["mirror"] + SyncTurn <= ((lost + 1) + 1) * SyncTurn
        BY <1>4, <1>5, <3>2, <3>5
      <4>3. age'["mirror"] + SyncTurn <= (lost' + 1) * SyncTurn
        BY <1>1, <4>1, <4>2
      <4> QED
        BY <1>3, <2>2, <2>3, <4>3 DEF MirrorAge
    <3> QED
      BY <3>1, <3>3, <3>4, <3>5
  <2> QED
    BY <2>4, <2>5, <2>6 DEF FeedsInv
<1> QED
  BY <1>6, <1>7

LEMMA SchedulerStarts ==
  ASSUME F!FeedScheduleAssumption, NEW w, OneScheduler(w), FeedsInv(w), F!Start(w)
  PROVE  FeedsInv(w)'
<1>1. up = {} /\ running = {} /\ excuse = F!Feed
  BY DEF FeedsInv, TurnsInv, F!Start
<1>2. /\ up' = {w} /\ age' = age /\ excuse' = excuse /\ lost' = lost
      /\ running' = {Runs(w, "kev")}
      /\ wait' = [wait EXCEPT ![w] = [job \in F!Job |-> F!Interval(job)]]
  BY <1>1 DEF F!Start, F!Begin, Runs
<1>3. /\ wait' \in [{w} -> [F!Job -> Multiples]]
      /\ ToRefresh(w)' = Turn /\ ToSync(w)' = SyncTurn
  <2>1. wait \in [{w} -> [F!Job -> Multiples]]
    BY DEF FeedsInv, TurnsInv
  <2>2. [job \in F!Job |-> F!Interval(job)] \in [F!Job -> Multiples]
    BY TurnsAre DEF F!Job
  <2>3. wait' \in [{w} -> [F!Job -> Multiples]] /\ wait'[w] = [job \in F!Job |-> F!Interval(job)]
    BY <1>2, <2>1, <2>2
  <2>4. wait'[w]["refresh_feeds"] = Turn /\ wait'[w]["sync_mirror"] = SyncTurn
    BY <2>3, TurnsAre DEF F!Job
  <2> QED
    BY <2>3, <2>4 DEF ToRefresh, ToSync
<1>4. Turn \in Nat /\ SyncTurn \in Nat
  BY TurnsAre
<1>5. Doing' = "kev" /\ \E st \in Stage : running' = {Runs(w, st)}
  BY <1>2, Stages DEF Doing, Stage
<1>6. TurnsInv(w)'
  BY <1>2, <1>3, <1>4, <1>5 DEF FeedsInv, TurnsInv
<1>7. KevInv(w)' /\ MirrorAge(w)'
  BY <1>1, <1>2 DEF KevInv, MirrorAge, F!Feed
<1> QED
  BY <1>6, <1>7 DEF FeedsInv

LEMMA SchedulerStops ==
  ASSUME NEW w, FeedsInv(w), F!Stop(w)
  PROVE  FeedsInv(w)'
<1>1. /\ up \subseteq {w} /\ up' = up \ {w}
      /\ running' = {r \in running : r.worker # w}
      /\ excuse' = F!Feed /\ wait' = wait /\ age' = age /\ lost' = lost
  BY DEF FeedsInv, TurnsInv, F!Stop
<1>2. running' = {}
  BY <1>1, Stages DEF FeedsInv, TurnsInv
<1>3. Doing' = "nothing" /\ up' = {}
  BY <1>1, <1>2, Stages DEF Doing
<1>4. ToRefresh(w)' = ToRefresh(w) /\ ToSync(w)' = ToSync(w)
  BY <1>1 DEF ToRefresh, ToSync
<1>5. TurnsInv(w)'
  BY <1>1, <1>2, <1>3, <1>4 DEF FeedsInv, TurnsInv, Stage
<1>6. KevInv(w)' /\ MirrorAge(w)'
  BY <1>1 DEF KevInv, MirrorAge, F!Feed
<1> QED
  BY <1>5, <1>6 DEF FeedsInv

\* A job goes on, and the clock and the scheduler are left alone.
LEMMA KevStep ==
  ASSUME F!FeedScheduleAssumption, NEW w, OneScheduler(w), FeedsInv(w),
         NEW r, r \in running, F!refresh_kev_catalog(r)
  PROVE  FeedsInv(w)'
<1>1. r = Runs(w, "kev") /\ running = {r}
  BY Stages DEF FeedsInv, TurnsInv, F!refresh_kev_catalog
<1>2. PICK st \in {"epss", "epss_kev_stored"} :
        /\ running' = {[r EXCEPT !.stage = st]}
        /\ \/ st = "epss_kev_stored" /\ excuse' = excuse
           \/ st = "epss" /\ ~F!KevDue /\ excuse' = excuse
           \/ st = "epss" /\ excuse' = excuse \cup {"kev"}
  BY DEF F!refresh_kev_catalog
<1>3. running' = {Runs(w, st)}
  BY <1>1, <1>2 DEF Runs
<1>4. Doing = "kev" /\ Doing' = st
  BY <1>1, <1>3, Stages DEF Doing
<1>5. up' = up /\ wait' = wait /\ age' = age /\ lost' = lost
  BY DEF F!refresh_kev_catalog
<1>6. ToRefresh(w)' = ToRefresh(w) /\ ToSync(w)' = ToSync(w) /\ ToRefresh(w) = Turn
  BY <1>4, <1>5 DEF ToRefresh, ToSync, FeedsInv, TurnsInv, Stage
<1>7. TurnsInv(w)'
  <2>1. \E x \in Stage : running' = {Runs(w, x)}
    BY <1>2, <1>3 DEF Stage
  <2>2. up # {} /\ excuse' \subseteq F!Feed
    BY <1>1, <1>2 DEF FeedsInv, TurnsInv, F!Feed
  <2> QED
    BY <1>2, <1>4, <1>5, <1>6, <2>1, <2>2 DEF FeedsInv, TurnsInv
<1>8. KevInv(w)'
  <2>1. CASE "kev" \in excuse
    BY <1>2, <2>1 DEF KevInv
  <2>2. CASE "kev" \notin excuse
    <3>1. age["kev"] <= 3 * Turn /\ age["kev"] \in Nat /\ Turn \in Nat
      BY <1>4, <2>2, TurnsAre DEF FeedsInv, KevInv, TurnsInv, F!Feed
    <3>2. CASE st = "epss_kev_stored"
      BY <1>4, <1>5, <3>1, <3>2 DEF KevInv
    <3>3. CASE st = "epss" /\ ~F!KevDue
      <4>1. age["kev"] <= Turn
        <5>1. ~(age["kev"] > Turn)
          BY <3>3 DEF F!KevDue, F!is_stale, Turn
        <5> QED
          BY <3>1, <5>1
      <4>2. age'["kev"] + ToRefresh(w)' <= 2 * Turn
        BY <1>5, <1>6, <3>1, <4>1
      <4> QED
        BY <1>4, <3>3, <4>2 DEF KevInv
    <3>4. CASE st = "epss" /\ excuse' = excuse \cup {"kev"}
      BY <3>4 DEF KevInv
    <3> QED
      BY <1>2, <3>2, <3>3, <3>4
  <2> QED
    BY <2>1, <2>2
<1>9. MirrorAge(w)'
  BY <1>2, <1>4, <1>5, <1>6 DEF FeedsInv, MirrorAge
<1> QED
  BY <1>7, <1>8, <1>9 DEF FeedsInv

LEMMA EpssStep ==
  ASSUME F!FeedScheduleAssumption, NEW w, OneScheduler(w), FeedsInv(w),
         NEW r, r \in running, F!refresh_epss_scores(r)
  PROVE  FeedsInv(w)'
<1>1. PICK st \in {"epss", "epss_kev_stored"} : r = Runs(w, st) /\ running = {r} /\ r.stage = st
  <2>1. r.stage \in {"epss", "epss_kev_stored"}
    BY DEF F!refresh_epss_scores
  <2>2. PICK x \in Stage : running = {Runs(w, x)}
    BY DEF FeedsInv, TurnsInv
  <2>3. r = Runs(w, x) /\ r.stage = x
    BY <2>2, Stages
  <2> QED
    BY <2>1, <2>2, <2>3
<1>2. running' = {} /\ up' = up /\ wait' = wait /\ lost' = lost
  BY DEF F!refresh_epss_scores
<1>3. Doing = st /\ Doing' = "nothing"
  BY <1>1, <1>2, Stages DEF Doing
<1>4. ToRefresh(w)' = ToRefresh(w) /\ ToSync(w)' = ToSync(w) /\ ToRefresh(w) = Turn
  BY <1>2, <1>3 DEF ToRefresh, ToSync, FeedsInv, TurnsInv, Stage
<1>5. age \in [F!Feed -> Nat] /\ Turn \in Nat
  BY TurnsAre DEF FeedsInv, TurnsInv
<1> DEFINE Goes ==
      /\ age' \in [F!Feed -> Nat] /\ age'["mirror"] = age["mirror"] /\ age'["kev"] \in {age["kev"], 0}
      /\ excuse' \subseteq F!Feed /\ ("mirror" \in excuse => "mirror" \in excuse')
      /\ st = "epss" => age'["kev"] = age["kev"] /\ ("kev" \in excuse => "kev" \in excuse')
      /\ st = "epss_kev_stored" => age'["kev"] = 0 \/ "kev" \in excuse'
<1>6. Goes
  <2>1. excuse \subseteq F!Feed
    BY DEF FeedsInv, TurnsInv
  <2>2. ASSUME NEW feeds, feeds \subseteq {"epss"}, F!Committed(r, feeds)
        PROVE  Goes
    <3> DEFINE fresh == feeds \cup (IF r.stage = "epss_kev_stored" THEN {"kev"} ELSE {})
    <3>1. /\ age' = [f \in F!Feed |-> IF f \in fresh THEN 0 ELSE age[f]]
          /\ excuse' = excuse \ fresh
      BY <2>2 DEF F!Committed
    <3>2. /\ "mirror" \notin fresh /\ (st = "epss" => "kev" \notin fresh)
          /\ (st = "epss_kev_stored" => "kev" \in fresh)
      BY <1>1, <2>2
    <3> HIDE DEF fresh
    <3>3. /\ age' \in [F!Feed -> Nat] /\ age'["mirror"] = age["mirror"]
          /\ age'["kev"] = IF "kev" \in fresh THEN 0 ELSE age["kev"]
      BY <1>5, <3>1, <3>2 DEF F!Feed
    <3> QED
      BY <2>1, <3>1, <3>2, <3>3
  <2>3. age' = age /\ excuse' = (IF r.stage = "epss" THEN excuse ELSE excuse \cup {"kev"}) => Goes
    BY <1>1, <1>5, <2>1 DEF F!Feed
  <2>4. \/ F!Committed(r, {})
        \/ F!Committed(r, {"epss"})
        \/ age' = age /\ excuse' = IF r.stage = "epss" THEN excuse ELSE excuse \cup {"kev"}
    BY DEF F!refresh_epss_scores
  <2> HIDE DEF Goes
  <2> QED
    BY <2>2, <2>3, <2>4, {} \subseteq {"epss"}
<1>7. TurnsInv(w)'
  <2>1. up # {}
    BY <1>1 DEF FeedsInv, TurnsInv
  <2> QED
    BY <1>2, <1>3, <1>4, <1>6, <2>1 DEF FeedsInv, TurnsInv, Stage
<1>8. KevInv(w)'
  <2>1. CASE st = "epss"
    <3>1. \/ "kev" \in excuse
          \/ age["kev"] + ToRefresh(w) <= 2 * Turn
      BY <1>3, <2>1 DEF FeedsInv, KevInv
    <3> QED
      BY <1>3, <1>4, <1>6, <2>1, <3>1 DEF KevInv
  <2>2. CASE st = "epss_kev_stored"
    <3>1. age'["kev"] = 0 \/ "kev" \in excuse'
      BY <1>6, <2>2
    <3>2. age'["kev"] = 0 => age'["kev"] + ToRefresh(w)' <= 2 * Turn
      BY <1>4, <1>5
    <3> QED
      BY <1>3, <3>1, <3>2 DEF KevInv
  <2> QED
    BY <2>1, <2>2
<1>9. MirrorAge(w)'
  BY <1>2, <1>3, <1>4, <1>6 DEF FeedsInv, MirrorAge
<1> QED
  BY <1>7, <1>8, <1>9 DEF FeedsInv

LEMMA SyncStep ==
  ASSUME F!FeedScheduleAssumption, NEW w, OneScheduler(w), FeedsInv(w),
         NEW r, r \in running, F!sync_mirror(r)
  PROVE  FeedsInv(w)'
<1>1. r = Runs(w, "osv") /\ running = {r}
  BY Stages DEF FeedsInv, TurnsInv, F!sync_mirror
<1>2. running' = {} /\ up' = up /\ wait' = wait
  BY DEF F!sync_mirror
<1>3. Doing = "osv" /\ Doing' = "nothing"
  BY <1>1, <1>2, Stages DEF Doing
<1>4. ToRefresh(w)' = ToRefresh(w) /\ ToSync(w)' = ToSync(w) /\ ToSync(w) = SyncTurn
  BY <1>2, <1>3 DEF ToRefresh, ToSync, FeedsInv, TurnsInv
<1>5. /\ age \in [F!Feed -> Nat] /\ SyncTurn \in Nat /\ F!Patience \in Nat /\ lost \in Nat
      /\ lost <= F!Patience /\ excuse \subseteq F!Feed
  BY TurnsAre DEF FeedsInv, TurnsInv
<1>6. \/ /\ age' = [age EXCEPT !["mirror"] = 0] /\ lost' = 0 /\ excuse' = excuse \ {"mirror"}
      \/ excuse' = excuse \cup {"mirror"} /\ age' = age /\ lost' = lost
  BY DEF F!sync_mirror
<1>7. age' \in [F!Feed -> Nat] /\ age'["kev"] = age["kev"] /\ ("kev" \in excuse <=> "kev" \in excuse')
      /\ excuse' \subseteq F!Feed /\ lost' \in Nat /\ lost' <= F!Patience
      /\ \/ age'["mirror"] = 0 /\ lost' = 0
         \/ "mirror" \in excuse'
  <2>1. age' \in [F!Feed -> Nat] /\ age'["kev"] = age["kev"]
    BY <1>5, <1>6 DEF F!Feed
  <2>2. /\ excuse' \subseteq F!Feed /\ ("kev" \in excuse <=> "kev" \in excuse')
        /\ \/ age'["mirror"] = 0 /\ lost' = 0
           \/ "mirror" \in excuse'
    BY <1>5, <1>6 DEF F!Feed
  <2>3. lost' \in Nat /\ lost' <= F!Patience
    BY <1>5, <1>6
  <2> QED
    BY <2>1, <2>2, <2>3
<1>8. TurnsInv(w)'
  <2>1. up # {}
    BY <1>1 DEF FeedsInv, TurnsInv
  <2> QED
    BY <1>2, <1>3, <1>4, <1>7, <2>1 DEF FeedsInv, TurnsInv, Stage
<1>9. KevInv(w)'
  BY <1>3, <1>4, <1>7 DEF FeedsInv, KevInv
<1>10. MirrorAge(w)'
  <2>1. CASE "mirror" \in excuse'
    BY <2>1 DEF MirrorAge
  <2>2. CASE age'["mirror"] = 0 /\ lost' = 0
    <3>1. age'["mirror"] + ToSync(w)' <= (lost' + 1) * SyncTurn
      BY <1>4, <1>5, <2>2
    <3> QED
      BY <1>3, <3>1 DEF MirrorAge
  <2> QED
    BY <1>7, <2>1, <2>2
<1> QED
  BY <1>8, <1>9, <1>10 DEF FeedsInv

\* Time passes: what is left shrinks by as much as the ages grow.
LEMMA TimePasses ==
  ASSUME F!FeedScheduleAssumption, NEW w, OneScheduler(w), FeedsInv(w), F!Pass
  PROVE  FeedsInv(w)'
<1>1. /\ running = {} /\ running' = {} /\ up' = up /\ excuse' = excuse /\ lost' = lost
      /\ \A v \in up : \A job \in F!Job : wait[v][job] # 0
  BY DEF F!Pass, F!Settled
<1>2. /\ wait' = [v \in {w} |-> [job \in F!Job |-> IF v \in up THEN wait[v][job] - Step ELSE 0]]
      /\ age' = [f \in F!Feed |-> IF age[f] >= F!Oldest THEN F!Oldest ELSE age[f] + Step]
  BY DEF F!Pass, OneScheduler
<1>3. Doing = "nothing" /\ Doing' = "nothing"
  BY <1>1, Stages DEF Doing
<1>4. /\ Turn \in Nat /\ SyncTurn \in Nat /\ Step \in Nat \ {0} /\ F!Oldest \in Nat
  BY TurnsAre DEF F!FeedScheduleAssumption, F!Oldest
<1>5. /\ wait \in [{w} -> [F!Job -> Multiples]] /\ age \in [F!Feed -> Nat]
      /\ ToRefresh(w) \in Nat /\ ToSync(w) \in Nat
      /\ ToRefresh(w) <= Turn /\ ToSync(w) <= SyncTurn
  BY HoursLeft DEF FeedsInv, TurnsInv
<1>6. age' \in [F!Feed -> Nat] /\ \A f \in F!Feed : age'[f] <= age[f] + Step
  BY <1>2, <1>4, <1>5
<1>7. CASE up = {}
  <2>1. excuse = F!Feed
    BY <1>7 DEF FeedsInv, TurnsInv
  <2>2. wait' \in [{w} -> [F!Job -> Multiples]] /\ ToRefresh(w)' = 0 /\ ToSync(w)' = 0
    <3>1. 0 \in Multiples
      BY <1>4 DEF Multiples
    <3> QED
      BY <1>2, <1>7, <3>1 DEF ToRefresh, ToSync, F!Job
  <2>3. TurnsInv(w)'
    BY <1>1, <1>3, <1>4, <1>6, <2>2 DEF FeedsInv, TurnsInv, Stage
  <2> QED
    BY <1>1, <2>1, <2>3 DEF FeedsInv, KevInv, MirrorAge, F!Feed
<1>8. CASE up # {}
  <2>1. up = {w}
    BY <1>8 DEF FeedsInv, TurnsInv
  <2>2. \A job \in F!Job : wait[w][job] \in Multiples /\ wait[w][job] - Step \in Multiples
    BY <1>1, <1>4, <1>5, <2>1, Waiting
  <2>3. /\ wait' \in [{w} -> [F!Job -> Multiples]]
        /\ ToRefresh(w)' = ToRefresh(w) - Step /\ ToSync(w)' = ToSync(w) - Step
    BY <1>2, <2>1, <2>2 DEF ToRefresh, ToSync, F!Job
  <2>4. ToRefresh(w)' \in Nat /\ ToSync(w)' \in Nat
    BY <2>2, <2>3 DEF ToRefresh, ToSync, F!Job, Multiples
  <2>5. TurnsInv(w)'
    <3>1. ToRefresh(w)' <= Turn /\ ToSync(w)' <= SyncTurn
      BY <1>4, <1>5, <2>3
    <3> QED
      BY <1>1, <1>3, <1>6, <2>1, <2>3, <3>1 DEF FeedsInv, TurnsInv, Stage
  <2>6. /\ age["kev"] \in Nat /\ age'["kev"] \in Nat /\ age'["kev"] <= age["kev"] + Step
        /\ age["mirror"] \in Nat /\ age'["mirror"] \in Nat /\ age'["mirror"] <= age["mirror"] + Step
    BY <1>5, <1>6 DEF F!Feed
  <2>7. age'["kev"] + ToRefresh(w)' <= age["kev"] + ToRefresh(w)
        /\ age'["mirror"] + ToSync(w)' <= age["mirror"] + ToSync(w)
    BY <1>4, <1>5, <2>3, <2>4, <2>6
  <2>8. KevInv(w)'
    <3>1. \/ "kev" \in excuse
          \/ age["kev"] + ToRefresh(w) <= 2 * Turn
          \/ age["kev"] + ToRefresh(w) <= 3 * Turn /\ ToSync(w) + Turn = ToRefresh(w) + SyncTurn
      BY <1>3 DEF FeedsInv, KevInv
    <3>2. CASE "kev" \in excuse
      BY <1>1, <3>2 DEF KevInv
    <3>3. CASE age["kev"] + ToRefresh(w) <= 2 * Turn
      <4>1. age'["kev"] + ToRefresh(w)' <= 2 * Turn
        BY <1>4, <1>5, <2>4, <2>6, <2>7, <3>3
      <4> QED
        BY <1>3, <4>1 DEF KevInv
    <3>4. CASE age["kev"] + ToRefresh(w) <= 3 * Turn /\ ToSync(w) + Turn = ToRefresh(w) + SyncTurn
      <4>1. age'["kev"] + ToRefresh(w)' <= 3 * Turn
        BY <1>4, <1>5, <2>4, <2>6, <2>7, <3>4
      <4>2. ToSync(w)' + Turn = ToRefresh(w)' + SyncTurn
        BY <1>4, <1>5, <2>3, <3>4
      <4> QED
        BY <1>3, <4>1, <4>2 DEF KevInv
    <3> QED
      BY <3>1, <3>2, <3>3, <3>4
  <2>9. MirrorAge(w)'
    <3>1. \/ "mirror" \in excuse
          \/ lost = F!Patience
          \/ age["mirror"] + ToSync(w) <= (lost + 1) * SyncTurn
      BY <1>3 DEF FeedsInv, MirrorAge
    <3>2. ASSUME age["mirror"] + ToSync(w) <= (lost + 1) * SyncTurn
          PROVE  age'["mirror"] + ToSync(w)' <= (lost + 1) * SyncTurn
      <4>1. (lost + 1) * SyncTurn \in Nat
        BY <1>4 DEF FeedsInv, TurnsInv
      <4> QED
        BY <1>5, <2>4, <2>6, <2>7, <3>2, <4>1
    <3> QED
      BY <1>1, <1>3, <3>1, <3>2 DEF MirrorAge
  <2> QED
    BY <2>5, <2>8, <2>9 DEF FeedsInv
<1> QED
  BY <1>7, <1>8

LEMMA FeedsStep ==
  ASSUME F!FeedScheduleAssumption, NEW w, OneScheduler(w), FeedsInv(w), [F!Next]_(F!vars)
  PROVE  FeedsInv(w)'
<1>1. CASE F!Pass
  BY <1>1, TimePasses
<1>2. ASSUME NEW v \in Scheduler, F!Start(v) \/ F!Stop(v) \/ \E job \in F!Job : F!Fire(v, job)
      PROVE  FeedsInv(w)'
  <2>1. v = w
    BY DEF OneScheduler
  <2> QED
    BY <1>2, <2>1, SchedulerStarts, SchedulerStops, RefreshTurn, SyncsTurn DEF F!Job
<1>3. ASSUME NEW r, r \in running,
             F!refresh_kev_catalog(r) \/ F!refresh_epss_scores(r) \/ F!sync_mirror(r)
      PROVE  FeedsInv(w)'
  BY <1>3, KevStep, EpssStep, SyncStep
<1>4. CASE UNCHANGED F!vars
  <2>1. /\ up' = up /\ wait' = wait /\ running' = running /\ age' = age
        /\ excuse' = excuse /\ lost' = lost
    BY <1>4 DEF F!vars
  <2>2. Doing' = Doing /\ ToRefresh(w)' = ToRefresh(w) /\ ToSync(w)' = ToSync(w)
    BY <2>1 DEF Doing, ToRefresh, ToSync
  <2> QED
    BY <2>1, <2>2 DEF FeedsInv, TurnsInv, KevInv, MirrorAge
<1> QED
  BY <1>1, <1>2, <1>3, <1>4 DEF F!Next

LEMMA FreshEnough ==
  ASSUME F!FeedScheduleAssumption, NEW w, OneScheduler(w), FeedsInv(w)
  PROVE  FeedsKeepUp
<1>1. /\ Turn \in Nat /\ SyncTurn \in Nat /\ F!Patience \in Nat
      /\ KevStaleAfter \in Nat /\ mirror_stale_after_hours \in Nat /\ 3 * Turn <= KevStaleAfter
  BY TurnsAre DEF F!FeedScheduleAssumption, OneScheduler, Turn
<1>2. /\ age["kev"] \in Nat /\ age["mirror"] \in Nat /\ lost \in Nat /\ lost <= F!Patience
      /\ ToRefresh(w) \in Nat /\ ToSync(w) \in Nat
  BY HoursLeft DEF FeedsInv, TurnsInv, F!Feed
<1>3. age["kev"] <= KevStaleAfter \/ "kev" \in excuse
  <2>1. \/ "kev" \in excuse
        \/ age["kev"] <= 3 * Turn
        \/ age["kev"] + ToRefresh(w) <= 2 * Turn
        \/ age["kev"] + ToRefresh(w) <= 3 * Turn
    BY DEF FeedsInv, KevInv
  <2> QED
    BY <1>1, <1>2, <2>1
<1>4. "mirror" \in excuse \/ lost = F!Patience \/ age["mirror"] <= mirror_stale_after_hours
  <2>1. \/ "mirror" \in excuse
        \/ lost = F!Patience
        \/ age["mirror"] <= (lost + 1) * SyncTurn
    <3>1. (lost + 1) * SyncTurn \in Nat
      BY <1>1, <1>2
    <3> QED
      BY <1>2, <3>1 DEF FeedsInv, MirrorAge
  <2>2. lost # F!Patience => (lost + 1) * SyncTurn <= mirror_stale_after_hours
    <3>1. mirror_refresh_hours > 0
      BY TurnsAre DEF SyncTurn
    <3> QED
      BY <1>1, <1>2, <3>1, PatienceLasts
  <2>3. (lost + 1) * SyncTurn \in Nat
    BY <1>1, <1>2
  <2> QED
    BY <1>1, <1>2, <2>1, <2>2, <2>3
<1>5. ~F!is_stale("kev", KevStaleAfter) \/ "kev" \in excuse
  BY <1>1, <1>2, <1>3 DEF F!is_stale
<1>6. ~F!is_stale("mirror", mirror_stale_after_hours) \/ "mirror" \in excuse \/ lost = F!Patience
  BY <1>1, <1>2, <1>4 DEF F!is_stale
<1> QED
  BY <1>5, <1>6 DEF FeedsKeepUp, F!FeedsKeepUp

\* FeedSchedule: with one scheduler, whatever the intervals, as long as it syncs
\* less often than it refreshes and the catalogue may miss two turns: neither
\* feed gets stale without an excuse (refresh_kev_catalog, sync_all and the
\* shared lock in scheduler.py).
THEOREM FeedsStayFresh ==
  ASSUME F!FeedScheduleAssumption, NEW w, OneScheduler(w)
  PROVE  F!Spec => []FeedsKeepUp
<1>1. F!Init => FeedsInv(w)
  BY FeedsStart
<1>2. FeedsInv(w) /\ [F!Next]_(F!vars) => FeedsInv(w)'
  BY FeedsStep
<1>3. FeedsInv(w) => FeedsKeepUp
  BY FreshEnough
<1> QED
  BY <1>1, <1>2, <1>3, PTL DEF F!Spec
=============================================================================
