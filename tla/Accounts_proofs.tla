--------------------------- MODULE Accounts_proofs ---------------------------
(***************************************************************************)
(* Proofs about Accounts, for any number of browsers and any limits: a     *)
(* session that only an old password opened does not survive it, and a     *)
(* recovery code lets in nobody who asks after it was used.                *)
(***************************************************************************)
EXTENDS Requests, Naturals, FiniteSets, Sequences, SequenceTheorems, TLAPS

User == [password : Nat, blocked : BOOLEAN, secret : Nat, confirmed : BOOLEAN, counter : Nat]
Code == [secret : Nat, at : Nat]
Session == [by : Nat, via : {"password", "code"}, overtaken : BOOLEAN, live : BOOLEAN]
Op == {"idle", "login", "totp", "recovery", "forgot", "reset", "password", "revoke others",
       "revoke one", "start", "confirm", "codes", "disable"}
Job == [op : Op, given : Nat, code : Code, row : User, codes : SUBSET Nat, used : SUBSET Nat,
        known : SUBSET Nat, links : Nat, overtaken : BOOLEAN]

TypeOK ==
  /\ row \in User
  /\ codes \in SUBSET Nat /\ used \in SUBSET Nat
  /\ sessions \in Seq(Session)
  /\ links \in Seq(BOOLEAN)
  /\ hits \in [A!Bucket -> Nat]
  /\ cookie \in [Client -> Nat] /\ challenge \in [Client -> Nat]
  /\ job \in [Client -> Job]
  /\ made \in [passwords : Nat, secrets : Nat, sets : Nat]
  /\ clock \in Nat /\ clock > Drift
  /\ calls \in Nat
  /\ accepted \in SUBSET [code : Nat, known : SUBSET Nat]

\* A request that no new password has overtaken has read the current one.
ReadsCurrent ==
  \A c \in Client : ~A!Free(c) /\ ~job[c].overtaken => job[c].row.password = row.password

\* A code that was let in is marked as used, and whoever knows that it was let
\* in has seen the mark.
LetInIsUsed ==
  /\ \A a \in accepted : a.code \in used
  /\ \A c \in Client : job[c].known \subseteq job[c].used

AccountsInv ==
  /\ TypeOK
  /\ LetInIsUsed /\ A!RecoveryCodesAreSpent
  /\ ~Rehashes => ReadsCurrent /\ A!NoSessionOutlivesItsPassword

-----------------------------------------------------------------------------
(***************************************************************************)
(* Sessions, as they are opened and ended.                                 *)
(***************************************************************************)

LEMMA RevokedSessions ==
  ASSUME NEW s \in Seq(Session), NEW E
  PROVE  /\ A!revoke(s, E) \in Seq(Session)
         /\ Len(A!revoke(s, E)) = Len(s)
         /\ DOMAIN A!revoke(s, E) = DOMAIN s
         /\ \A i \in DOMAIN s : IF i \in E THEN A!revoke(s, E)[i] = [s[i] EXCEPT !.live = FALSE]
                                ELSE A!revoke(s, E)[i] = s[i]
<1>1. Len(s) \in Nat /\ s \in [1..Len(s) -> Session] /\ DOMAIN s = 1..Len(s)
  BY LenProperties
<1>2. \A i \in 1..Len(s) : [s[i] EXCEPT !.live = FALSE] \in Session /\ s[i] \in Session
  BY <1>1 DEF Session
<1>3. A!revoke(s, E) \in [1..Len(s) -> Session]
  BY <1>1, <1>2 DEF A!revoke
<1>4. A!revoke(s, E) \in Seq(Session)
  BY <1>1, <1>3, SeqDef
<1>5. DOMAIN A!revoke(s, E) = 1..Len(s)
  BY <1>3
<1>6. Len(A!revoke(s, E)) = Len(s)
  BY <1>1, <1>4, <1>5, LenProperties
<1> QED
  BY <1>1, <1>4, <1>5, <1>6 DEF A!revoke

LEMMA AddedSession ==
  ASSUME NEW s \in Seq(Session), NEW e \in Session
  PROVE  /\ Append(s, e) \in Seq(Session) /\ Len(Append(s, e)) \in Nat
         /\ DOMAIN Append(s, e) = DOMAIN s \cup {Len(s) + 1}
         /\ \A i \in DOMAIN Append(s, e) : (i \in DOMAIN s /\ Append(s, e)[i] = s[i]) \/ Append(s, e)[i] = e
<1>1. Len(s) \in Nat /\ DOMAIN s = 1..Len(s)
  BY LenProperties
<1>2. /\ Append(s, e) \in Seq(Session) /\ Len(Append(s, e)) = Len(s) + 1
      /\ \A i \in 1..Len(s) : Append(s, e)[i] = s[i]
      /\ Append(s, e)[Len(s) + 1] = e
  BY AppendProperties
<1>3. DOMAIN Append(s, e) = 1..(Len(s) + 1)
  BY <1>2, LenProperties
<1>4. 1..(Len(s) + 1) = 1..Len(s) \cup {Len(s) + 1}
  BY <1>1
<1> QED
  BY <1>1, <1>2, <1>3, <1>4

-----------------------------------------------------------------------------
(***************************************************************************)
(* What the steps have in common.                                          *)
(***************************************************************************)

LEMMA IdleTyped == A!Idle \in Job /\ A!Idle.op = "idle" /\ A!Idle.known = {} /\ A!Idle.used = {}
<1>1. A!NoRow \in User /\ A!NoCode \in Code
  BY DEF A!NoRow, A!NoCode, User, Code
<1>2. {} \in SUBSET Nat
  OBVIOUS
<1> QED
  BY <1>1, <1>2 DEF A!Idle, Job, Op

LEMMA AnsweredJob ==
  ASSUME TypeOK, NEW c \in Client, A!Answered(c)
  PROVE  job' \in [Client -> Job] /\ \A b \in Client : job'[b] = job[b] \/ job'[b] = A!Idle
  BY IdleTyped DEF TypeOK, A!Answered

LEMMA RecordedTyped ==
  ASSUME TypeOK, NEW K, A!record_attempt(K)
  PROVE  hits' \in [A!Bucket -> Nat]
  BY DEF TypeOK, A!record_attempt

LEMMA OvertakenTyped ==
  ASSUME TypeOK, NEW c \in Client, A!Overtake(c)
  PROVE  /\ job' \in [Client -> Job]
         /\ \A b \in Client : \/ job'[b] = A!Idle
                              \/ /\ job'[b].overtaken /\ job'[b].row = job[b].row
                                 /\ job'[b].known = job[b].known /\ job'[b].used = job[b].used
                              \/ job[b].op = "idle" /\ job'[b] = job[b]
<1>1. ASSUME NEW b \in Client
      PROVE  /\ job'[b] \in Job
             /\ \/ job'[b] = A!Idle
                \/ /\ job'[b].overtaken /\ job'[b].row = job[b].row
                   /\ job'[b].known = job[b].known /\ job'[b].used = job[b].used
                \/ job[b].op = "idle" /\ job'[b] = job[b]
  <2>1. CASE b = c
    BY <2>1, IdleTyped DEF A!Overtake, TypeOK
  <2>2. CASE b # c /\ A!Free(b)
    BY <2>2 DEF A!Overtake, TypeOK, A!Free
  <2>3. CASE b # c /\ ~A!Free(b)
    <3>1. job'[b] = [job[b] EXCEPT !.overtaken = TRUE] /\ job[b] \in Job
      BY <2>3 DEF A!Overtake, TypeOK
    <3> QED
      BY <3>1 DEF Job
  <2> QED
    BY <2>1, <2>2, <2>3
<1>2. job' = [b \in Client |-> job'[b]]
  BY DEF A!Overtake
<1> QED
  BY <1>1, <1>2

\* The password stays, requests end, sessions end.
LEMMA QuietStep ==
  ASSUME AccountsInv, TypeOK', ~Rehashes => row'.password = row.password,
         UNCHANGED <<used, accepted>>,
         \A c \in Client : job'[c] = job[c] \/ job'[c] = A!Idle,
         DOMAIN sessions' = DOMAIN sessions,
         \A i \in DOMAIN sessions : sessions'[i] = sessions[i] \/ ~sessions'[i].live
  PROVE  AccountsInv'
<1>1. ~Rehashes => ReadsCurrent'
  BY IdleTyped DEF AccountsInv, ReadsCurrent, A!Free
<1>2. LetInIsUsed' /\ A!RecoveryCodesAreSpent'
  BY IdleTyped DEF AccountsInv, LetInIsUsed, A!RecoveryCodesAreSpent
<1>3. ~Rehashes => A!NoSessionOutlivesItsPassword'
  BY DEF AccountsInv, A!NoSessionOutlivesItsPassword
<1> QED
  BY <1>1, <1>2, <1>3 DEF AccountsInv

\* A session is opened: by its password, or by a second factor.
LEMMA OpenedStep ==
  ASSUME AccountsInv, NEW c \in Client, NEW pw \in Nat, NEW via \in {"password", "code"},
         A!Opened(c, pw, via), row' \in User, ~Rehashes => row'.password = row.password,
         \/ UNCHANGED <<used, accepted>>
         \/ /\ used' = used \cup {job[c].given}
            /\ accepted' = accepted \cup {[code |-> job[c].given, known |-> job[c].known]}
            /\ job[c].given \notin job[c].used,
         via = "password" => pw = job[c].row.password /\ ~A!Free(c),
         challenge' \in [Client -> Nat], UNCHANGED <<codes, links, hits, made, clock, calls>>
  PROVE  AccountsInv'
<1>1. /\ sessions' = A!create_session(sessions, pw, via, job[c].overtaken)
      /\ cookie' = [cookie EXCEPT ![c] = Len(sessions')] /\ A!Answered(c)
  BY DEF A!Opened
<1>2. TypeOK /\ sessions \in Seq(Session) /\ job[c] \in Job /\ job[c].overtaken \in BOOLEAN
  BY DEF AccountsInv, TypeOK, Job
<1> DEFINE e == [by |-> pw, via |-> via, overtaken |-> job[c].overtaken, live |-> TRUE]
<1>e. e \in Session
  BY <1>2 DEF Session
<1>f. sessions' = Append(sessions, e)
  BY <1>1 DEF A!create_session
<1>g. e.by = pw /\ e.via = via /\ e.overtaken = job[c].overtaken
  OBVIOUS
<1> HIDE DEF e
<1>3. /\ sessions' \in Seq(Session) /\ Len(sessions') \in Nat
      /\ \A i \in DOMAIN sessions' : (i \in DOMAIN sessions /\ sessions'[i] = sessions[i]) \/ sessions'[i] = e
  BY <1>2, <1>e, <1>f, AddedSession
<1>4. job' \in [Client -> Job] /\ \A b \in Client : job'[b] = job[b] \/ job'[b] = A!Idle
  BY <1>1, <1>2, AnsweredJob
<1>5. used' \in SUBSET Nat /\ accepted' \in SUBSET [code : Nat, known : SUBSET Nat]
  <2>1. job[c].given \in Nat /\ job[c].known \in SUBSET Nat
    BY <1>2 DEF Job
  <2>2. [code |-> job[c].given, known |-> job[c].known] \in [code : Nat, known : SUBSET Nat]
    BY <2>1
  <2> QED
    BY <1>2, <2>1, <2>2 DEF TypeOK
<1>6. TypeOK'
  BY <1>1, <1>2, <1>3, <1>4, <1>5 DEF TypeOK
<1>7. ~Rehashes => ReadsCurrent'
  BY <1>4, IdleTyped DEF AccountsInv, ReadsCurrent, A!Free
<1>8. LetInIsUsed' /\ A!RecoveryCodesAreSpent'
  BY <1>4, IdleTyped DEF AccountsInv, LetInIsUsed, A!RecoveryCodesAreSpent
<1>9. ~Rehashes => A!NoSessionOutlivesItsPassword'
  BY <1>3, <1>g DEF AccountsInv, A!NoSessionOutlivesItsPassword, ReadsCurrent
<1> QED
  BY <1>6, <1>7, <1>8, <1>9 DEF AccountsInv

\* A request has read the account as it is.
LEMMA AskStep ==
  ASSUME AccountsInv, NEW c \in Client, NEW op \in Op \ {"idle"}, NEW given \in Nat, NEW code \in Code,
         A!AskWith(c, op, given, code)
  PROVE  AccountsInv'
<1> DEFINE j == [op |-> op, given |-> given, code |-> code, row |-> row, codes |-> codes, used |-> used,
                 known |-> {a.code : a \in accepted}, links |-> Len(links), overtaken |-> FALSE]
<1>1. TypeOK
  BY DEF AccountsInv
<1>2. {a.code : a \in accepted} \in SUBSET Nat
  BY <1>1 DEF TypeOK
<1>3. Len(links) \in Nat
  BY <1>1, LenProperties DEF TypeOK
<1>4. row \in User /\ codes \in SUBSET Nat /\ used \in SUBSET Nat
  BY <1>1 DEF TypeOK
<1>5. j \in Job
  BY <1>2, <1>3, <1>4 DEF Job
<1>6. j.row = row /\ j.known = {a.code : a \in accepted} /\ j.used = used
  OBVIOUS
<1>7. job' = [job EXCEPT ![c] = j] /\ calls' = calls + 1
  BY DEF A!AskWith
<1>8. UNCHANGED <<row, codes, used, sessions, links, hits, cookie, challenge, made, clock, accepted>>
  BY DEF A!AskWith, A!stored
<1> HIDE DEF j
<1>9. job' \in [Client -> Job] /\ \A b \in Client : job'[b] = job[b] \/ job'[b] = j
  BY <1>1, <1>5, <1>7 DEF TypeOK
<1>10. TypeOK'
  BY <1>1, <1>7, <1>8, <1>9 DEF TypeOK
<1>11. ~Rehashes => ReadsCurrent'
  BY <1>6, <1>8, <1>9 DEF AccountsInv, ReadsCurrent, A!Free
<1>12. j.known \subseteq j.used
  BY <1>6 DEF AccountsInv, LetInIsUsed
<1>13. LetInIsUsed' /\ A!RecoveryCodesAreSpent'
  BY <1>8, <1>9, <1>12 DEF AccountsInv, LetInIsUsed, A!RecoveryCodesAreSpent
<1>14. ~Rehashes => A!NoSessionOutlivesItsPassword'
  BY <1>8 DEF AccountsInv, A!NoSessionOutlivesItsPassword
<1> QED
  BY <1>10, <1>11, <1>13, <1>14 DEF AccountsInv

\* A new password: the sessions that stay, if any, are its own.
LEMMA PasswordStep ==
  ASSUME AccountsInv, NEW c \in Client, A!NewPassword, A!Overtake(c),
         sessions' \in Seq(Session), links' \in Seq(BOOLEAN), cookie' \in [Client -> Nat],
         \A i \in DOMAIN sessions' : sessions'[i].live => sessions'[i].by = row'.password,
         UNCHANGED <<codes, used, hits, challenge, clock, calls, accepted>>
  PROVE  AccountsInv'
<1>1. TypeOK
  BY DEF AccountsInv
<1>2. /\ job' \in [Client -> Job]
      /\ \A b \in Client : \/ job'[b] = A!Idle
                           \/ /\ job'[b].overtaken /\ job'[b].row = job[b].row
                              /\ job'[b].known = job[b].known /\ job'[b].used = job[b].used
                           \/ job[b].op = "idle" /\ job'[b] = job[b]
  BY <1>1, OvertakenTyped
<1>3. made' \in [passwords : Nat, secrets : Nat, sets : Nat] /\ row' \in User
  <2>1. made \in [passwords : Nat, secrets : Nat, sets : Nat] /\ row \in User
    BY <1>1 DEF TypeOK
  <2>2. made' = [made EXCEPT !.passwords = made.passwords + 1]
    BY DEF A!NewPassword
  <2>3. made' \in [passwords : Nat, secrets : Nat, sets : Nat] /\ made'.passwords \in Nat
    BY <2>1, <2>2
  <2>4. row' = [row EXCEPT !.password = made'.passwords]
    BY DEF A!NewPassword
  <2> QED
    BY <2>1, <2>3, <2>4 DEF User
<1>4. TypeOK'
  BY <1>1, <1>2, <1>3 DEF TypeOK
<1>5. ~Rehashes => ReadsCurrent'
  BY <1>2, IdleTyped DEF AccountsInv, ReadsCurrent, A!Free
<1>6. LetInIsUsed' /\ A!RecoveryCodesAreSpent'
  BY <1>2, IdleTyped DEF AccountsInv, LetInIsUsed, A!RecoveryCodesAreSpent
<1>7. ~Rehashes => A!NoSessionOutlivesItsPassword'
  BY DEF A!NoSessionOutlivesItsPassword
<1> QED
  BY <1>4, <1>5, <1>6, <1>7 DEF AccountsInv

LEMMA ResetStep ==
  ASSUME AccountsInv, NEW c \in Client, A!ResetPassword(c)
  PROVE  AccountsInv'
<1>1. sessions \in Seq(Session) /\ links \in Seq(BOOLEAN) /\ cookie \in [Client -> Nat]
  BY DEF AccountsInv, TypeOK
<1>2. A!NewPassword /\ A!Overtake(c) /\ UNCHANGED <<codes, used, hits, cookie, challenge, clock, calls, accepted>>
  BY DEF A!ResetPassword, A!complete_password_reset
<1>3. sessions' = A!revoke(sessions, DOMAIN sessions) /\ links' = [l \in DOMAIN links |-> FALSE]
  BY DEF A!ResetPassword, A!complete_password_reset, A!revoke_all_sessions
<1>4. /\ sessions' \in Seq(Session) /\ DOMAIN sessions' = DOMAIN sessions
      /\ \A i \in DOMAIN sessions : sessions'[i] = [sessions[i] EXCEPT !.live = FALSE]
  BY <1>1, <1>3, RevokedSessions
<1>5. \A i \in DOMAIN sessions' : ~sessions'[i].live
  <2>1. \A i \in DOMAIN sessions : sessions[i] \in Session
    BY <1>1, LenProperties
  <2> QED
    BY <1>4, <2>1 DEF Session
<1>6. links' \in Seq(BOOLEAN)
  <2>1. Len(links) \in Nat /\ DOMAIN links = 1..Len(links)
    BY <1>1, LenProperties
  <2>2. links' \in [1..Len(links) -> BOOLEAN]
    BY <1>3, <2>1
  <2> QED
    BY <2>1, <2>2, SeqDef
<1> QED
  BY <1>1, <1>2, <1>4, <1>5, <1>6, PasswordStep

LEMMA ChangeStep ==
  ASSUME AccountsInv, NEW c \in Client, A!ChangePassword(c)
  PROVE  AccountsInv'
<1> DEFINE old == A!revoke(sessions, DOMAIN sessions)
           e == [by |-> made'.passwords, via |-> "password", overtaken |-> FALSE, live |-> TRUE]
<1>1. /\ sessions \in Seq(Session) /\ links \in Seq(BOOLEAN) /\ cookie \in [Client -> Nat]
      /\ made \in [passwords : Nat, secrets : Nat, sets : Nat] /\ row \in User
  BY DEF AccountsInv, TypeOK
<1>2. A!NewPassword /\ A!Overtake(c) /\ UNCHANGED <<codes, used, links, hits, challenge, clock, calls, accepted>>
  BY DEF A!ChangePassword
<1>3. sessions' = Append(old, e) /\ cookie' = [cookie EXCEPT ![c] = Len(sessions')]
  BY DEF A!ChangePassword, A!create_session, A!revoke_all_sessions
<1>4. made'.passwords \in Nat /\ row'.password = made'.passwords
  BY <1>1, <1>2 DEF A!NewPassword, User
<1>5. e \in Session /\ e.by = made'.passwords
  BY <1>4 DEF Session
<1>6. /\ old \in Seq(Session) /\ DOMAIN old = DOMAIN sessions
      /\ \A i \in DOMAIN sessions : old[i] = [sessions[i] EXCEPT !.live = FALSE]
  BY <1>1, RevokedSessions
<1>7. \A i \in DOMAIN old : ~old[i].live
  <2>1. \A i \in DOMAIN sessions : sessions[i] \in Session
    BY <1>1, LenProperties
  <2> QED
    BY <1>6, <2>1 DEF Session
<1> HIDE DEF old, e
<1>8. /\ sessions' \in Seq(Session) /\ Len(sessions') \in Nat
      /\ \A i \in DOMAIN sessions' : (i \in DOMAIN old /\ sessions'[i] = old[i]) \/ sessions'[i] = e
  BY <1>3, <1>5, <1>6, AddedSession
<1>9. cookie' \in [Client -> Nat]
  BY <1>1, <1>3, <1>8
<1>10. \A i \in DOMAIN sessions' : sessions'[i].live => sessions'[i].by = row'.password
  BY <1>4, <1>5, <1>7, <1>8
<1>11. links' \in Seq(BOOLEAN)
  BY <1>1, <1>2
<1> QED
  BY <1>2, <1>8, <1>9, <1>10, <1>11, PasswordStep

-----------------------------------------------------------------------------
(***************************************************************************)
(* One browser's steps, and all the others.                                *)
(***************************************************************************)

LEMMA AskingStep ==
  ASSUME A!AccountsAssumption, AccountsInv, NEW c \in Client,
         A!AskLogin(c) \/ A!AskSecondFactor(c) \/ A!AskForgotPassword(c) \/ A!AskReset(c) \/ A!AskSettings(c)
  PROVE  AccountsInv'
<1>1. /\ made.passwords \in Nat /\ made.secrets \in Nat /\ made.sets \in Nat
      /\ clock \in Nat /\ clock > Drift /\ Drift \in Nat
      /\ row.secret \in Nat
  BY DEF AccountsInv, TypeOK, User, A!AccountsAssumption
<1>2. A!NoCode \in Code
  BY DEF A!NoCode, Code
<1>3. (clock - Drift)..(clock + Drift) \subseteq Nat
  BY <1>1
<1>4. A!Totp \subseteq Code
  BY <1>1, <1>3 DEF A!Totp, Code
<1>5. CASE A!AskLogin(c)
  <2>1. PICK pw \in 0..made.passwords : A!AskWith(c, "login", pw, A!NoCode)
    BY <1>5 DEF A!AskLogin, A!Ask
  <2>2. pw \in Nat
    BY <1>1
  <2> QED
    BY <1>2, <2>1, <2>2, AskStep DEF Op
<1>6. CASE A!AskSecondFactor(c)
  <2>1. CASE \E code \in A!Totp : A!AskWith(c, "totp", 0, code)
    BY <1>4, <2>1, AskStep DEF Op
  <2>2. CASE \E n \in A!Recovery : A!AskWith(c, "recovery", n, A!NoCode)
    <3>1. A!Recovery \subseteq Nat
      BY <1>1 DEF A!Recovery
    <3> QED
      BY <1>2, <2>2, <3>1, AskStep DEF Op
  <2> QED
    BY <1>6, <2>1, <2>2 DEF A!AskSecondFactor, A!Ask
<1>7. CASE A!AskForgotPassword(c)
  BY <1>2, <1>7, AskStep DEF A!AskForgotPassword, A!Ask, Op
<1>8. CASE A!AskReset(c)
  <2>1. PICK l \in DOMAIN links : A!AskWith(c, "reset", l, A!NoCode)
    BY <1>8 DEF A!AskReset, A!Ask
  <2>2. l \in Nat
    BY LenProperties DEF AccountsInv, TypeOK
  <2> QED
    BY <1>2, <2>1, <2>2, AskStep DEF Op
<1>9. CASE A!AskSettings(c)
  <2>1. CASE \E op \in {"password", "revoke others", "start", "codes", "disable"} : A!AskWith(c, op, 0, A!NoCode)
    BY <1>2, <2>1, AskStep DEF Op
  <2>2. CASE \E i \in DOMAIN sessions : A!AskWith(c, "revoke one", i, A!NoCode)
    <3>1. DOMAIN sessions \subseteq Nat
      BY LenProperties DEF AccountsInv, TypeOK
    <3> QED
      BY <1>2, <2>2, <3>1, AskStep DEF Op
  <2>3. CASE \E at \in (clock - Drift)..(clock + Drift) :
               A!AskWith(c, "confirm", 0, [secret |-> row.secret, at |-> at])
    <3>1. PICK at \in (clock - Drift)..(clock + Drift) :
                 A!AskWith(c, "confirm", 0, [secret |-> row.secret, at |-> at])
      BY <2>3
    <3>2. [secret |-> row.secret, at |-> at] \in Code
      BY <1>1, <1>3 DEF Code
    <3> QED
      BY <3>1, <3>2, AskStep DEF Op
  <2> QED
    BY <1>9, <2>1, <2>2, <2>3 DEF A!AskSettings, A!Ask
<1> QED
  BY <1>5, <1>6, <1>7, <1>8, <1>9

\* Requests that change neither the password nor what is spent.
LEMMA AnsweringStep ==
  ASSUME AccountsInv, NEW c \in Client,
         \/ A!LoginRefused(c) \/ A!LoginChallenged(c) \/ A!SecondFactorRefused(c) \/ A!RecoveryGone(c)
         \/ A!ForgotPassword(c) \/ A!BeginSetup(c) \/ A!ConfirmSetup(c) \/ A!NewBackupCodes(c) \/ A!Disable(c)
  PROVE  AccountsInv'
<1>1. TypeOK
  BY DEF AccountsInv
<1>2. A!Answered(c) /\ UNCHANGED <<used, accepted, sessions, cookie, clock, calls>>
  BY DEF A!LoginRefused, A!LoginChallenged, A!SecondFactorRefused, A!RecoveryGone, A!ForgotPassword, A!BeginSetup,
         A!ConfirmSetup, A!NewBackupCodes, A!Disable, A!Wrong, A!stored
<1>3. job' \in [Client -> Job] /\ \A b \in Client : job'[b] = job[b] \/ job'[b] = A!Idle
  BY <1>1, <1>2, AnsweredJob
<1>4. row \in User /\ job[c] \in Job /\ made \in [passwords : Nat, secrets : Nat, sets : Nat] /\ codes \in SUBSET Nat
  BY <1>1 DEF TypeOK
<1>5. job[c].code.at \in Nat /\ job[c].given \in Nat
  BY <1>4 DEF Job, Code
<1>6. row' \in User /\ (~Rehashes => row'.password = row.password)
  <2>1. CASE UNCHANGED row
    BY <1>4, <2>1
  <2>2. CASE A!LoginChallenged(c)
    <3>1. row' = IF Rehashes THEN [row EXCEPT !.password = job[c].given] ELSE row
      BY <2>2 DEF A!LoginChallenged, A!Rehash
    <3> QED
      BY <1>4, <1>5, <3>1 DEF User
  <2>3. CASE A!BeginSetup(c)
    <3>1. made' = [made EXCEPT !.secrets = made.secrets + 1] /\ row' = [row EXCEPT !.secret = made'.secrets]
      BY <2>3 DEF A!BeginSetup
    <3>2. made'.secrets \in Nat
      BY <1>4, <3>1
    <3> QED
      BY <1>4, <3>1, <3>2 DEF User
  <2>4. CASE A!ConfirmSetup(c)
    <3>1. row' = [row EXCEPT !.confirmed = TRUE, !.counter = job[c].code.at]
      BY <2>4 DEF A!ConfirmSetup
    <3> QED
      BY <1>4, <1>5, <3>1 DEF User
  <2>5. CASE A!Disable(c)
    <3>1. PICK s \in {row.secret, 0}, f \in {row.confirmed, FALSE}, n \in {row.counter, 0} :
             row' = [row EXCEPT !.secret = s, !.confirmed = f, !.counter = n]
      BY <2>5 DEF A!Disable
    <3>2. row.secret \in Nat /\ row.confirmed \in BOOLEAN /\ row.counter \in Nat
      BY <1>4 DEF User
    <3>3. s \in Nat /\ n \in Nat
      BY <3>2
    <3>4. f \in BOOLEAN
      BY <3>2, Zenon
    <3> QED
      BY <1>4, <3>1, <3>3, <3>4 DEF User
  <2> QED
    BY <2>1, <2>2, <2>3, <2>4, <2>5
       DEF A!LoginRefused, A!SecondFactorRefused, A!RecoveryGone, A!ForgotPassword, A!NewBackupCodes, A!Wrong, A!stored
<1>7. made' \in [passwords : Nat, secrets : Nat, sets : Nat] /\ codes' \in SUBSET Nat
  <2>1. CASE UNCHANGED <<made, codes>>
    BY <1>4, <2>1
  <2>2. CASE A!BeginSetup(c)
    BY <1>4, <2>2 DEF A!BeginSetup
  <2>3. CASE A!regenerate_backup_codes(job[c])
    BY <1>4, <2>3 DEF A!regenerate_backup_codes
  <2>4. CASE A!Disable(c)
    BY <1>4, <2>4 DEF A!Disable
  <2> QED
    BY <2>1, <2>2, <2>3, <2>4
       DEF A!LoginRefused, A!LoginChallenged, A!SecondFactorRefused, A!RecoveryGone, A!ForgotPassword, A!ConfirmSetup,
           A!NewBackupCodes, A!Wrong, A!stored
<1>8. hits' \in [A!Bucket -> Nat]
  <2>1. UNCHANGED hits \/ \E K \in {{"ip", "email"}, {"ip", "id"}, {"reset"}} : A!record_attempt(K)
    BY DEF A!LoginRefused, A!LoginChallenged, A!SecondFactorRefused, A!RecoveryGone, A!ForgotPassword, A!BeginSetup,
           A!ConfirmSetup, A!NewBackupCodes, A!Disable, A!Wrong, A!stored
  <2> QED
    BY <1>1, <2>1, RecordedTyped DEF TypeOK
<1>9. links' \in Seq(BOOLEAN) /\ challenge' \in [Client -> Nat]
  <2>1. UNCHANGED links \/ links' = Append(links, TRUE)
    BY DEF A!LoginRefused, A!LoginChallenged, A!SecondFactorRefused, A!RecoveryGone, A!ForgotPassword, A!BeginSetup,
           A!ConfirmSetup, A!NewBackupCodes, A!Disable, A!Wrong, A!stored
  <2>2. UNCHANGED challenge \/ challenge' = [challenge EXCEPT ![c] = job[c].given]
    BY DEF A!LoginRefused, A!LoginChallenged, A!SecondFactorRefused, A!RecoveryGone, A!ForgotPassword, A!BeginSetup,
           A!ConfirmSetup, A!NewBackupCodes, A!Disable, A!Wrong, A!stored
  <2>3. Append(links, TRUE) \in Seq(BOOLEAN)
    BY <1>1, AppendProperties DEF TypeOK
  <2> QED
    BY <1>1, <1>5, <2>1, <2>2, <2>3 DEF TypeOK
<1>10. TypeOK'
  BY <1>1, <1>2, <1>3, <1>6, <1>7, <1>8, <1>9 DEF TypeOK
<1> QED
  BY <1>2, <1>3, <1>6, <1>10, QuietStep

LEMMA OpeningStep ==
  ASSUME AccountsInv, NEW c \in Client, A!Login(c) \/ A!Totp2fa(c) \/ A!Recovery2fa(c)
  PROVE  AccountsInv'
<1>1. row \in User /\ job[c] \in Job /\ challenge \in [Client -> Nat]
  BY DEF AccountsInv, TypeOK
<1>2. job[c].given \in Nat /\ job[c].code.at \in Nat
  BY <1>1 DEF Job, Code
<1>3. CASE A!Login(c)
  <2>1. /\ A!Opened(c, job[c].given, "password")
        /\ row' = IF Rehashes THEN [row EXCEPT !.password = job[c].given] ELSE row
        /\ UNCHANGED <<used, accepted, challenge, codes, links, hits, made, clock, calls>>
    BY <1>3 DEF A!Login, A!Rehash
  <2>2. job[c].given = job[c].row.password /\ ~A!Free(c)
    BY <1>3 DEF A!Login, A!authenticate, A!Free
  <2>3. row' \in User /\ (~Rehashes => row'.password = row.password)
    BY <1>1, <1>2, <2>1 DEF User
  <2> QED
    BY <1>1, <1>2, <2>1, <2>2, <2>3, OpenedStep
<1>4. CASE A!Totp2fa(c)
  <2>1. /\ A!Opened(c, challenge[c], "code") /\ row' = [row EXCEPT !.counter = job[c].code.at]
        /\ challenge' = [challenge EXCEPT ![c] = 0]
        /\ UNCHANGED <<used, accepted, codes, links, hits, made, clock, calls>>
    BY <1>4 DEF A!Totp2fa
  <2>2. row' \in User /\ row'.password = row.password
    BY <1>1, <1>2, <2>1 DEF User
  <2> QED
    BY <1>1, <2>1, <2>2, OpenedStep
<1>5. CASE A!Recovery2fa(c)
  <2>1. /\ A!Opened(c, challenge[c], "code") /\ row' = row
        /\ challenge' = [challenge EXCEPT ![c] = 0]
        /\ used' = used \cup {job[c].given}
        /\ accepted' = accepted \cup {[code |-> job[c].given, known |-> job[c].known]}
        /\ job[c].given \notin job[c].used
        /\ UNCHANGED <<codes, links, hits, made, clock, calls>>
    BY <1>5 DEF A!Recovery2fa, A!consume_backup_code
  <2> QED
    BY <1>1, <2>1, OpenedStep
<1> QED
  BY <1>3, <1>4, <1>5

LEMMA EndingStep ==
  ASSUME AccountsInv, NEW c \in Client, A!Logout(c) \/ A!RevokeSession(c) \/ A!RevokeOthers(c)
  PROVE  AccountsInv'
<1>1. TypeOK /\ sessions \in Seq(Session)
  BY DEF AccountsInv, TypeOK
<1>2. UNCHANGED <<row, codes, used, links, hits, challenge, made, clock, calls, accepted>>
  BY DEF A!Logout, A!RevokeSession, A!RevokeOthers
<1>3. PICK E : sessions' = A!revoke(sessions, E)
  BY DEF A!Logout, A!RevokeSession, A!RevokeOthers
<1>4. /\ sessions' \in Seq(Session) /\ DOMAIN sessions' = DOMAIN sessions
      /\ \A i \in DOMAIN sessions : sessions'[i] = sessions[i] \/ sessions'[i] = [sessions[i] EXCEPT !.live = FALSE]
  BY <1>1, <1>3, RevokedSessions
<1>5. \A i \in DOMAIN sessions : sessions'[i] = sessions[i] \/ ~sessions'[i].live
  <2>1. \A i \in DOMAIN sessions : sessions[i] \in Session
    BY <1>1, LenProperties
  <2> QED
    BY <1>4, <2>1 DEF Session
<1>6. job' \in [Client -> Job] /\ \A b \in Client : job'[b] = job[b] \/ job'[b] = A!Idle
  <2>1. A!Answered(c) \/ UNCHANGED job
    BY DEF A!Logout, A!RevokeSession, A!RevokeOthers
  <2> QED
    BY <1>1, <2>1, AnsweredJob DEF TypeOK
<1>7. cookie' \in [Client -> Nat]
  <2>1. UNCHANGED cookie \/ cookie' = [cookie EXCEPT ![c] = 0]
    BY DEF A!Logout, A!RevokeSession, A!RevokeOthers
  <2>2. cookie \in [Client -> Nat] /\ 0 \in Nat
    BY <1>1 DEF TypeOK
  <2> QED
    BY <2>1, <2>2
<1>8. TypeOK'
  BY <1>1, <1>2, <1>4, <1>6, <1>7 DEF TypeOK
<1> QED
  BY <1>2, <1>4, <1>5, <1>6, <1>8, QuietStep

LEMMA NobodysStep ==
  ASSUME A!AccountsAssumption, AccountsInv, A!Suspend \/ A!Unsuspend \/ A!Tick \/ UNCHANGED A!vars
  PROVE  AccountsInv'
<1>1. TypeOK
  BY DEF AccountsInv
<1>2. UNCHANGED <<codes, used, sessions, cookie, job, made, accepted>>
  BY DEF A!Suspend, A!Unsuspend, A!Tick, A!vars, A!stored
<1>3. row' \in User /\ row'.password = row.password
  <2>1. UNCHANGED row \/ \E b \in BOOLEAN : row' = [row EXCEPT !.blocked = b]
    BY DEF A!Suspend, A!Unsuspend, A!Tick, A!vars, A!stored
  <2> QED
    BY <1>1, <2>1 DEF TypeOK, User
<1>4. clock' \in Nat /\ clock' > Drift /\ calls' \in Nat
  <2>1. (UNCHANGED clock \/ clock' = clock + 1) /\ (UNCHANGED calls \/ calls' = calls + 1)
    BY DEF A!Suspend, A!Unsuspend, A!Tick, A!vars, A!stored
  <2>2. clock \in Nat /\ clock > Drift /\ calls \in Nat
    BY <1>1 DEF TypeOK
  <2> QED
    BY <2>1, <2>2 DEF A!AccountsAssumption
<1>5. hits' \in [A!Bucket -> Nat] /\ challenge' \in [Client -> Nat]
  <2>1. UNCHANGED hits \/ hits' = [k \in A!Bucket |-> 0]
    BY DEF A!Suspend, A!Unsuspend, A!Tick, A!vars, A!stored
  <2>2. UNCHANGED challenge \/ \E b \in SUBSET Client : challenge' = [c \in Client |-> IF c \in b THEN 0 ELSE challenge[c]]
    BY DEF A!Suspend, A!Unsuspend, A!Tick, A!vars, A!stored
  <2> QED
    BY <1>1, <2>1, <2>2 DEF TypeOK
<1>6. links' \in Seq(BOOLEAN)
  <2>1. UNCHANGED links \/ \E e \in SUBSET DOMAIN links : links' = [l \in DOMAIN links |-> links[l] /\ l \notin e]
    BY DEF A!Suspend, A!Unsuspend, A!Tick, A!vars, A!stored
  <2>2. links \in Seq(BOOLEAN) /\ Len(links) \in Nat /\ DOMAIN links = 1..Len(links)
    BY <1>1, LenProperties DEF TypeOK
  <2>3. CASE UNCHANGED links
    BY <2>2, <2>3
  <2>4. CASE \E e \in SUBSET DOMAIN links : links' = [l \in DOMAIN links |-> links[l] /\ l \notin e]
    <3>1. PICK e \in SUBSET DOMAIN links : links' = [l \in 1..Len(links) |-> links[l] /\ l \notin e]
      BY <2>2, <2>4
    <3>2. \A l \in 1..Len(links) : (links[l] /\ l \notin e) \in BOOLEAN
      OBVIOUS
    <3>3. links' \in [1..Len(links) -> BOOLEAN]
      BY <3>1, <3>2, Zenon
    <3> QED
      BY <2>2, <3>3, SeqDef
  <2> QED
    BY <2>1, <2>3, <2>4
<1>7. TypeOK'
  BY <1>1, <1>2, <1>3, <1>4, <1>5, <1>6 DEF TypeOK
<1> QED
  BY <1>2, <1>3, <1>7, QuietStep

-----------------------------------------------------------------------------
LEMMA InitAccounts ==
  ASSUME A!AccountsAssumption, A!Init
  PROVE  AccountsInv
<1> DEFINE e == [by |-> 1, via |-> "password", overtaken |-> FALSE, live |-> TRUE]
<1>1. PICK on \in {0, 1} :
       /\ row = [password |-> 1, blocked |-> FALSE, secret |-> on, confirmed |-> on = 1, counter |-> 0]
       /\ codes = 1..on
       /\ made = [passwords |-> 1, secrets |-> on, sets |-> on]
       /\ challenge = [c \in Client |-> on]
  BY DEF A!Init
<1>2. (on = 1) \in BOOLEAN /\ on \in Nat
  OBVIOUS
<1>3. row \in User /\ row.password = 1
  BY <1>1, <1>2 DEF User
<1>4. e \in Session /\ e.by = 1
  BY DEF Session
<1>5. sessions = <<e>>
  BY DEF A!Init
<1> HIDE DEF e
<1>6. sessions \in Seq(Session) /\ DOMAIN sessions = {1} /\ sessions[1] = e
  BY <1>4, <1>5
<1>7. links \in Seq(BOOLEAN)
  BY DEF A!Init
<1>8. job \in [Client -> Job] /\ \A c \in Client : job[c] = A!Idle
  BY IdleTyped DEF A!Init
<1>9. /\ used = {} /\ accepted = {} /\ hits = [k \in A!Bucket |-> 0] /\ cookie \in [Client -> {0, 1}]
      /\ clock = Drift + 1 /\ calls = 0 /\ Drift \in Nat
  BY DEF A!Init, A!AccountsAssumption
<1>10. TypeOK
  BY <1>1, <1>2, <1>3, <1>6, <1>7, <1>8, <1>9 DEF TypeOK
<1>11. ReadsCurrent
  BY <1>8, IdleTyped DEF ReadsCurrent, A!Free
<1>12. LetInIsUsed /\ A!RecoveryCodesAreSpent
  BY <1>8, <1>9, IdleTyped DEF LetInIsUsed, A!RecoveryCodesAreSpent
<1>13. A!NoSessionOutlivesItsPassword
  BY <1>3, <1>4, <1>6 DEF A!NoSessionOutlivesItsPassword
<1> QED
  BY <1>10, <1>11, <1>12, <1>13 DEF AccountsInv

LEMMA AccountsStep ==
  ASSUME A!AccountsAssumption, AccountsInv, [A!Next]_(A!vars)
  PROVE  AccountsInv'
<1>1. CASE A!Suspend \/ A!Unsuspend \/ A!Tick \/ UNCHANGED A!vars
  BY <1>1, NobodysStep
<1>2. ASSUME NEW c \in Client,
             A!AskLogin(c) \/ A!AskSecondFactor(c) \/ A!AskForgotPassword(c) \/ A!AskReset(c) \/ A!AskSettings(c)
      PROVE  AccountsInv'
  BY <1>2, AskingStep
<1>3. ASSUME NEW c \in Client,
             \/ A!LoginRefused(c) \/ A!LoginChallenged(c) \/ A!SecondFactorRefused(c) \/ A!RecoveryGone(c)
             \/ A!ForgotPassword(c) \/ A!BeginSetup(c) \/ A!ConfirmSetup(c) \/ A!NewBackupCodes(c) \/ A!Disable(c)
      PROVE  AccountsInv'
  BY <1>3, AnsweringStep
<1>4. ASSUME NEW c \in Client, A!Login(c) \/ A!Totp2fa(c) \/ A!Recovery2fa(c)
      PROVE  AccountsInv'
  BY <1>4, OpeningStep
<1>5. ASSUME NEW c \in Client, A!Logout(c) \/ A!RevokeSession(c) \/ A!RevokeOthers(c)
      PROVE  AccountsInv'
  BY <1>5, EndingStep
<1>6. ASSUME NEW c \in Client, A!ResetPassword(c) \/ A!ChangePassword(c)
      PROVE  AccountsInv'
  BY <1>6, ResetStep, ChangeStep
<1> QED
  BY <1>1, <1>2, <1>3, <1>4, <1>5, <1>6 DEF A!Next

\* For any number of browsers, any limits and any drift, of hashes with today's
\* parameters: whoever knew only an old password is signed out with it.
THEOREM PasswordsEndSessions ==
  ASSUME A!AccountsAssumption, ~Rehashes
  PROVE  A!Spec => []NoSessionOutlivesItsPassword
<1>1. A!Init => AccountsInv
  BY InitAccounts
<1>2. AccountsInv /\ [A!Next]_(A!vars) => AccountsInv'
  BY AccountsStep
<1>3. AccountsInv => NoSessionOutlivesItsPassword
  BY DEF AccountsInv, NoSessionOutlivesItsPassword
<1> QED
  BY <1>1, <1>2, <1>3, PTL DEF A!Spec

\* For any number of browsers: a recovery code that was let in lets in nobody
\* who asks afterwards.
THEOREM CodesAreSpent ==
  ASSUME A!AccountsAssumption
  PROVE  A!Spec => []RecoveryCodesAreSpent
<1>1. A!Init => AccountsInv
  BY InitAccounts
<1>2. AccountsInv /\ [A!Next]_(A!vars) => AccountsInv'
  BY AccountsStep
<1>3. AccountsInv => RecoveryCodesAreSpent
  BY DEF AccountsInv, RecoveryCodesAreSpent
<1> QED
  BY <1>1, <1>2, <1>3, PTL DEF A!Spec
=============================================================================
