------------------------------ MODULE Accounts ------------------------------
(***************************************************************************)
(* One registered account: its password, its sessions, reset links, second *)
(* factor and recovery codes, and the sign-in attempts counted against it. *)
(*                                                                         *)
(* A handler reads the account when it starts and writes when it commits,  *)
(* and requests overlap.  An assignment to a column of the account that    *)
(* leaves the value the handler had read is not part of its UPDATE; a bulk *)
(* UPDATE sees the rows of the moment it runs.  Hashing, mail and cookies' *)
(* attributes are left out.                                                *)
(***************************************************************************)
EXTENDS Naturals, FiniteSets, Sequences

CONSTANTS
  Client,         \* the browsers that may have a request in flight
  PerIp,          \* login_rate_limit_per_ip, for the address they all share
  PerAccount,     \* login_rate_limit_per_account
  PerHour,        \* password_reset_max_per_hour
  Drift,          \* DRIFT_STEPS of a code from an authenticator
  Rehashes,       \* the stored hash has older parameters than the settings
  MaxCalls,       \* bound: requests made in all
  MaxClock        \* bound: thirty-second steps

AccountsAssumption ==
  /\ IsFiniteSet(Client)
  /\ PerIp \in Nat \ {0} /\ PerAccount \in Nat \ {0} /\ PerHour \in Nat \ {0}
  /\ Drift \in Nat /\ Rehashes \in BOOLEAN
  /\ MaxCalls \in Nat /\ MaxClock \in Nat \ {0}

VARIABLES
  row,        \* the row of users; passwords and secrets are numbered as they are made
  codes,      \* the rows of backup_codes
  used,       \* the recovery codes marked as used
  sessions,   \* the rows of sessions, in the order they were opened
  links,      \* the rows of password_reset_tokens: usable or not
  hits,       \* attempts in the window, by bucket
  cookie,     \* the session each browser holds, 0 for none
  challenge,  \* the password with which each browser got its challenge, 0 for none
  job,        \* the request each browser is waiting for
  made,       \* passwords, secrets and sets of recovery codes made so far
  clock,      \* the authenticator's step
  calls,      \* requests so far
  accepted    \* history: the recovery codes let in, and those let in before each was read

stored == <<row, codes, used, sessions, links, hits>>
vars == <<stored, cookie, challenge, job, made, clock, calls, accepted>>

NoRow == [password |-> 0, blocked |-> FALSE, secret |-> 0, confirmed |-> FALSE, counter |-> 0]
NoCode == [secret |-> 0, at |-> 0]
Idle == [op |-> "idle", given |-> 0, code |-> NoCode, row |-> NoRow, codes |-> {}, used |-> {},
         known |-> {}, links |-> 0, overtaken |-> FALSE]
Bucket == {"ip", "email", "id", "reset"}

Free(c) == job[c].op = "idle"

can_sign_in == ~row.blocked
Live(i) == i \in DOMAIN sessions /\ sessions[i].live

\* Resolved from the cookie on every request.
session_user(c) == Live(cookie[c]) /\ can_sign_in

\* (Variant: one attempt too many.)
check_rate_limit_loose(bucket, limit) == hits[bucket] <= limit
check_rate_limit(bucket, limit) == hits[bucket] < limit
record_attempt(buckets) == hits' = [k \in Bucket |-> IF k \in buckets THEN hits[k] + 1 ELSE hits[k]]

create_session(s, pw, via, overtaken) ==
  Append(s, [by |-> pw, via |-> via, overtaken |-> overtaken, live |-> TRUE])
revoke(s, ended) == [i \in DOMAIN s |-> IF i \in ended THEN [s[i] EXCEPT !.live = FALSE] ELSE s[i]]
revoke_all_sessions(s) == revoke(s, DOMAIN s)

-----------------------------------------------------------------------------
\* A request is read: what it decides on is what the account is like now.
AskWith(c, op, given, code) ==
  /\ Free(c) /\ calls < MaxCalls
  /\ calls' = calls + 1
  /\ job' = [job EXCEPT ![c] = [op |-> op, given |-> given, code |-> code, row |-> row, codes |-> codes,
                                used |-> used, known |-> {a.code : a \in accepted},
                                links |-> Len(links), overtaken |-> FALSE]]
  /\ UNCHANGED <<stored, cookie, challenge, made, clock, accepted>>
Ask(c, op, given) == AskWith(c, op, given, NoCode)

\* What an authenticator with some secret shows within the drift, or a
\* recovery code of any set that was ever shown.
Totp == [secret : 0..made.secrets, at : (clock - Drift)..(clock + Drift)]
Recovery == 1..made.sets

AskLogin(c) ==
  /\ check_rate_limit("ip", PerIp) /\ check_rate_limit("email", PerAccount)
  /\ \E pw \in 0..made.passwords : Ask(c, "login", pw)

\* The account's bucket of a code is named by the id, of a password by the
\* address.
AskSecondFactor(c) ==
  /\ challenge[c] # 0 /\ row.confirmed
  /\ check_rate_limit("ip", PerIp) /\ check_rate_limit("id", PerAccount)
  /\ \/ \E code \in Totp : AskWith(c, "totp", 0, code)
     \/ \E n \in Recovery : Ask(c, "recovery", n)

AskForgotPassword(c) ==
  /\ check_rate_limit("reset", PerIp)
  /\ Ask(c, "forgot", 0)

\* Usable, and of an account that may sign in.
validate_reset_token(l) == links[l] /\ can_sign_in
AskReset(c) == \E l \in DOMAIN links : validate_reset_token(l) /\ Ask(c, "reset", l)

\* Requests from inside a session; those that would be refused are left out.
AskSettings(c) ==
  /\ session_user(c)
  /\ \/ Ask(c, "password", 0)
     \/ Ask(c, "revoke others", 0)
     \/ \E i \in DOMAIN sessions : Ask(c, "revoke one", i)
     \/ ~row.confirmed /\ Ask(c, "start", 0)
     \/ ~row.confirmed /\ row.secret # 0
          /\ \E at \in (clock - Drift)..(clock + Drift) : AskWith(c, "confirm", 0, [secret |-> row.secret, at |-> at])
     \/ row.confirmed /\ Ask(c, "codes", 0)
     \/ Ask(c, "disable", 0)

Answered(c) == job' = [job EXCEPT ![c] = Idle]
Wrong(c, buckets) ==
  /\ record_attempt(buckets)
  /\ Answered(c)
  /\ UNCHANGED <<row, codes, used, sessions, links, cookie, challenge, made, clock, calls, accepted>>

\* A new password overtakes the requests that have read the old one.
Overtake(c) ==
  job' = [b \in Client |-> IF b = c \/ Free(b) THEN [job EXCEPT ![c] = Idle][b]
                           ELSE [job[b] EXCEPT !.overtaken = TRUE]]

-----------------------------------------------------------------------------
(***************************************************************************)
(* Signing in and out.                                                     *)
(***************************************************************************)

authenticate(j) == j.given = j.row.password /\ ~j.row.blocked

LoginRefused(c) ==
  /\ job[c].op = "login" /\ ~authenticate(job[c])
  /\ Wrong(c, {"ip", "email"})

\* A hash with old parameters is replaced, by one of the password given.
Rehash(j) == row' = IF Rehashes THEN [row EXCEPT !.password = j.given] ELSE row

LoginChallenged(c) ==
  LET j == job[c] IN
  /\ j.op = "login" /\ authenticate(j) /\ j.row.confirmed
  /\ Rehash(j)
  /\ challenge' = [challenge EXCEPT ![c] = j.given]
  /\ Answered(c)
  /\ UNCHANGED <<codes, used, sessions, links, hits, cookie, made, clock, calls, accepted>>

Opened(c, pw, via) ==
  /\ sessions' = create_session(sessions, pw, via, job[c].overtaken)
  /\ cookie' = [cookie EXCEPT ![c] = Len(sessions')]
  /\ Answered(c)

Login(c) ==
  LET j == job[c] IN
  /\ j.op = "login" /\ authenticate(j) /\ ~j.row.confirmed
  /\ Rehash(j)
  /\ Opened(c, j.given, "password")
  /\ UNCHANGED <<codes, used, links, hits, challenge, made, clock, calls, accepted>>

\* The counter must be later than the last one accepted.
TotpAccepted(j) ==
  /\ j.row.secret # 0 /\ j.code.secret = j.row.secret
  /\ j.code.at > j.row.counter

\* (Variant: a recovery code stays as it is.)
consume_backup_code_kept(n) == used' = used
consume_backup_code(n) == used' = used \cup {n}

SecondFactorRefused(c) ==
  LET j == job[c] IN
  /\ \/ j.op = "totp" /\ ~TotpAccepted(j)
     \/ j.op = "recovery" /\ (j.row.secret = 0 \/ j.given \notin j.codes \ j.used)
  /\ Wrong(c, {"ip", "id"})

Totp2fa(c) ==
  LET j == job[c] IN
  /\ j.op = "totp" /\ TotpAccepted(j)
  /\ row' = [row EXCEPT !.counter = j.code.at]
  /\ Opened(c, challenge[c], "code")
  /\ challenge' = [challenge EXCEPT ![c] = 0]
  /\ UNCHANGED <<codes, used, links, hits, made, clock, calls, accepted>>

\* The code may have been used meanwhile.
Recovery2fa(c) ==
  LET j == job[c] IN
  /\ j.op = "recovery" /\ j.row.secret # 0 /\ j.given \in (j.codes \ j.used) \cap codes
  /\ consume_backup_code(j.given)
  /\ accepted' = accepted \cup {[code |-> j.given, known |-> j.known]}
  /\ Opened(c, challenge[c], "code")
  /\ challenge' = [challenge EXCEPT ![c] = 0]
  /\ UNCHANGED <<row, codes, links, hits, made, clock, calls>>

\* Its row has been deleted meanwhile: the UPDATE fails, and with it the request.
RecoveryGone(c) ==
  LET j == job[c] IN
  /\ j.op = "recovery" /\ j.row.secret # 0 /\ j.given \in (j.codes \ j.used) \ codes
  /\ Answered(c)
  /\ UNCHANGED <<stored, cookie, challenge, made, clock, calls, accepted>>

Logout(c) ==
  /\ Free(c) /\ cookie[c] # 0
  /\ sessions' = revoke(sessions, {cookie[c]})
  /\ cookie' = [cookie EXCEPT ![c] = 0]
  /\ UNCHANGED <<row, codes, used, links, hits, challenge, job, made, clock, calls, accepted>>

-----------------------------------------------------------------------------
(***************************************************************************)
(* Passwords.                                                              *)
(***************************************************************************)

\* The attempt is counted whatever comes of it.
ForgotPassword(c) ==
  LET j == job[c] IN
  /\ j.op = "forgot"
  /\ record_attempt({"reset"})
  /\ links' = IF ~j.row.blocked /\ j.links < PerHour THEN Append(links, TRUE) ELSE links
  /\ Answered(c)
  /\ UNCHANGED <<row, codes, used, sessions, cookie, challenge, made, clock, calls, accepted>>

NewPassword ==
  /\ made' = [made EXCEPT !.passwords = @ + 1]
  /\ row' = [row EXCEPT !.password = made'.passwords]

\* (Variant: nobody is signed out.)
complete_password_reset_quietly(c) ==
  /\ NewPassword
  /\ links' = [l \in DOMAIN links |-> FALSE]
  /\ sessions' = sessions

complete_password_reset(c) ==
  /\ NewPassword
  /\ links' = [l \in DOMAIN links |-> FALSE]
  /\ sessions' = revoke_all_sessions(sessions)

ResetPassword(c) ==
  /\ job[c].op = "reset"
  /\ complete_password_reset(c)
  /\ Overtake(c)
  /\ UNCHANGED <<codes, used, hits, cookie, challenge, clock, calls, accepted>>

\* The old one was given; every session ends, and this browser gets a new one.
ChangePassword(c) ==
  /\ job[c].op = "password"
  /\ NewPassword
  /\ sessions' = create_session(revoke_all_sessions(sessions), made'.passwords, "password", FALSE)
  /\ cookie' = [cookie EXCEPT ![c] = Len(sessions')]
  /\ Overtake(c)
  /\ UNCHANGED <<codes, used, links, hits, challenge, clock, calls, accepted>>

RevokeSession(c) ==
  /\ job[c].op = "revoke one"
  /\ sessions' = revoke(sessions, {job[c].given})
  /\ Answered(c)
  /\ UNCHANGED <<row, codes, used, links, hits, cookie, challenge, made, clock, calls, accepted>>

RevokeOthers(c) ==
  /\ job[c].op = "revoke others"
  /\ sessions' = revoke(sessions, DOMAIN sessions \ {cookie[c]})
  /\ Answered(c)
  /\ UNCHANGED <<row, codes, used, links, hits, cookie, challenge, made, clock, calls, accepted>>

-----------------------------------------------------------------------------
(***************************************************************************)
(* The second factor.                                                      *)
(***************************************************************************)

\* Only what differs from what was read is written: confirmed was FALSE.
BeginSetup(c) ==
  /\ job[c].op = "start"
  /\ made' = [made EXCEPT !.secrets = @ + 1]
  /\ row' = [row EXCEPT !.secret = made'.secrets]
  /\ Answered(c)
  /\ UNCHANGED <<codes, used, sessions, links, hits, cookie, challenge, clock, calls, accepted>>

regenerate_backup_codes(j) ==
  /\ made' = [made EXCEPT !.sets = @ + 1]
  /\ codes' = (codes \ j.codes) \cup {made'.sets}

ConfirmSetup(c) ==
  LET j == job[c] IN
  /\ j.op = "confirm"
  /\ row' = [row EXCEPT !.confirmed = TRUE, !.counter = j.code.at]
  /\ regenerate_backup_codes(j)
  /\ Answered(c)
  /\ UNCHANGED <<used, sessions, links, hits, cookie, challenge, clock, calls, accepted>>

NewBackupCodes(c) ==
  /\ job[c].op = "codes"
  /\ regenerate_backup_codes(job[c])
  /\ Answered(c)
  /\ UNCHANGED <<row, used, sessions, links, hits, cookie, challenge, clock, calls, accepted>>

Disable(c) ==
  LET j == job[c] IN
  /\ j.op = "disable"
  /\ row' = [row EXCEPT !.secret = IF j.row.secret = 0 THEN @ ELSE 0,
                        !.confirmed = IF j.row.confirmed THEN FALSE ELSE @,
                        !.counter = IF j.row.counter = 0 THEN @ ELSE 0]
  /\ codes' = codes \ j.codes
  /\ Answered(c)
  /\ UNCHANGED <<used, sessions, links, hits, cookie, challenge, made, clock, calls, accepted>>

-----------------------------------------------------------------------------
\* An administrator suspends the account: it keeps its sessions, which are no
\* good until the suspension is lifted.
Suspend ==
  /\ ~row.blocked
  /\ calls < MaxCalls
  /\ calls' = calls + 1
  /\ row' = [row EXCEPT !.blocked = TRUE]
  /\ UNCHANGED <<codes, used, sessions, links, hits, cookie, challenge, job, made, clock, accepted>>

Unsuspend ==
  /\ row.blocked
  /\ calls < MaxCalls
  /\ calls' = calls + 1
  /\ row' = [row EXCEPT !.blocked = FALSE]
  /\ UNCHANGED <<codes, used, sessions, links, hits, cookie, challenge, job, made, clock, accepted>>

\* Half a minute passes; the challenge of a browser may run out, the window
\* of the limits may end, an unused link expires.
Tick ==
  /\ clock < Drift + MaxClock
  /\ clock' = clock + 1
  /\ \E b \in SUBSET Client : challenge' = [c \in Client |-> IF c \in b THEN 0 ELSE challenge[c]]
  /\ hits' \in {hits, [k \in Bucket |-> 0]}
  /\ \E e \in SUBSET DOMAIN links : links' = [l \in DOMAIN links |-> links[l] /\ l \notin e]
  /\ UNCHANGED <<row, codes, used, sessions, cookie, job, made, calls, accepted>>

\* An account with a session, whose second factor is off, or on and asked for.
Init ==
  /\ \E on \in {0, 1} :
       /\ row = [password |-> 1, blocked |-> FALSE, secret |-> on, confirmed |-> on = 1, counter |-> 0]
       /\ codes = 1..on
       /\ made = [passwords |-> 1, secrets |-> on, sets |-> on]
       /\ challenge = [c \in Client |-> on]
  /\ used = {} /\ links = <<>> /\ accepted = {}
  /\ sessions = <<[by |-> 1, via |-> "password", overtaken |-> FALSE, live |-> TRUE]>>
  /\ hits = [k \in Bucket |-> 0]
  /\ cookie \in [Client -> {0, 1}]
  /\ job = [c \in Client |-> Idle]
  /\ clock = Drift + 1 /\ calls = 0

Next ==
  \/ Suspend \/ Unsuspend \/ Tick
  \/ \E c \in Client :
       \/ AskLogin(c) \/ AskSecondFactor(c) \/ AskForgotPassword(c) \/ AskReset(c) \/ AskSettings(c)
       \/ LoginRefused(c) \/ LoginChallenged(c) \/ Login(c) \/ Logout(c)
       \/ SecondFactorRefused(c) \/ Totp2fa(c) \/ Recovery2fa(c) \/ RecoveryGone(c)
       \/ ForgotPassword(c) \/ ResetPassword(c) \/ ChangePassword(c)
       \/ RevokeSession(c) \/ RevokeOthers(c)
       \/ BeginSetup(c) \/ ConfirmSetup(c) \/ NewBackupCodes(c) \/ Disable(c)

Spec == Init /\ [][Next]_vars

-----------------------------------------------------------------------------
\* Whoever knew only an old password has no session left: each live session
\* that a password opened was opened with the current one, unless the request
\* that opened it was already under way when the password changed.
NoSessionOutlivesItsPassword ==
  \A i \in DOMAIN sessions :
    sessions[i].live /\ sessions[i].via = "password" =>
      sessions[i].by = row.password \/ sessions[i].overtaken

\* A recovery code that was let in is let in again, if at all, by a request
\* that was already under way: also after codes were replaced, or the second
\* factor was switched off and on.
RecoveryCodesAreSpent == \A a \in accepted : a.code \notin a.known
=============================================================================
