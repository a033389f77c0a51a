------------------------------ MODULE Requests ------------------------------
(***************************************************************************)
(* What the services that answer requests promise when requests overlap,   *)
(* side by side: sign-in and sessions, the pushes to a project, the        *)
(* owner's settings, the sign-in of a terminal and the web server's scan.  *)
(***************************************************************************)

CONSTANTS
  Client, PerIp, PerAccount, PerHour, Drift, Rehashes, MaxCalls, MaxClock,   \* Accounts
  File, EcoOf, PathOf, Pusher, WebTab, api_scan_rate_limit_per_hour,         \* Projects
  Profile, Request, ScanJob, MAX_PROFILES, MAX_ACTIVE_KEYS_PER_TARGET,          \* ProjectSettings
  Terminal, Poller, Tab, MAX_TOKENS_PER_ACCOUNT, Machines, WebMachines, MaxPolls,         \* CliAuth
  Finding                                                                    \* WebScan, and WebTab

VARIABLES
  \* Accounts
  row, codes, used, sessions, links, hits, cookie, challenge, job, made, clock, calls, accepted,
  \* Projects
  target, manifests, push, runs, pushed,
  \* ProjectSettings
  stored, gone, default, assigned, unset, keys, request, scan,
  \* CliAuth
  asked, tokens, account, poll, decision, answers, polls, uncounted,
  \* WebScan
  status, verdict, web

A == INSTANCE Accounts
P == INSTANCE Projects
S == INSTANCE ProjectSettings WITH Scan <- ScanJob
C == INSTANCE CliAuth WITH request <- asked
W == INSTANCE WebScan

-----------------------------------------------------------------------------

\* Accounts: no live session was opened with a password that is not valid any
\* more, unless the two requests overlapped.
NoSessionOutlivesItsPassword == A!NoSessionOutlivesItsPassword
\* Accounts: a recovery code lets nobody in who asks after it was used.
RecoveryCodesAreSpent == A!RecoveryCodesAreSpent
\* Nowhere do overlapping requests get further past a limit than they are many:
\* pushes in an hour, keys of a project, credentials of an account.  Those the
\* web server minted since the service last counted an account's are excepted.
CapsHold == P!PushesAreRationed /\ S!KeysAreCapped /\ C!TokensAreCapped
\* Projects: what a manifest holds stays of the ecosystem it was matched in.
NothingIsReinterpreted == P!NothingIsReinterpreted
\* ProjectSettings: there are rules, and they are the ones in force.
ProfilesApply == S!ProfilesApply
\* CliAuth: a poll that reads the denial of a request mints nothing.
DeniedMeansDenied == C!DeniedMeansDenied
\* WebScan: what one scan left half done, the next one that is alone mends.
HalfScansAreMended == W!HalfScansAreMended
\* WebScan: statement by statement, the web server's scan keeps to the life of
\* a finding, and to dismissals.
WebScanKeepsTheLife == W!WebScanKeepsTheLife
=============================================================================
