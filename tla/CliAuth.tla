------------------------------- MODULE CliAuth -------------------------------
(***************************************************************************)
(* `weedout auth`: a terminal starts a request and polls it, the owner of  *)
(* an account approves or denies it in the browser, and the poll that      *)
(* finds it approved mints the token.                                      *)
(*                                                                         *)
(* A handler reads the request's row, decides on what it read, and writes  *)
(* when it commits; nothing locks the row.  In the migration deployment    *)
(* the web server answers the same requests out of the same tables, in its *)
(* own way (web/src/app/api/cli-auth and internal/cli-auth), and any step  *)
(* may be either server's.  Codes, hashing and the limits on starting and  *)
(* polling are left out.                                                   *)
(***************************************************************************)
EXTENDS Naturals, FiniteSets, Sequences

CONSTANTS
  Terminal,   \* the requests that are made
  Poller,     \* the polls that may overlap: proxies and clients retry
  Tab,        \* the owner's browser tabs
  MAX_TOKENS_PER_ACCOUNT,
  Machines,   \* bound: credentials the account has to begin with
  WebMachines, \* bound: and those the web server minted, on top of them
  MaxPolls    \* bound: polls that are not made out of fairness

CliAuthAssumption ==
  /\ IsFiniteSet(Terminal) /\ IsFiniteSet(Poller) /\ Poller # {} /\ IsFiniteSet(Tab)
  /\ MAX_TOKENS_PER_ACCOUNT \in Nat \ {0}
  /\ Machines \in 0..MAX_TOKENS_PER_ACCOUNT /\ WebMachines \in Nat
  /\ MaxPolls \in Nat

VARIABLES
  request,   \* the rows of cli_auth_requests
  tokens,    \* cli_tokens of the account, the oldest first: active or revoked
  account,   \* the owner's account exists
  poll,      \* what each poll has read
  decision,  \* what each tab is about to write
  answers,   \* what each terminal was told, tokens included
  polls,     \* polls made so far
  uncounted  \* the tokens the web server minted and no sign-in has counted since

vars == <<request, tokens, account, poll, decision, answers, polls, uncounted>>

NoRow == [row |-> FALSE, approved |-> FALSE, denied |-> FALSE, collected |-> FALSE, expired |-> FALSE]
\* A deleted row leaves nothing, but a terminal makes one request.
Deleted == [NoRow EXCEPT !.expired = TRUE]
NoPoll == [of |-> "none", web |-> FALSE, seen |-> NoRow, active |-> {}]
NoDecision == [of |-> "none", yes |-> FALSE]

is_pending(r) == r.row /\ ~r.approved /\ ~r.denied /\ ~r.collected /\ ~r.expired
Active == {i \in DOMAIN tokens : tokens[i]}

start_request(t) ==
  /\ request[t] = NoRow
  /\ request' = [request EXCEPT ![t].row = TRUE]
  /\ UNCHANGED <<tokens, account, poll, decision, answers, polls, uncounted>>

\* Ten minutes pass.
Expire(t) ==
  /\ request[t].row /\ ~request[t].expired
  /\ request' = [request EXCEPT ![t].expired = TRUE]
  /\ UNCHANGED <<tokens, account, poll, decision, answers, polls, uncounted>>

\* A day later the job deletes the row.
purge_expired_auth_requests ==
  /\ \E t \in Terminal : request[t].row /\ request[t].expired
  /\ request' = [t \in Terminal |-> IF request[t].expired THEN Deleted ELSE request[t]]
  /\ UNCHANGED <<tokens, account, poll, decision, answers, polls, uncounted>>

-----------------------------------------------------------------------------
(***************************************************************************)
(* The browser.                                                            *)
(***************************************************************************)

find_pending(b, t) ==
  /\ decision[b] = NoDecision /\ account
  /\ is_pending(request[t])
  /\ \E yes \in BOOLEAN : decision' = [decision EXCEPT ![b] = [of |-> t, yes |-> yes]]
  /\ UNCHANGED <<request, tokens, account, poll, answers, polls, uncounted>>

\* It was pending when it was read; a row deleted since is an error.
Decide(b) ==
  LET t == decision[b].of IN
  /\ decision[b] # NoDecision
  /\ decision' = [decision EXCEPT ![b] = NoDecision]
  /\ request' = IF ~request[t].row \/ ~account THEN request
                ELSE IF decision[b].yes THEN [request EXCEPT ![t].approved = TRUE]
                ELSE [request EXCEPT ![t].denied = TRUE]
  /\ UNCHANGED <<tokens, account, poll, answers, polls, uncounted>>

\* The web server's two routes: one statement that reads and writes.
WebDecide(t) ==
  /\ account
  /\ request[t].row /\ ~request[t].approved /\ ~request[t].denied /\ ~request[t].expired
  /\ request' \in {[request EXCEPT ![t].approved = TRUE], [request EXCEPT ![t].denied = TRUE]}
  /\ UNCHANGED <<tokens, account, poll, decision, answers, polls, uncounted>>

revoke_token(i) ==
  /\ i \in Active /\ account
  /\ tokens' = [tokens EXCEPT ![i] = FALSE]
  /\ UNCHANGED <<request, account, poll, decision, answers, polls, uncounted>>

\* An administrator deletes the account: its tokens go, and so do the requests
\* it approved.
DeleteAccount ==
  /\ account
  /\ account' = FALSE
  /\ tokens' = [i \in DOMAIN tokens |-> FALSE]
  /\ request' = [t \in Terminal |-> IF request[t].approved THEN Deleted ELSE request[t]]
  /\ UNCHANGED <<poll, decision, answers, polls, uncounted>>

-----------------------------------------------------------------------------
(***************************************************************************)
(* The poll.                                                               *)
(***************************************************************************)

\* (Variant: the approval is looked at before the denial.)
StateApprovedFirst(r) ==
  CASE ~r.row \/ r.collected \/ r.expired -> "expired"
    [] r.row /\ ~r.collected /\ ~r.expired /\ r.approved -> "approved"
    [] r.row /\ ~r.collected /\ ~r.expired /\ ~r.approved /\ r.denied -> "denied"
    [] OTHER -> "pending"
\* (Variant: nothing ever expires.)
StateForever(r) ==
  IF ~r.row \/ r.collected THEN "expired" ELSE IF r.denied THEN "denied"
  ELSE IF r.approved THEN "approved" ELSE "pending"

State(r) ==
  CASE ~r.row -> "expired"
    [] r.row /\ r.denied -> "denied"
    [] r.row /\ ~r.denied /\ (r.collected \/ r.expired) -> "expired"
    [] r.row /\ ~r.denied /\ ~r.collected /\ ~r.expired /\ r.approved -> "approved"
    [] OTHER -> "pending"

\* The web server looks whether the request has ended before whether it was
\* denied.
WebState(r) ==
  CASE ~r.row \/ r.collected \/ r.expired -> "expired"
    [] r.row /\ ~r.collected /\ ~r.expired /\ r.denied -> "denied"
    [] r.row /\ ~r.collected /\ ~r.expired /\ ~r.denied /\ r.approved -> "approved"
    [] OTHER -> "pending"

Found(q) == IF q.web THEN WebState(q.seen) ELSE State(q.seen)

\* A terminal that was told to stop polls no more, but a poll may be repeated.
Waiting(t) == \A a \in answers[t] : a.state = "pending"

\* The account's tokens are looked up only to mint one, and not by the web
\* server.
PollReads(p, t) ==
  /\ poll[p] = NoPoll
  /\ \E web \in BOOLEAN :
       poll' = [poll EXCEPT ![p] =
         [of |-> t, web |-> web, seen |-> request[t],
          active |-> IF ~web /\ State(request[t]) = "approved" THEN Active ELSE {}]]
  /\ UNCHANGED <<request, tokens, account, decision, answers, uncounted>>

Poll(p, t) == Waiting(t) /\ PollReads(p, t) /\ UNCHANGED polls
PollAgain(p, t) ==
  /\ answers[t] # {} /\ polls < MaxPolls
  /\ PollReads(p, t)
  /\ polls' = polls + 1

Tell(p, state, token) ==
  /\ answers' = [answers EXCEPT ![poll[p].of] = @ \cup {[state |-> state, token |-> token]}]
  /\ poll' = [poll EXCEPT ![p] = NoPoll]

Answer(p) ==
  /\ poll[p] # NoPoll /\ Found(poll[p]) # "approved"
  /\ Tell(p, Found(poll[p]), 0)
  /\ UNCHANGED <<request, tokens, account, decision, polls, uncounted>>

\* (Variant: as many stay as the cap allows, before the new one.)
EvictedLate(active) == {i \in active : Cardinality({k \in active : k > i}) >= MAX_TOKENS_PER_ACCOUNT}
\* The oldest active ones beyond the cap are revoked, then one is added.
Evicted(active) == {i \in active : Cardinality({k \in active : k > i}) >= MAX_TOKENS_PER_ACCOUNT - 1}

issue_token(p) ==
  Append([i \in DOMAIN tokens |-> tokens[i] /\ i \notin Evicted(poll[p].active)], TRUE)

\* What counted the account's tokens has counted those of the web server too.
collect(p) ==
  LET t == poll[p].of IN
  /\ poll[p] # NoPoll /\ ~poll[p].web /\ Found(poll[p]) = "approved"
  /\ account /\ request[t].row
  /\ tokens' = issue_token(p)
  /\ uncounted' = uncounted \ poll[p].active
  /\ request' = [request EXCEPT ![t].collected = TRUE]
  /\ Tell(p, "approved", Len(tokens'))
  /\ UNCHANGED <<account, decision, polls>>

\* The account went away: nothing to issue against.
OwnerGone(p) ==
  /\ poll[p] # NoPoll /\ ~poll[p].web /\ Found(poll[p]) = "approved"
  /\ ~account
  /\ Tell(p, "expired", 0)
  /\ UNCHANGED <<request, tokens, account, decision, polls, uncounted>>

\* The web server counts nothing and revokes nothing, and mints also when the
\* request is not there to be marked any more.
WebCollect(p) ==
  LET t == poll[p].of IN
  /\ poll[p] # NoPoll /\ poll[p].web /\ Found(poll[p]) = "approved"
  /\ account
  /\ tokens' = Append(tokens, TRUE)
  /\ uncounted' = uncounted \cup {Len(tokens')}
  /\ request' = IF request[t].row THEN [request EXCEPT ![t].collected = TRUE] ELSE request
  /\ Tell(p, "approved", Len(tokens'))
  /\ UNCHANGED <<account, decision, polls>>

\* An error, and nothing is written: a row to be marked that is not there, or a
\* token of no account.
PollFails(p) ==
  /\ poll[p] # NoPoll /\ Found(poll[p]) = "approved"
  /\ IF poll[p].web THEN ~account ELSE account /\ ~request[poll[p].of].row
  /\ poll' = [poll EXCEPT ![p] = NoPoll]
  /\ UNCHANGED <<request, tokens, account, decision, answers, polls, uncounted>>

PollEnds(p) == Answer(p) \/ collect(p) \/ OwnerGone(p) \/ WebCollect(p) \/ PollFails(p)

-----------------------------------------------------------------------------
Init ==
  /\ request = [t \in Terminal |-> NoRow]
  /\ tokens = [i \in 1..(Machines + WebMachines) |-> TRUE]
  /\ account = TRUE
  /\ poll = [p \in Poller |-> NoPoll]
  /\ decision = [b \in Tab |-> NoDecision]
  /\ answers = [t \in Terminal |-> {}]
  /\ polls = 0
  /\ uncounted = (Machines + 1)..(Machines + WebMachines)

Next ==
  \/ purge_expired_auth_requests \/ DeleteAccount
  \/ \E t \in Terminal : start_request(t) \/ Expire(t) \/ WebDecide(t)
  \/ \E b \in Tab : Decide(b) \/ \E t \in Terminal : find_pending(b, t)
  \/ \E i \in DOMAIN tokens : revoke_token(i)
  \/ \E p \in Poller :
       \/ PollEnds(p)
       \/ \E t \in Terminal : Poll(p, t) \/ PollAgain(p, t)

\* Time passes, a poll that was read is answered, and a terminal keeps polling
\* until it is told something else than to wait.
Fairness ==
  /\ \A t \in Terminal : WF_vars(Expire(t))
  /\ \A t \in Terminal : SF_vars(\E p \in Poller : Poll(p, t))
  /\ \A p \in Poller : WF_vars(PollEnds(p))

Spec == Init /\ [][Next]_vars /\ Fairness

-----------------------------------------------------------------------------
\* No is no: a poll that reads a request after its denial was written mints
\* nothing, also when an approval was written next to it.
DeniedMeansDenied ==
  [][\A p \in Poller : poll[p].seen.denied /\ poll'[p] # poll[p] => Len(tokens') = Len(tokens)]_vars

\* Whichever server answered before it, a sign-in that counts leaves an account
\* no more working credentials than the cap allows, but for the polls that
\* counted at the same time: what the web server has minted since is all there
\* is besides.
TokensAreCapped ==
  Cardinality(Active \ uncounted) <= MAX_TOKENS_PER_ACCOUNT + Cardinality(Poller) - 1

\* Whatever is decided or not, deleted or expired, a terminal that started a
\* request is told to stop, or given its token.
TerminalStops == \A t \in Terminal : request[t].row ~> ~Waiting(t)
=============================================================================
