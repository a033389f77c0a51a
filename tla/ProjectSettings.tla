--------------------------- MODULE ProjectSettings ---------------------------
(***************************************************************************)
(* What an owner sets up: API keys for a project, rule profiles for the    *)
(* account, and which profile a project uses; and the scan that looks the  *)
(* profile up.  Both servers write these rows, the web server statement by *)
(* statement.  What a profile says is the subject of Policies; names, that *)
(* are unique, stand for profiles, and one that was deleted is not made    *)
(* again.                                                                  *)
(***************************************************************************)
EXTENDS Naturals, FiniteSets

CONSTANTS
  Profile,
  Request,   \* requests of the owner that may overlap
  Scan,      \* scans of the project that may overlap
  MAX_PROFILES,
  MAX_ACTIVE_KEYS_PER_TARGET

Null == "null"

SettingsAssumption ==
  /\ IsFiniteSet(Profile) /\ Null \notin Profile
  /\ IsFiniteSet(Request) /\ IsFiniteSet(Scan)
  /\ MAX_PROFILES \in Nat \ {0} /\ MAX_ACTIVE_KEYS_PER_TARGET \in Nat \ {0}

VARIABLES
  stored,     \* the rows of rule_profiles
  gone,       \* those that were deleted
  default,    \* the one marked as the account's default
  assigned,   \* tracked_targets.profile_id
  unset,      \* the default was deleted and none was chosen since
  keys,       \* active keys of the project
  request,    \* what each request has read
  scan        \* what each scan has read, what was in force meanwhile, and its choice

vars == <<stored, gone, default, assigned, unset, keys, request, scan>>

NoRequest == [of |-> "none", profile |-> Null, others |-> 0]
NoScan == [at |-> "none", seen |-> Null, inforce |-> {}, choice |-> Null]

\* The rules the project is under, as the pages show them.
InForce == [own |-> assigned, rules |-> IF assigned # Null THEN assigned ELSE default]
Watched == [s \in Scan |-> IF scan[s].at = "read" THEN [scan[s] EXCEPT !.inforce = @ \cup {InForce'}] ELSE scan[s]]

-----------------------------------------------------------------------------
(***************************************************************************)
(* Keys.  Active ones are counted, and one is added when the request ends. *)
(***************************************************************************)

\* (Variant: one too many.)
RoomForMore == keys <= MAX_ACTIVE_KEYS_PER_TARGET
RoomForOne == keys < MAX_ACTIVE_KEYS_PER_TARGET

issue_api_key(i, of) ==
  /\ request[i] = NoRequest
  /\ RoomForOne
  /\ request' = [request EXCEPT ![i] = [NoRequest EXCEPT !.of = of, !.others = keys]]
  /\ UNCHANGED <<stored, gone, default, assigned, unset, keys, scan>>

create_key(i) ==
  /\ request[i].of = "key"
  /\ keys' = keys + 1
  /\ request' = [request EXCEPT ![i] = NoRequest]
  /\ UNCHANGED <<stored, gone, default, assigned, unset, scan>>

\* Mint first, revoke second, in one transaction; the one to replace may have
\* been revoked before.
regenerate_key(i) ==
  /\ request[i].of = "rotation"
  /\ keys' \in {keys, keys + 1}
  /\ keys' = keys => keys > 0
  /\ request' = [request EXCEPT ![i] = NoRequest]
  /\ UNCHANGED <<stored, gone, default, assigned, unset, scan>>

revoke_api_key ==
  /\ keys > 0 /\ keys' = keys - 1
  /\ UNCHANGED <<stored, gone, default, assigned, unset, request, scan>>

-----------------------------------------------------------------------------
(***************************************************************************)
(* Profiles.                                                               *)
(***************************************************************************)

ReadProfiles(i, of, p) ==
  /\ request[i] = NoRequest
  /\ Cardinality(stored) < MAX_PROFILES
  /\ request' = [request EXCEPT ![i] = [of |-> of, profile |-> p, others |-> Cardinality(stored)]]
  /\ UNCHANGED <<stored, gone, default, assigned, unset, keys, scan>>

\* (Variant: the first one becomes the default only when that is asked for.)
DefaultUnasked(i) == default
\* Whoever found no profile makes the default.
DefaultWith(i) == IF request[i].others = 0 THEN request[i].profile ELSE default

\* Also when another one was first meanwhile, which then is the default no more.
create_profile(i) ==
  LET p == request[i].profile IN
  /\ request[i].of = "profile" /\ p \notin stored \cup gone
  /\ stored' = stored \cup {p}
  /\ default' = DefaultWith(i)
  /\ unset' = (unset /\ default' = Null)
  /\ request' = [request EXCEPT ![i] = NoRequest]
  /\ UNCHANGED <<gone, assigned, keys>>
  /\ scan' = Watched

\* The web server's INSERT meets uq_rule_profile_default where the other clears it.
WebCreatesProfile(i) ==
  LET p == request[i].profile IN
  /\ request[i].of = "web profile" /\ p \notin stored \cup gone
  /\ request[i].others = 0 => default = Null
  /\ stored' = stored \cup {p}
  /\ default' = DefaultWith(i)
  /\ unset' = (unset /\ default' = Null)
  /\ request' = [request EXCEPT ![i] = NoRequest]
  /\ UNCHANGED <<gone, assigned, keys>>
  /\ scan' = Watched

ProfileRefused(i) ==
  LET r == request[i] IN
  /\ r.of \in {"profile", "web profile"}
  /\ r.profile \in stored \cup gone \/ (r.of = "web profile" /\ r.others = 0 /\ default # Null)
  /\ request' = [request EXCEPT ![i] = NoRequest]
  /\ UNCHANGED <<stored, gone, default, assigned, unset, keys, scan>>

set_default(p) ==
  /\ p \in stored
  /\ default' = p /\ unset' = FALSE
  /\ UNCHANGED <<stored, gone, assigned, keys, request>>
  /\ scan' = Watched

\* Projects that use it fall back to the default (ON DELETE SET NULL).
delete_profile(p) ==
  /\ p \in stored
  /\ stored' = stored \ {p} /\ gone' = gone \cup {p}
  /\ default' = IF default = p THEN Null ELSE default
  /\ assigned' = IF assigned = p THEN Null ELSE assigned
  /\ unset' = (unset \/ default = p)
  /\ UNCHANGED <<keys, request>>
  /\ scan' = Watched

set_project_profile(p) ==
  /\ p \in stored \cup {Null}
  /\ assigned' = p
  /\ UNCHANGED <<stored, gone, default, unset, keys, request>>
  /\ scan' = Watched

-----------------------------------------------------------------------------
(***************************************************************************)
(* The scan.  It has the project's row from before, and looks the profile  *)
(* up by what that says.                                                   *)
(***************************************************************************)

ScanReads(s) ==
  /\ scan[s] = NoScan
  /\ scan' = [scan EXCEPT ![s] = [NoScan EXCEPT !.at = "read", !.seen = assigned, !.inforce = {InForce}]]
  /\ UNCHANGED <<stored, gone, default, assigned, unset, keys, request>>

\* (Variant: the account's default comes before the project's own.)
profile_for_scan_default(seen) == IF default # Null THEN default ELSE seen
profile_for_scan(seen) == IF seen \in stored THEN seen ELSE default

ScanChooses(s) ==
  /\ scan[s].at = "read"
  /\ scan' = [scan EXCEPT ![s].at = "chosen", ![s].choice = profile_for_scan(scan[s].seen)]
  /\ UNCHANGED <<stored, gone, default, assigned, unset, keys, request>>

\* `--profile`: that one, or the request is refused.
ScanAsked(s, p) ==
  /\ scan[s].at = "read" /\ p \in stored
  /\ scan' = [scan EXCEPT ![s].at = "asked", ![s].choice = p]
  /\ UNCHANGED <<stored, gone, default, assigned, unset, keys, request>>

ScanEnds(s) ==
  /\ scan[s].at # "none"
  /\ scan' = [scan EXCEPT ![s] = NoScan]
  /\ UNCHANGED <<stored, gone, default, assigned, unset, keys, request>>

-----------------------------------------------------------------------------
Init ==
  /\ stored = {} /\ gone = {} /\ default = Null /\ assigned = Null /\ unset = FALSE
  /\ keys = 0
  /\ request = [i \in Request |-> NoRequest]
  /\ scan = [s \in Scan |-> NoScan]

\* The keys and the profiles have nothing to do with one another.
KeysNext ==
  \/ revoke_api_key
  \/ \E i \in Request :
       \/ create_key(i) \/ regenerate_key(i)
       \/ \E of \in {"key", "rotation"} : issue_api_key(i, of)

ProfilesNext ==
  \/ \E i \in Request :
       \/ create_profile(i) \/ WebCreatesProfile(i) \/ ProfileRefused(i)
       \/ \E p \in Profile, of \in {"profile", "web profile"} : ReadProfiles(i, of, p)
  \/ \E p \in Profile : set_default(p) \/ delete_profile(p)
  \/ \E p \in Profile \cup {Null} : set_project_profile(p)
  \/ \E s \in Scan :
       \/ ScanReads(s) \/ ScanChooses(s) \/ ScanEnds(s)
       \/ \E p \in Profile : ScanAsked(s, p)

Next == KeysNext \/ ProfilesNext

Spec == Init /\ [][Next]_vars

-----------------------------------------------------------------------------
\* A project never has more working keys than the cap, but for the requests that
\* counted them at the same time.
KeysAreCapped == keys <= MAX_ACTIVE_KEYS_PER_TARGET + Cardinality(Request) - 1

\* A scan that was not told otherwise runs under rules that were in force while
\* it read, unless the project was given to another profile meanwhile.
RulesInForceApply ==
  \A s \in Scan :
    scan[s].at = "chosen" /\ Cardinality({x.own : x \in scan[s].inforce}) = 1
      => \E x \in scan[s].inforce : scan[s].choice = x.rules

\* Whoever makes an account's first profiles, at once or one after the other,
\* one of them applies, unless the one that did was deleted.
SomeProfileApplies == stored # {} /\ ~unset => default \in stored

\* There are rules, and they are the ones in force.
ProfilesApply == RulesInForceApply /\ SomeProfileApplies
=============================================================================
