------------------------------ MODULE Policies ------------------------------
(***************************************************************************)
(* app/core/policy.py, services/rules_service.py and the scan's half of    *)
(* services/profile_service.py: what a .weedout.yml, a profile and a       *)
(* project's settings come to.                                             *)
(*                                                                         *)
(* A document is what the YAML reader made of the text.  A value the       *)
(* parser refuses is Bad; the warnings it writes are left out, what it     *)
(* skips is not.                                                           *)
(***************************************************************************)
EXTENDS Triage

CONSTANT Bad    \* a value of the wrong kind, or no word the parser knows

Thresholds == {"low", "medium", "high", "critical"}

\* The globs that match every name.
MATCHES_EVERYTHING == {"*", "**", "?*", "*?"}

EmptyPolicy ==
    [direct_threshold |-> None, transitive_threshold |-> None, dev_threshold |-> None,
     epss_threshold |-> None, ignores |-> {}, profile |-> None, error |-> FALSE]

BrokenPolicy == [EmptyPolicy EXCEPT !.error = TRUE]

-----------------------------------------------------------------------------
(* parse_policy *)

ReadSeverity(raw) == IF raw \in Thresholds THEN raw ELSE None

\* In hundredths.  Up to one it is read as it stands, above one as a
\* percentage, and what then is not in (0, 1] is skipped.
ReadEpss(raw) ==
    IF raw \in {None, Bad} THEN None
    ELSE LET value == IF raw > 100 THEN raw \div 100 ELSE raw
         IN  IF 0 < value /\ value <= 100 THEN value ELSE None

ReadProfile(raw) == IF raw = Bad THEN None ELSE raw

\* The entry one item of the list stands for, None when it is skipped.
ReadOneIgnore(raw) ==
    LET subject == IF raw.package # None THEN raw.package ELSE raw.cve
        kind == IF raw.package # None THEN "package" ELSE "advisory"
    IN  IF \/ raw.cve # None /\ raw.package # None
           \/ subject \in {None, Bad} \union MATCHES_EVERYTHING
           \/ raw.reason = None
        THEN None
        ELSE [kind |-> kind, identifier |-> subject]

\* What is listed twice counts once; the order decides nothing.
ReadIgnores(block) == {ReadOneIgnore(raw) : raw \in ToSet(block)} \ {None}

\* A document is missing, unreadable, or a mapping with these keys.
parse_policy(document) ==
    IF document = None THEN EmptyPolicy
    ELSE IF document = Bad THEN BrokenPolicy
    ELSE [direct_threshold |-> ReadSeverity(document.direct),
          transitive_threshold |-> ReadSeverity(document.transitive),
          dev_threshold |-> ReadSeverity(document.dev),
          epss_threshold |-> ReadEpss(document.epss),
          ignores |-> ReadIgnores(document.ignore),
          profile |-> ReadProfile(document.profile),
          error |-> FALSE]

IdentifiersOf(policy, kind) ==
    {entry.identifier : entry \in {e \in policy.ignores : e.kind = kind}}

-----------------------------------------------------------------------------
(* A project's own rules and thresholds, as its settings and the API take  *)
(* them: what a form asks for, or nothing when it is refused.              *)

NewProject ==
    [direct_threshold |-> None, transitive_threshold |-> None, dev_threshold |-> None,
     epss_threshold |-> None, rules |-> [advisory |-> {}, package |-> {}]]

\* A client that sends no kind means an advisory.
IgnoreKind(raw) == IF raw = None THEN "advisory" ELSE raw

\* The form is refused: what it names is empty, of the wrong shape or
\* everything there is, or it gives no reason.
Refused(form) ==
    \/ form.kind = Bad \/ form.reason = None \/ form.identifier \in {None, Bad}
    \/ IgnoreKind(form.kind) = "package" /\ form.identifier \in MATCHES_EVERYTHING

\* What is ignored already stays as it is.
add_project_rule(target, form) ==
    IF Refused(form) THEN target
    ELSE [target EXCEPT !.rules[IgnoreKind(form.kind)] = @ \union {form.identifier}]

\* Any severity is accepted, "unknown" among them.  The likelihood is checked
\* as a percentage and stored as it is, although the policy reads a probability:
\* in hundredths, a hundred times what the owner asked for.
set_project_thresholds(target, body) ==
    IF \/ ~ ({body.direct, body.transitive} \subseteq Severities \union {None})
       \/ body.epss # None /\ body.epss \notin 0 .. 100
    THEN target
    ELSE [target EXCEPT !.direct_threshold = body.direct,
                        !.transitive_threshold = body.transitive,
                        !.epss_threshold = IF body.epss = None THEN None ELSE 100 * body.epss]

-----------------------------------------------------------------------------
(* The layers *)

\* create_profile and update_profile refuse what cannot be read, and a
\* profile that names a profile.
Acceptable(document) ==
    LET parsed == parse_policy(document) IN ~ parsed.error /\ parsed.profile = None

\* The profile asked for, else the one assigned to the project, else the
\* account's default: a slug, None when nothing applies, or Bad when the one
\* asked for is not there.  profiles maps the account's slugs to documents.
profile_for_scan(profiles, requested, assigned, default) ==
    IF requested # None
    THEN IF requested \in DOMAIN profiles THEN requested ELSE Bad
    ELSE IF assigned \in DOMAIN profiles THEN assigned
    ELSE IF default \in DOMAIN profiles THEN default ELSE None

FirstSet(a, b, c, d) ==
    IF a # None THEN a ELSE IF b # None THEN b ELSE IF c # None THEN c ELSE d

\* target: the project's row (its file, its settings, its rules).  file and
\* profile are parsed; base is the policy of the product and the plan.
LayeredPolicy(base, file, target, profile) ==
    LET Ignored(kind) == target.rules[kind] \union IdentifiersOf(file, kind)
                            \union IdentifiersOf(profile, kind)
    IN  [base EXCEPT
          !.direct_threshold = FirstSet(file.direct_threshold, target.direct_threshold,
                                        profile.direct_threshold, @),
          !.transitive_threshold = FirstSet(file.transitive_threshold,
                                            target.transitive_threshold,
                                            profile.transitive_threshold, @),
          !.dev_threshold = FirstSet(file.dev_threshold, target.dev_threshold,
                                     profile.dev_threshold, @),
          !.epss_threshold = FirstSet(file.epss_threshold, target.epss_threshold,
                                      profile.epss_threshold, None),
          !.ignored_ids = Ignored("advisory"),
          !.ignored_packages = Ignored("package")]

\* Bad when the scan is refused because the profile does not exist.
build_policy(target, profiles, assigned, default, requested) ==
    LET file == parse_policy(target.policy_file)
        asked == IF requested # None THEN requested ELSE file.profile
        slug == profile_for_scan(profiles, asked, assigned, default)
    IN  IF slug = Bad THEN Bad
        ELSE LayeredPolicy(DefaultPolicy, file, target,
                 IF slug = None THEN EmptyPolicy ELSE parse_policy(profiles[slug]))
=============================================================================
