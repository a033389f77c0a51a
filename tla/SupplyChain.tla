---------------------------- MODULE SupplyChain -----------------------------
(***************************************************************************)
(* app/core/supply_chain.py: which names imitate a popular package, and    *)
(* what the facts of a registry say.  A name is a sequence of letters,     *)
(* because how far two names are apart is what the code is about; it is    *)
(* already in lower case.  The sentences shown to the reader are left out. *)
(***************************************************************************)
EXTENDS Lists, FiniteSetsExt

CONSTANTS MIN_LENGTH,    \* names shorter than this are not judged, 5 in the code
          Popular,       \* POPULAR of the ecosystem
          KnownDistinct, \* KNOWN_DISTINCT of it
          SEPARATORS,    \* - _ and .
          CONFUSABLE     \* sets of two letters that look alike

Signal(kind, level, reason) == [kind |-> kind, level |-> level, reason |-> reason]

-----------------------------------------------------------------------------
(* Names *)

Abs(n) == IF n < 0 THEN -n ELSE n

\* (Variant: a letter that was added is not considered.)
NextRowWithout(previous, i, letter, right) ==
    [j \in 0 .. Len(right) |->
        IF j = 0 THEN i
        ELSE Min({previous[j] + 1, previous[j - 1] + (IF letter = right[j] THEN 0 ELSE 1)})]

\* Row i of the table, made of the one before it and from left to right; row 0
\* is the prefixes of right on their own.
NextRow(previous, i, letter, right) ==
    LET row[j \in 0 .. Len(right)] ==
            IF j = 0 THEN i
            ELSE Min({previous[j] + 1, row[j - 1] + 1,
                      previous[j - 1] + (IF letter = right[j] THEN 0 ELSE 1)})
    IN  row

\* The number of edits, or limit + 1 when the lengths or a whole row say that
\* there are more.
edit_distance(left, right, limit) ==
    LET n == Len(right)
        rows[i \in 0 .. Len(left)] ==
            IF i = 0 THEN [j \in 0 .. n |-> j] ELSE NextRow(rows[i - 1], i, left[i], right)
        Over(i) == \A j \in 0 .. n : rows[i][j] > limit
    IN  IF left = right THEN 0
        ELSE IF Abs(Len(left) - n) > limit \/ \E i \in 1 .. Len(left) : Over(i) THEN limit + 1
        ELSE rows[Len(left)][n]

Canonical(name) == Kept(name, {i \in DOMAIN name : name[i] \notin SEPARATORS})

Differences(left, right) == {i \in DOMAIN left : left[i] # right[i]}

IsConfusableSwap(left, right) ==
    /\ Len(left) = Len(right)
    /\ \E i \in DOMAIN left : /\ Differences(left, right) = {i}
                              /\ {left[i], right[i]} \in CONFUSABLE

IsTransposition(left, right) ==
    /\ Len(left) = Len(right)
    /\ \E i \in 1 .. Len(left) - 1 :
          /\ Differences(left, right) = {i, i + 1}
          /\ left[i] = right[i + 1] /\ left[i + 1] = right[i]

Shape(left, right) ==
    CASE IsTransposition(left, right) -> "transposition"
      [] IsConfusableSwap(left, right) -> "confusable"
      [] OTHER -> IF Len(left) # Len(right) THEN "length" ELSE "substitution"

\* How a name resembles one popular name, None when it does not.
Resembles(name, target) ==
    LET mine == Canonical(name)
        theirs == Canonical(target)
        distance == edit_distance(mine, theirs, 2)
        shape == Shape(mine, theirs)
    IN  IF mine = theirs THEN Signal("typosquat", "concerning", "separator")
        ELSE IF distance > 2 \/ (distance = 2 /\ shape # "transposition") THEN None
        ELSE Signal("typosquat",
                    IF shape = "substitution" THEN "notable" ELSE "concerning", shape)

\* A set of names has no order: the signal is that of whichever popular name
\* comes first of those it resembles.
check_typosquat(name, scoped) ==
    IF name \in Popular \union KnownDistinct \/ scoped \/ Len(name) < MIN_LENGTH
    THEN {None}
    ELSE LET found == {Resembles(name, target) : target \in Popular} \ {None}
         IN  IF found = {} THEN {None} ELSE found

-----------------------------------------------------------------------------
(* assess_facts.  None is what the registry did not say. *)

UNMAINTAINED_AFTER_DAYS == 730

assess_facts(facts) ==
    (IF facts.deprecated
     THEN {Signal("unmaintained", "concerning", "deprecated")}
     ELSE IF /\ facts.days_since_release # None
             /\ facts.days_since_release >= UNMAINTAINED_AFTER_DAYS
     THEN {Signal("unmaintained", "notable", "age")} ELSE {})
    \union
    (IF facts.maintainer_count = 1
     THEN {Signal("single_maintainer", "informational", "count")} ELSE {})
    \union
    (IF facts.has_provenance = None THEN {}
     ELSE {Signal(IF facts.has_provenance THEN "provenance_verified" ELSE "provenance_missing",
                  "informational", "provenance")})
=============================================================================
