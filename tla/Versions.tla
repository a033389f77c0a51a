------------------------------ MODULE Versions ------------------------------
(***************************************************************************)
(* app/core/versions.py: how a version is compared with the bounds of an   *)
(* advisory, and which version the reader is told to upgrade to.           *)
(*                                                                         *)
(* A raw version is what is left of the text once it is split: the leading *)
(* numbers, and the tokens behind them, each a number or a word.  A word   *)
(* is its place in Words, which lists in alphabetical order the qualifiers *)
(* the code knows by name and two it does not.  The packaging library      *)
(* orders PyPI's; of those only releases are used, which SemVer orders so. *)
(***************************************************************************)
EXTENDS Lists, FiniteSetsExt, SequencesExt

ASSUME NoneAssumption == None \notin Nat

Words == << "a", "alpha", "b", "beta", "cr", "final", "ga", "jre", "m",
            "milestone", "rc", "release", "snapshot", "sp", "zz" >>

Number(n) == [num |-> TRUE, val |-> n]
Word(w) == [num |-> FALSE, val |-> CHOOSE i \in DOMAIN Words : Words[i] = w]

\* ok: the text parses; v and incompatible: the prefix and the suffix that
\* normalize drops for some ecosystems.
Raw(nums, tail) ==
    [ok |-> TRUE, v |-> FALSE, incompatible |-> FALSE, nums |-> nums, tail |-> tail]

Sign(n) == IF n < 0 THEN -1 ELSE IF n > 0 THEN 1 ELSE 0

\* What the first position at which the two sides differ says.
FirstSign(signs) ==
    LET differ == {i \in DOMAIN signs : signs[i] # 0}
    IN  IF differ = {} THEN 0 ELSE signs[Min(differ)]

Longer(a, b) == IF Len(a) > Len(b) THEN Len(a) ELSE Len(b)
Shorter(a, b) == IF Len(a) < Len(b) THEN Len(a) ELSE Len(b)
Padded(s, i) == IF i \in DOMAIN s THEN s[i] ELSE 0

-----------------------------------------------------------------------------
(* SemVer: npm, Go and crates.io *)

CompareRelease(a, b) ==
    FirstSign([i \in 1 .. Longer(a, b) |-> Sign(Padded(a, i) - Padded(b, i))])

CompareIdent(x, y) ==
    IF x.num = y.num THEN Sign(x.val - y.val) ELSE IF x.num THEN -1 ELSE 1

\* (Variant: only the parts both have are compared.)
ComparePrereleaseShared(a, b) ==
    IF a = << >> \/ b = << >> THEN Sign(Len(b) - Len(a))
    ELSE FirstSign([i \in 1 .. Shorter(a, b) |-> CompareIdent(a[i], b[i])])

ComparePrerelease(a, b) ==
    LET shared == FirstSign([i \in 1 .. Shorter(a, b) |-> CompareIdent(a[i], b[i])])
    IN  IF a = << >> \/ b = << >> THEN Sign(Len(b) - Len(a))
        ELSE IF shared # 0 THEN shared ELSE Sign(Len(a) - Len(b))

SemVerCompare(a, b) ==
    LET release == CompareRelease(a.nums, b.nums)
    IN  IF release # 0 THEN release ELSE ComparePrerelease(a.tail, b.tail)

-----------------------------------------------------------------------------
(* Maven *)

ReleaseRank == 5

MavenRank(word) ==
    CASE Words[word] \in {"a", "alpha"}     -> 0
      [] Words[word] \in {"b", "beta"}      -> 1
      [] Words[word] \in {"m", "milestone"} -> 2
      [] Words[word] \in {"cr", "rc"}       -> 3
      [] Words[word] = "snapshot"           -> 4
      [] Words[word] \in {"ga", "final", "release"} -> ReleaseRank
      [] Words[word] = "sp"                 -> 6
      [] OTHER                              -> 7

\* <<kind, rank or number, text>>: a word is tagged 1 so that it never meets
\* a number on equal terms.
MavenTokens(raw) ==
    [i \in DOMAIN raw.nums |-> << 0, raw.nums[i], 0 >>] \o
    [i \in DOMAIN raw.tail |->
        IF raw.tail[i].num THEN << 0, raw.tail[i].val, 0 >>
        ELSE << 1, MavenRank(raw.tail[i].val), raw.tail[i].val >>]

MavenIsNull(token) == \/ token[1] = 0 /\ token[2] = 0
                      \/ token[1] = 1 /\ token[2] = ReleaseRank

MavenTrim(tokens) ==
    LET kept == {i \in DOMAIN tokens : ~ MavenIsNull(tokens[i])}
    IN  SubSeq(tokens, 1, Max(kept \union {0}))

MavenTokenAt(mine, theirs, i) ==
    IF i \in DOMAIN mine THEN mine[i]
    ELSE IF theirs[i][1] = 0 THEN << 0, 0, 0 >> ELSE << 1, ReleaseRank, 0 >>

MavenCompareTokens(one, two) ==
    IF one[1] # two[1] THEN (IF one[1] = 0 THEN 1 ELSE -1)
    ELSE IF one[2] # two[2] THEN Sign(one[2] - two[2])
    ELSE Sign(one[3] - two[3])

MavenCompare(left, right) ==
    LET a == MavenTrim(MavenTokens(left))
        b == MavenTrim(MavenTokens(right))
    IN  FirstSign([i \in 1 .. Longer(a, b) |->
                       MavenCompareTokens(MavenTokenAt(a, b, i), MavenTokenAt(b, a, i))])

-----------------------------------------------------------------------------
(* What the rest of the program asks *)

normalize(ecosystem, raw) ==
    [raw EXCEPT !.v = IF ecosystem \in {"npm", "Go"} THEN FALSE ELSE @,
                !.incompatible = IF ecosystem = "Go" THEN FALSE ELSE @]

Parses(raw) == raw.ok

compare(ecosystem, left, right) ==
    IF ecosystem = "Maven" THEN MavenCompare(left, right)
    ELSE SemVerCompare(normalize(ecosystem, left), normalize(ecosystem, right))

\* A range whose bound cannot be read is skipped by version_matches, so it
\* contains nothing.  A fix outranks the last affected version.
in_range(ecosystem, version, rng) ==
    /\ rng.introduced # None => /\ Parses(rng.introduced)
                                /\ compare(ecosystem, version, rng.introduced) >= 0
    /\ IF rng.fixed # None
       THEN Parses(rng.fixed) /\ compare(ecosystem, version, rng.fixed) < 0
       ELSE rng.last_affected # None =>
                /\ Parses(rng.last_affected)
                /\ compare(ecosystem, version, rng.last_affected) <= 0

version_matches(ecosystem, version, affected) ==
    /\ Parses(version)
    /\ \/ \E candidate \in affected.versions :
              normalize(ecosystem, candidate) = normalize(ecosystem, version)
       \/ \E i \in DOMAIN affected.ranges : in_range(ecosystem, version, affected.ranges[i])

\* The lowest fix among the ranges at the positions some, the first of the
\* lowest; sign says how the fixes of two positions compare.
LowestFix(ranges, some, sign) ==
    LET Lower(lowest, i) ==
            IF i \notin some THEN lowest
            ELSE IF lowest = 0 \/ sign[<< i, lowest >>] < 0 THEN i ELSE lowest
    IN  IF some = {} THEN None
        ELSE ranges[FoldLeft(Lower, 0, [i \in DOMAIN ranges |-> i])].fixed

FixSigns(ecosystem, ranges, some) ==
    [p \in some \X some |-> compare(ecosystem, ranges[p[1]].fixed, ranges[p[2]].fixed)]

\* (Variant: fixes at or below the installed version count, too.)
first_fixed_version_any(ecosystem, version, affected) ==
    LET some == {i \in DOMAIN affected.ranges : affected.ranges[i].fixed # None}
    IN  LowestFix(affected.ranges, some, FixSigns(ecosystem, affected.ranges, some))

first_fixed_version(ecosystem, version, affected) ==
    LET Above(rng) == /\ rng.fixed # None
                      /\ Parses(rng.fixed)
                      /\ compare(ecosystem, rng.fixed, version) > 0
        above == {i \in DOMAIN affected.ranges : Above(affected.ranges[i])}
    IN  LowestFix(affected.ranges, above, FixSigns(ecosystem, affected.ranges, above))
=============================================================================
