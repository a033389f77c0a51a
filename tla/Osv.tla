-------------------------------- MODULE Osv ---------------------------------
(***************************************************************************)
(* app/core/osv.py and core/cvss.py: what an advisory record of the feed   *)
(* comes to.  A record stands here for what the JSON holds once everything *)
(* of the wrong type is gone.  Scores are in tenths, and what the formula  *)
(* of CVSS 3 makes of a vector is given with it.  The texts, references,   *)
(* weaknesses and dates are left out.                                      *)
(***************************************************************************)
EXTENDS Triage

Supported == {"npm", "PyPI", "Go", "crates.io", "Maven"}

\* The types of a range whose versions can be compared; not GIT.
VERSION_RANGE_TYPES == {"SEMVER", "ECOSYSTEM"}

-----------------------------------------------------------------------------
(* _pair_range_events.  The version 0 of an introduction is no bound at all *)
(* for in_range, and is None here.                                          *)

AffectedRange(introduced, fixed, last_affected) ==
    [introduced |-> introduced, fixed |-> fixed, last_affected |-> last_affected]

NoWindow == [ranges |-> << >>, open |-> FALSE, introduced |-> None]

Unbounded(s) == IF s.open THEN Append(s.ranges, AffectedRange(s.introduced, None, None))
                ELSE s.ranges

\* (Variant: a second introduction forgets the window of the first.)
TakeForgetting(s, event) ==
    CASE event.kind = "introduced" -> [s EXCEPT !.open = TRUE, !.introduced = event.version]
      [] event.kind \in {"fixed", "last_affected"} /\ s.open ->
            [NoWindow EXCEPT !.ranges = Append(s.ranges,
                IF event.kind = "fixed"
                THEN AffectedRange(s.introduced, event.version, None)
                ELSE AffectedRange(s.introduced, None, event.version))]
      [] OTHER -> s

\* What one event does to the windows found so far and the one that is open.
Take(s, event) ==
    CASE event.kind = "introduced" ->
            [ranges |-> Unbounded(s), open |-> TRUE, introduced |-> event.version]
      [] event.kind \in {"fixed", "last_affected"} /\ s.open ->
            [NoWindow EXCEPT !.ranges = Append(s.ranges,
                IF event.kind = "fixed"
                THEN AffectedRange(s.introduced, event.version, None)
                ELSE AffectedRange(s.introduced, None, event.version))]
      [] OTHER -> s

PairRangeEvents(events) == Unbounded(FoldLeft(Take, NoWindow, events))

\* An entry for another ecosystem, and one that says nothing of versions,
\* is left out.
ParseAffected(raw) ==
    LET RangesIn(entry) ==
            LET read == Kept(entry.ranges, {i \in DOMAIN entry.ranges :
                                               entry.ranges[i].type \in VERSION_RANGE_TYPES})
            IN  FlattenSeq([i \in DOMAIN read |-> PairRangeEvents(read[i].events)])
        Read(entry) == [ecosystem |-> entry.ecosystem, name |-> entry.name,
                        ranges |-> RangesIn(entry), versions |-> entry.versions]
        Usable(entry) == /\ entry.ecosystem \in Supported
                         /\ RangesIn(entry) # << >> \/ entry.versions # {}
        usable == Kept(raw, {i \in DOMAIN raw : Usable(raw[i])})
    IN  [i \in DOMAIN usable |-> Read(usable[i])]

-----------------------------------------------------------------------------
(* Severity *)

ScoreToSeverity(score) ==
    CASE score >= 90 -> "critical"
      [] score \in 70 .. 89 -> "high"
      [] score \in 40 .. 69 -> "medium"
      [] score \in 1 .. 39 -> "low"
      [] OTHER -> "unknown"

\* The vocabularies of the publishers.
LabelToSeverity(label) ==
    CASE label = "CRITICAL" -> "critical"
      [] label \in {"HIGH", "IMPORTANT"} -> "high"
      [] label \in {"MEDIUM", "MODERATE"} -> "medium"
      [] label \in {"LOW", "MINOR", "NEGLIGIBLE"} -> "low"
      [] OTHER -> "unknown"

\* What an entry can be judged by: a vector of CVSS 3 that is complete, or a
\* bare number in range.
Scorable(entry) == entry.kind \in {"v3", "number"} /\ entry.score \in 0 .. 100

\* The highest score decides; a label is asked only when there is none.
NormalizeSeverity(entries, label) ==
    LET scores == {entries[i].score : i \in {j \in DOMAIN entries : Scorable(entries[j])}}
    IN  IF scores # {} THEN ScoreToSeverity(Max(scores)) ELSE LabelToSeverity(label)

-----------------------------------------------------------------------------
(* normalize_osv_record: None when there is nothing to match against. *)
NormalizeOsvRecord(record) ==
    LET affected == ParseAffected(record.affected)
    IN  IF affected = << >> THEN None
        ELSE [id |-> record.id, aliases |-> record.aliases, cves |-> record.cves,
              mal |-> record.mal, withdrawn |-> record.withdrawn,
              severity |-> NormalizeSeverity(record.severity, record.label),
              affected |-> affected]
=============================================================================
