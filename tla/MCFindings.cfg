SPECIFICATION Spec
CONSTANTS
  f1 = f1
  f2 = f2
  Finding <- MCFinding
  Manifest <- MCManifest
  FileOf <- MCFileOf
  Request = {1}
  Triggers = {"scheduled", "watched", "manual"}
INVARIANTS
  TypeOK
  ResolvedMeansGone
  VerdictIsCurrent
  ArchiveIsDated
PROPERTIES
  NotifiesOnce
  OpenedIsNews
  DismissalRespected
  LooksAtomic
