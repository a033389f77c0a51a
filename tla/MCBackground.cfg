SPECIFICATION BackgroundSpec
CONSTANTS
  p1 = p1
  p2 = p2
  Target = {p1, p2}
  Broken = {}
  Browser = {"w1"}
  Limit = 1
  MaxRequests = 2
  MaxFaults = 1
  Versions = {1, 2}
  Parts = {"sweep", "sign-in", "signals"}
INVARIANTS
  TypeOK
  ScansExclude
PROPERTIES
  SweepComesRound
  TerminalStops
  BadPackagesAreShown
CHECK_DEADLOCK FALSE
