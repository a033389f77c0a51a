SPECIFICATION BackgroundSpec
CONSTANTS
  p1 = p1
  p2 = p2
  Target = {p1, p2}
  Broken = {}
  Browser = {}
  Limit = 1
  MaxRequests = 0
  MaxFaults = 0
  Versions = {1, 2}
  Parts = {"signals"}
INVARIANTS
  ScansAreStored
CHECK_DEADLOCK FALSE
