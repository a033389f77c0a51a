SPECIFICATION Spec
CONSTANTS
  p1 = p1
  p2 = p2
  Target = {p1, p2}
  Broken = {}
  Browser = {"w1"}
  Limit = 2
  MaxRequests = 1
  MaxFaults = 0
INVARIANTS
  NewManifestIsDue
