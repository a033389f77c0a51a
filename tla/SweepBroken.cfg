SPECIFICATION Spec
CONSTANTS
  p1 = p1
  p2 = p2
  Target = {p1, p2}
  Broken = {p1}
  Browser = {}
  Limit = 2
  MaxRequests = 0
  MaxFaults = 0
PROPERTIES
  EveryDueTargetIsScanned
