SPECIFICATION Spec
CONSTANTS
  p1 = p1
  p2 = p2
  Target = {p1, p2}
  Broken = {p2}
  Browser = {"w1", "w2"}
  Limit = 2
  MaxRequests = 2
  MaxFaults = 1
PROPERTIES
  RequestsEnd
