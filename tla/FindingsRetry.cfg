SPECIFICATION Spec
CONSTANTS
  f1 = f1
  f2 = f2
  Finding = {f1}
  Manifest = {1}
  FileOf <- MCOneFile
  Request = {1}
  Triggers = {"scheduled"}
PROPERTIES
  FailedDigestIsRetried
