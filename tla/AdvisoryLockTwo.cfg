SPECIFICATION Spec
CONSTANTS
  Process <- MCProcess
  Conn <- TwoConns
  PoolOf <- TwoPoolOf
  Task <- TwoScans
  Guest = {}
  RunsIn <- TwoRunsIn
  KeyOf <- TwoKeyOf
  Committing = {"scan"}
  PoolSize = 2
  MaxHeld = 2
  MaxFaults = 0
INVARIANTS
  SecondWorkerDeclines
