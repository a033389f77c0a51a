SPECIFICATION Spec
CONSTANTS
  Process <- MCProcess
  Conn <- MCConn
  PoolOf <- MCPoolOf
  Task <- MCTask
  Guest <- MCGuest
  RunsIn <- MCRunsIn
  KeyOf <- MCKeyOf
  Committing = {"scan"}
  PoolSize = 2
  MaxHeld = 2
  MaxFaults = 1
INVARIANTS
  TypeOK
  UncommittedJobsExclude
PROPERTIES
  LeakedLocksWearOff
