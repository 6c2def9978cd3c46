SPECIFICATION FairSpec
CONSTANTS
  r1 = r1
  r2 = r2
  Requests = {r1, r2}
  MaxServerFaults = 3
INVARIANTS
  TypeOK
  DrainedBeforeExit
  HonestStatus
PROPERTIES
  SignalEndsLogger
  FailureEndsLogger
CHECK_DEADLOCK FALSE
