SPECIFICATION FairSpec
CONSTANTS
  e1 = e1
  e2 = e2
  auth = auth
  failing = failing
  blank = blank
  None = None
  Events = {e1, failing}
  Invalid = {}
  Kind <- MCKind
  ChannelMax = 1
  MaxBrokerFaults = 1
  MaxLoggerFaults = 1
  MaxListenerFaults = 1
INVARIANTS
  RefusedNeverLogged
  AcceptedIsAccounted
PROPERTY SubmittedIsLogged
CHECK_DEADLOCK FALSE
