SPECIFICATION FairSpec
CONSTANTS
  e1 = e1
  e2 = e2
  e3 = e3
  auth = auth
  failing = failing
  malformed = malformed
  None = None
  Events = {e1, malformed, failing}
  Kind <- MCKind
  MaxLoggerFaults = 3
  MaxListenerFaults = 1
PROPERTIES
  QueuedIsSettled
  RetriedUntilLogged
  ListenerStops
CHECK_DEADLOCK FALSE
