SPECIFICATION Spec
CONSTANTS
  e1 = e1
  e2 = e2
  e3 = e3
  auth = auth
  failing = failing
  malformed = malformed
  None = None
  Events = {e1, auth}
  Kind <- MCKind
  MaxLoggerFaults = 0
  MaxListenerFaults = 0
INVARIANT AckedIsLogged
CHECK_DEADLOCK FALSE
