SPECIFICATION Spec
CONSTANTS
  e1 = e1
  e2 = e2
  e3 = e3
  auth = auth
  failing = failing
  malformed = malformed
  None = None
  Events = {e1, e2, failing, auth}
  Kind <- MCKind
  MaxLoggerFaults = 2
  MaxListenerFaults = 1
INVARIANTS
  TypeOK
  LoggedBeforeAcked
  CopiesBounded
  InArrivalOrder
PROPERTIES
  NoOvertaking
  ImplementsEventLog
CHECK_DEADLOCK FALSE
