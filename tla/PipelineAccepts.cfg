SPECIFICATION FairSpec
CONSTANTS
  e1 = e1
  e2 = e2
  auth = auth
  failing = failing
  blank = blank
  None = None
  Events = {e1, e2}
  Invalid = {}
  Kind <- MCKind
  ChannelMax = 2
  MaxBrokerFaults = 0
  MaxLoggerFaults = 0
  MaxListenerFaults = 0
PROPERTY AcceptedIsLogged
CHECK_DEADLOCK FALSE
