SPECIFICATION FairSpec
CONSTANTS
  MaxBackendChanges = 2
  MaxServerFaults = 1
  MaxSilence = 16
INVARIANTS
  TypeOK
  OutlastsHealthCheck
  CleanExit
PROPERTIES
  GivesUpLate
  StopsWhenAsked
  ServesAgain
CHECK_DEADLOCK FALSE
