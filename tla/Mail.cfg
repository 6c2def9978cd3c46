SPECIFICATION FairSpec
CONSTANTS
  r1 = r1
  Requests = {r1}
  MaxMailStops = 2
INVARIANTS
  TypeOK
PROPERTIES
  SendsBeginInTime
  EverySubmissionAnswered
  KeepsPromise
CHECK_DEADLOCK FALSE
