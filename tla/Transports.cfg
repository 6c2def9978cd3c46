SPECIFICATION FairSpec
CONSTANTS
  r1 = r1
  Requests = {r1}
  MaxLoggerStops = 2
INVARIANTS
  TypeOK
  AnswerInTime
PROPERTIES
  LateEntriesBounded
  EverySubmissionAnswered
  KeepsPromise
CHECK_DEADLOCK FALSE
