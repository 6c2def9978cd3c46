SPECIFICATION FairSpec
CONSTANTS
  s1 = s1
  s2 = s2
  s3 = s3
  blank = blank
  Events = {s1, s2, s3, blank}
  Invalid = {blank}
  ChannelMax = 2
  MaxBrokerFaults = 2
INVARIANTS
  TypeOK
  ChannelsReleased
PROPERTIES
  EverySubmissionAnswered
  KeepsPromise
CHECK_DEADLOCK FALSE
