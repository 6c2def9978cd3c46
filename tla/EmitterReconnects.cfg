SPECIFICATION FairSpec
CONSTANTS
  s1 = s1
  s2 = s2
  s3 = s3
  blank = blank
  Events = {s1, s2, blank}
  Invalid = {blank}
  ChannelMax = 2
  MaxBrokerFaults = 1
PROPERTY ConnectionRestored
CHECK_DEADLOCK FALSE
