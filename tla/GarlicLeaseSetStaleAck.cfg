\* A late ack of an older lease-set submission after SetLeaseSetUpdated.
CONSTANTS
  d1 = d1
  Dests <- MC_Dests
  NumTagsWithLeaseSet = 3
  NumTagsPlain = 2
  OutgoingTagsTimeout = 2
  IncomingTagsTimeout = 2
  LeaseSetTimeout = 1
  MaxTime = 3
  MaxIDs = 13
  MaxSessions = 2
  MaxLeaseSets = 2
SPECIFICATION Spec
\* The garlic destination may sit idle once every bound is used up.
CHECK_DEADLOCK FALSE
INVARIANT
  LeaseSetUpToDateMeansDelivered
