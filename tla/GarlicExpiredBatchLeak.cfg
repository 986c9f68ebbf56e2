\* Lost acks with the periodic cleanup: is an expired batch's
\* m_CreatedSessions entry eventually dropped?
CONSTANTS
  d1 = d1
  Dests <- MC_Dests
  NumTagsWithLeaseSet = 3
  NumTagsPlain = 2
  OutgoingTagsTimeout = 2
  IncomingTagsTimeout = 2
  LeaseSetTimeout = 1
  MaxTime = 3
  MaxIDs = 6
  MaxSessions = 2
  MaxLeaseSets = 1
SPECIFICATION FairSpec
\* The garlic destination may sit idle once every bound is used up.
CHECK_DEADLOCK FALSE
PROPERTY
  ExpiredBatchForgotten
