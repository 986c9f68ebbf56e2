\* Session tags and their confirmation under two application threads wrapping
\* at once: one destination, lossy network, a clock long enough for the
\* peer's second inbound-tag sweep.
CONSTANTS
  t1 = t1
  t2 = t2
  Threads <- MC_Threads
  d1 = d1
  Dests <- MC_Dests
  NumTagsWithLeaseSet = 3
  NumTagsPlain = 2
  OutgoingTagsTimeout = 1
  IncomingTagsTimeout = 1
  LeaseSetTimeout = 1
  MaxTime = 4
  MaxIDs = 11
  MaxSessions = 2
  MaxLeaseSets = 2
INIT ThreadsInit
NEXT ThreadsNext
\* The garlic destination may sit idle once every bound is used up.
CHECK_DEADLOCK FALSE
INVARIANTS
  ThreadsTypeOK
  TagUsedOnce
  PoolTagsKnownToPeer
  BatchesAwaitingAck
PROPERTY
  BatchLeavesOnlyByAckOrExpiry
