CONSTANTS
  d1 = d1
  t1 = t1
  t2 = t2
  Dests <- MC_Dests
  Threads <- MC_Threads
  NumTagsWithLeaseSet = 3
  NumTagsPlain = 2
  OutgoingTagsTimeout = 2
  IncomingTagsTimeout = 2
  LeaseSetTimeout = 1
  MaxTime = 3
  MaxIDs = 13
  MaxSessions = 2
  MaxLeaseSets = 2
INIT ThreadsInit
NEXT ThreadsNext
INVARIANT SessionLeavesRegistryOnlyByCleanup
CHECK_DEADLOCK FALSE
