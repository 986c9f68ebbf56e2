\* Build requests at a router with a cap of two transit tunnels.
CONSTANTS
  MAX_NUM_TRANSIT_TUNNELS = 2
  ReplyMsgIDs = {1, 2}
SPECIFICATION Spec
INVARIANT
  NoTransitFromUndecryptedRecord
