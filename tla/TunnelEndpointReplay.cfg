\* Replayed fragments of a completed message: expected to violate
\* NoDuplicateDispatch.
CONSTANTS
  MsgIDs <- MC_MsgIDs
  FollowOnNums <- MC_FollowOnNums
  Sizes = {1}
  DeliveryTypes = {0}
  Hashes = {us}
  OurHash = us
  NoHash = none
  HeaderRoom = 1
  ShortMessageSize = 2
  MaxMessageSize = 4
  MaxFragmentsPerMsg = 1
  MaxReceived = 4
  TunnelDataMsgSize = 1028
SPECIFICATION Spec
CHECK_DEADLOCK FALSE
INVARIANT NoDuplicateDispatch
