\* Only the first parked fragment per message ID is kept: expected to
\* violate AllFragmentsReassembled when fragments arrive in reverse order.
CONSTANTS
  MsgIDs <- MC_MsgIDs
  FollowOnNums <- MC_FollowOnNums
  Sizes = {1}
  DeliveryTypes = {0}
  Hashes = {us}
  OurHash = us
  NoHash = none
  HeaderRoom = 1
  ShortMessageSize = 2
  MaxMessageSize = 6
  MaxFragmentsPerMsg = 1
  MaxReceived = 4
  TunnelDataMsgSize = 1028
SPECIFICATION Spec
CHECK_DEADLOCK FALSE
INVARIANT AllFragmentsReassembled
