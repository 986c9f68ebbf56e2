\* A parked out-of-sequence fragment is appended without the size check
\* HandleFollowOnFragment makes: expected to violate ReassemblyWithinMaxSize.
CONSTANTS
  MsgIDs <- MC_MsgIDs
  FollowOnNums <- MC_FollowOnNums
  Sizes = {1, 2}
  DeliveryTypes = {0}
  Hashes = {us}
  OurHash = us
  NoHash = none
  HeaderRoom = 1
  ShortMessageSize = 3
  MaxMessageSize = 6
  MaxFragmentsPerMsg = 1
  MaxReceived = 4
  TunnelDataMsgSize = 1028
SPECIFICATION Spec
CHECK_DEADLOCK FALSE
INVARIANT ReassemblyWithinMaxSize
