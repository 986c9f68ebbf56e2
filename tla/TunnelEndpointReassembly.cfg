\* Reassembly and dispatch: fragments of message IDs 0 and 1 in any order,
\* duplicated or foreign, for every delivery type and hash, on inbound and
\* outbound endpoints, up to two fragments per TunnelData message.  A short
\* buffer holds two units and the I2NP limit is four, so a message of three
\* fragments is reallocated and a fourth unit is refused.
CONSTANTS
  MsgIDs <- MC_MsgIDs
  FollowOnNums <- MC_FollowOnNums
  Sizes = {1}
  DeliveryTypes <- MC_AllDeliveryTypes
  Hashes = {us, other}
  OurHash = us
  NoHash = none
  HeaderRoom = 1
  ShortMessageSize = 2
  MaxMessageSize = 4
  MaxFragmentsPerMsg = 2
  MaxReceived = 2
  TunnelDataMsgSize = 1028
SPECIFICATION Spec
\* The endpoint is passive: once its upstream stops sending, it stops.
CHECK_DEADLOCK FALSE
INVARIANTS
  TypeOK
  ReassembledInOrder
  NoStrandedFragment
