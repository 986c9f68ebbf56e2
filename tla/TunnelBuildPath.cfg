\* Every path of one to three hops over three routers (all distinct, or with
\* a router repeated), each tunnel ID choice, inbound and outbound (the reply
\* through any router's tunnel), each hop admitting or refusing.
CONSTANTS
  r1 = r1
  r2 = r2
  r3 = r3
  Routers <- MC_Routers
  Us = us
  NoRouter = none
  TunnelIDs = {1, 2}
  MaxHops = 3
  ReplyMsgIDs = {7}
  RandomWord = 3
  Now = 0
  ShortSize = 64
  MaxSize = 128
  TunnelDataSize = 28
  Sha256Byte <- MC_Sha256Byte
SPECIFICATION Spec
\* A build ends: the originator concludes, or a message is lost.
CHECK_DEADLOCK FALSE
INVARIANTS
  TypeOK
  TransitMatchesPath
  FramesAgree
PROPERTIES
  ImplementsTunnelBuildAbstract
  BuildConcludes
