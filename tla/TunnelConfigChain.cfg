\* Hop chains of up to three hops over two routers and two tunnel IDs.
CONSTANTS
  r1 = r1
  r2 = r2
  Routers <- MC_Routers
  Us = us
  NoRouter = none
  TunnelIDs = {1, 2}
  MaxHops = 3
SPECIFICATION Spec
INVARIANTS
  ChainMatchesReference
  SetPrevAgreesWithSetNext
  InvertReverses
  RenderShowsPath
