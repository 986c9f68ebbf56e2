--------------------------- MODULE MCTunnelConfig ---------------------------
(* Model-checking instance of TunnelConfig: two peers, two tunnel IDs.    *)
EXTENDS TunnelConfig

CONSTANTS r1, r2

MC_Routers == {r1, r2}

=============================================================================
