-------------------------- MODULE MCTunnelBuildPath --------------------------
(* Model-checking instance of TunnelBuildPath: three routers, two tunnel  *)
(* IDs, paths of up to three hops (all distinct, or one router twice).    *)
(* Buffer sizes are scaled down with a build record as one slot: 64 and    *)
(* 128 slots for the short and long buffers, 28 for TunnelData, enough for *)
(* every message of a three-hop build with room to spare.                  *)
EXTENDS TunnelBuildPath

CONSTANTS r1, r2, r3

MC_Routers == {r1, r2, r3}

(* Stands for the first byte of SHA-256 over a payload: a value the       *)
(* payload determines.  No handler of these sources checks it.            *)
MC_Sha256Byte(p) == Len(p) % 256

=============================================================================
