-------------------------- MODULE MCTunnelEndpoint --------------------------
(* Instantiation of TunnelEndpoint for TLC.  Sizes are in abstract units:  *)
(* a short buffer holds a few fragments, a long one a few more, so that    *)
(* both the reallocation and the size limit are reached in a few steps.   *)
EXTENDS TunnelEndpoint

MC_MsgIDs == {0, 1}
MC_FollowOnNums == {1, 2}
MC_Sizes == {1, 2}
MC_AllDeliveryTypes == 0..3

=============================================================================
