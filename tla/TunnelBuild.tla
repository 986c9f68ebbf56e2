---------------------------- MODULE TunnelBuild ----------------------------
(***************************************************************************)
(* Tunnel build messages at one router (src/core/I2NPProtocol.cpp), all   *)
(* handled on the tunnels thread, one at a time.                          *)
(*                                                                         *)
(* A VariableTunnelBuild whose message ID names one of our pending inbound *)
(* tunnels is the reply to our own build; any other build message is a    *)
(* request: HandleBuildRequestRecords finds the record addressed to us,    *)
(* decrypts it, admits a transit tunnel or refuses with 30, and the        *)
(* message goes on to the next hop (or, from an outbound endpoint, to the *)
(* reply tunnel).  A VariableTunnelBuildReply completes one of our pending *)
(* outbound tunnels.  Records are abstracted to: addressed to us or not,  *)
(* decrypts or not; the reply check of HandleTunnelBuildResponse (not in   *)
(* this file) is an input.                                                 *)
(***************************************************************************)
EXTENDS Integers, TLC

CONSTANTS
  MAX_NUM_TRANSIT_TUNNELS,
  ReplyMsgIDs              \* message IDs our own builds wait on

VARIABLES
  transit,          \* tunnels.GetTransitTunnels(): number of transit tunnels
  bogusTransit,     \* of those, made from a record that did not decrypt
  pendingInbound,   \* our inbound builds: replyMsgID -> state
  pendingOutbound,  \* our outbound builds: replyMsgID -> state
  lastReply         \* ret byte written into the last record that was ours

vars == <<transit, bogusTransit, pendingInbound, pendingOutbound, lastReply>>

TunnelStates == {"pending", "established", "failed"}
NoReply == -1

Init ==
  /\ transit = 0 /\ bogusTransit = 0
  /\ pendingInbound = <<>> /\ pendingOutbound = <<>>
  /\ lastReply = NoReply

(* Tunnels::CreateTunnel sends a build for a new tunnel of ours.          *)
CreateTunnel(id, inbound) ==
  /\ id \notin DOMAIN pendingInbound \cup DOMAIN pendingOutbound
  /\ IF inbound THEN pendingInbound' = (id :> "pending") @@ pendingInbound
                     /\ UNCHANGED pendingOutbound
                ELSE pendingOutbound' = (id :> "pending") @@ pendingOutbound
                     /\ UNCHANGED pendingInbound
  /\ UNCHANGED <<transit, bogusTransit, lastReply>>

(* The admission test of HandleBuildRequestRecords.                       *)
Admits(acceptsTunnels, bandwidthExceeded) ==
  /\ acceptsTunnels
  /\ transit <= MAX_NUM_TRANSIT_TUNNELS
  /\ ~bandwidthExceeded

(***************************************************************************)
(* HandleBuildRequestRecords: the first record addressed to us is          *)
(* ElGamal-decrypted (the result is not checked), a transit tunnel is      *)
(* created from its clear text if admitted, and ret is 0 or 30.  The       *)
(* message is then forwarded whatever ret is.                              *)
(***************************************************************************)
HandleBuildRequestRecords(ours, decrypts, accepts, bwExceeded) ==
  IF ~ours THEN UNCHANGED <<transit, bogusTransit, lastReply>>
  ELSE IF Admits(accepts, bwExceeded)
       THEN /\ transit' = transit + 1
            /\ bogusTransit' = bogusTransit + (IF decrypts THEN 0 ELSE 1)
            /\ lastReply' = 0
       ELSE /\ lastReply' = 30
            /\ UNCHANGED <<transit, bogusTransit>>

(* HandleVariableTunnelBuildMsg: a reply for our pending inbound tunnel   *)
(* (HandleTunnelBuildResponse decides), else a build request.             *)
HandleVariableTunnelBuildMsg(id, ours, decrypts, accepts, bwExceeded, ok) ==
  \/ /\ id \in DOMAIN pendingInbound /\ pendingInbound[id] = "pending"
     /\ pendingInbound' = [pendingInbound EXCEPT ![id] =
                             IF ok THEN "established" ELSE "failed"]
     /\ UNCHANGED <<transit, bogusTransit, pendingOutbound, lastReply>>
  \/ /\ ~(id \in DOMAIN pendingInbound /\ pendingInbound[id] = "pending")
     /\ HandleBuildRequestRecords(ours, decrypts, accepts, bwExceeded)
     /\ UNCHANGED <<pendingInbound, pendingOutbound>>

(* HandleTunnelBuildMsg: the fixed 8-record build is always a request.    *)
HandleTunnelBuildMsg(ours, decrypts, accepts, bwExceeded) ==
  /\ HandleBuildRequestRecords(ours, decrypts, accepts, bwExceeded)
  /\ UNCHANGED <<pendingInbound, pendingOutbound>>

(* HandleVariableTunnelBuildReplyMsg completes a pending outbound tunnel. *)
HandleVariableTunnelBuildReplyMsg(id, responseOk) ==
  /\ id \in DOMAIN pendingOutbound /\ pendingOutbound[id] = "pending"
  /\ pendingOutbound' = [pendingOutbound EXCEPT ![id] =
                           IF responseOk THEN "established" ELSE "failed"]
  /\ UNCHANGED <<transit, bogusTransit, pendingInbound, lastReply>>

(* The tunnels thread expires a transit tunnel.                           *)
ExpireTransitTunnel ==
  /\ transit > 0
  /\ transit' = transit - 1
  /\ \/ bogusTransit' = bogusTransit - 1 /\ bogusTransit > 0
     \/ UNCHANGED bogusTransit /\ bogusTransit < transit
  /\ UNCHANGED <<pendingInbound, pendingOutbound, lastReply>>

Next ==
  \/ \E id \in ReplyMsgIDs, inbound \in BOOLEAN : CreateTunnel(id, inbound)
  \/ \E id \in ReplyMsgIDs, ours, decrypts, accepts, bw, ok \in BOOLEAN :
       HandleVariableTunnelBuildMsg(id, ours, decrypts, accepts, bw, ok)
  \/ \E ours, decrypts, accepts, bw \in BOOLEAN :
       HandleTunnelBuildMsg(ours, decrypts, accepts, bw)
  \/ \E id \in ReplyMsgIDs, ok \in BOOLEAN :
       HandleVariableTunnelBuildReplyMsg(id, ok)
  \/ ExpireTransitTunnel

Spec == Init /\ [][Next]_vars

-----------------------------------------------------------------------------
TypeOK ==
  /\ transit \in Nat /\ bogusTransit \in 0..transit
  /\ \A id \in DOMAIN pendingInbound : pendingInbound[id] \in TunnelStates
  /\ \A id \in DOMAIN pendingOutbound : pendingOutbound[id] \in TunnelStates
  /\ lastReply \in {NoReply, 0, 30}

(* Spec 8.8, admission cap: while the router already has                  *)
(* MAX_NUM_TRANSIT_TUNNELS transit tunnels, every build record addressed  *)
(* to it is refused with 30 and no transit tunnel is added.               *)
AdmissionCapHonoured ==
  [][transit >= MAX_NUM_TRANSIT_TUNNELS => transit' <= transit]_vars

(* Spec 7, decrypt failure: a build record whose ElGamal decryption fails *)
(* is dropped, so no transit tunnel is made from it.                      *)
NoTransitFromUndecryptedRecord == bogusTransit = 0

=============================================================================
