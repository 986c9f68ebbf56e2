---------------------------- MODULE TunnelConfig ----------------------------
(***************************************************************************)
(* The hop chain of a tunnel being built (src/core/tunnel/TunnelConfig.h). *)
(*                                                                         *)
(* A TunnelConfig is a doubly linked list of TunnelHopConfig; here it is a *)
(* sequence of hop records whose next and prev fields are indices (0 for   *)
(* nullptr).  The operators translate the constructors and setters; the    *)
(* chain they build is checked against a direct definition of the chain   *)
(* the build records must describe (spec 3 and 4.2), over every peer list, *)
(* tunnel-ID choice and reply tunnel of a bounded size.  The random tunnel *)
(* IDs of the code (GenerateWord32) are inputs.                            *)
(***************************************************************************)
EXTENDS Integers, Sequences, SequencesExt

CONSTANTS
  Routers,      \* router infos that can be peers
  Us,           \* i2p::context.GetSharedRouterInfo()
  NoRouter,     \* nextRouter not set
  TunnelIDs,    \* values GenerateWord32 may return
  MaxHops       \* bound: peers in a tunnel

ASSUME Us \notin Routers /\ NoRouter \notin Routers \cup {Us}
ASSUME 0 \notin TunnelIDs

VARIABLE input   \* the arguments of the TunnelConfig under check

-----------------------------------------------------------------------------
(* TunnelHopConfig(r): a lone hop is both gateway and endpoint.           *)
TunnelHopConfig(r, tunnelID) ==
  [router |-> r, tunnelID |-> tunnelID, nextRouter |-> NoRouter,
   nextTunnelID |-> 0, isGateway |-> TRUE, isEndpoint |-> TRUE,
   next |-> 0, prev |-> 0]

(* hops[i].SetNextRouter(r): the hop hands on to router r.                *)
SetNextRouter(hops, i, r, rndID) ==
  [hops EXCEPT ![i].nextRouter = r, ![i].isEndpoint = FALSE,
               ![i].nextTunnelID = rndID]

(* hops[i].SetReplyHop(replyFirstHop): the endpoint replies through the   *)
(* reply tunnel's first hop.                                              *)
SetReplyHop(hops, i, reply) ==
  [hops EXCEPT ![i].nextRouter = reply.router,
               ![i].nextTunnelID = reply.tunnelID, ![i].isEndpoint = TRUE]

SetNextKeepGateway(hops, i, j) ==
  IF j = 0 THEN [hops EXCEPT ![i].next = 0]
  ELSE [hops EXCEPT ![i].next = j, ![j].prev = i,
                    ![i].isEndpoint = FALSE, ![i].nextRouter = hops[j].router,
                    ![i].nextTunnelID = hops[j].tunnelID]

(* hops[i].SetNext(hops[j]): link forward; j stops being a gateway and i  *)
(* stops being an endpoint and hands on to j.                             *)
SetNext(hops, i, j) ==
  IF j = 0 THEN [hops EXCEPT ![i].next = 0]
  ELSE [hops EXCEPT ![i].next = j, ![j].prev = i, ![j].isGateway = FALSE,
                    ![i].isEndpoint = FALSE, ![i].nextRouter = hops[j].router,
                    ![i].nextTunnelID = hops[j].tunnelID]

SetPrevKeepEndpoint(hops, i, j) ==
  IF j = 0 THEN [hops EXCEPT ![i].prev = 0]
  ELSE [hops EXCEPT ![i].prev = j, ![j].next = i, ![i].isGateway = FALSE]

(* hops[i].SetPrev(hops[j]): link backward; j stops being an endpoint and *)
(* i stops being a gateway.                                               *)
SetPrev(hops, i, j) ==
  IF j = 0 THEN [hops EXCEPT ![i].prev = 0]
  ELSE [hops EXCEPT ![i].prev = j, ![j].next = i, ![j].isEndpoint = FALSE,
                    ![i].isGateway = FALSE]

(* The constructor's loop: each new hop is appended and the previous one  *)
(* is SetNext to it.                                                      *)
AppendHop(hops, peer) ==
  LET k == Len(hops) + 1
      h == Append(hops, TunnelHopConfig(peer.router, peer.tunnelID))
  IN IF k > 1 THEN SetNext(h, k - 1, k) ELSE h

(* TunnelConfig(peers, replyTunnelConfig): no reply config means inbound  *)
(* (the last hop hands on to us); else the first hop is not a gateway and *)
(* the last replies through the reply tunnel's first hop.                 *)
NewTunnelConfig(peers, reply, rndID) ==
  LET hops == FoldLeft(AppendHop, <<>>, peers)
      n    == Len(hops)
  IN IF reply = NoRouter
     THEN SetNextRouter(hops, n, Us, rndID)
     ELSE SetReplyHop([hops EXCEPT ![1].isGateway = FALSE], n, reply)

(* The same chain linked backward with SetPrev.                           *)
AppendHopByPrev(hops, peer) ==
  LET k == Len(hops) + 1
      h == Append(hops, TunnelHopConfig(peer.router, peer.tunnelID))
  IN IF k > 1 THEN SetPrev(h, k, k - 1) ELSE h

(* GetPeers: walk the chain from the first hop along next.                *)
RECURSIVE WalkFrom(_, _)
WalkFrom(hops, i) ==
  IF i = 0 THEN <<>> ELSE <<hops[i].router>> \o WalkFrom(hops, hops[i].next)

GetPeers(hops) == WalkFrom(hops, 1)

GetNumHops(hops) == Len(WalkFrom(hops, 1))

IsInbound(hops) == hops[1].isGateway

InvertSwapped(hops, tunnelIDs, rndID) ==
  LET peers == Reverse(GetPeers(hops))
      ps == [i \in DOMAIN peers |-> [router |-> peers[i],
                                     tunnelID |-> tunnelIDs[i]]]
  IN IF IsInbound(hops) THEN NewTunnelConfig(ps, NoRouter, rndID)
                        ELSE NewTunnelConfig(ps, hops[1], rndID)

(* Invert: the peers reversed; an inbound tunnel becomes an outbound one  *)
(* that replies through this tunnel, an outbound one becomes inbound.     *)
(* The new hops draw new tunnel IDs.                                       *)
Invert(hops, tunnelIDs, rndID) ==
  LET peers == Reverse(GetPeers(hops))
      ps == [i \in DOMAIN peers |-> [router |-> peers[i],
                                     tunnelID |-> tunnelIDs[i]]]
  IN IF IsInbound(hops) THEN NewTunnelConfig(ps, hops[1], rndID)
                        ELSE NewTunnelConfig(ps, NoRouter, rndID)

(* Clone(replyTunnelConfig): a new config through the same peers, with   *)
(* new tunnel IDs, inbound without a reply config, else outbound through  *)
(* the reply config's first hop.                                          *)
Clone(hops, tunnelIDs, reply, rndID) ==
  LET peers == GetPeers(hops)
      ps == [i \in DOMAIN peers |-> [router |-> peers[i],
                                     tunnelID |-> tunnelIDs[i]]]
  IN NewTunnelConfig(ps, reply, rndID)

(* Print's walk from hop i, the separators left out: each hop's router,   *)
(* then, unless it is the endpoint (where Print returns), the tunnel ID   *)
(* it hands on to; walking off the last hop means we are that next hop.   *)
RECURSIVE RenderFromNoReturn(_, _)
RenderFromNoReturn(hops, i) ==
  IF i = 0 THEN <<Us>>
  ELSE <<hops[i].router, hops[i].nextTunnelID>>
         \o RenderFromNoReturn(hops, hops[i].next)

RECURSIVE RenderFrom(_, _)
RenderFrom(hops, i) ==
  IF i = 0 THEN <<Us>>
  ELSE IF hops[i].isEndpoint THEN <<hops[i].router>>
  ELSE <<hops[i].router, hops[i].nextTunnelID>>
         \o RenderFrom(hops, hops[i].next)

(* TunnelConfig::Print: "me" first for an outbound tunnel, then the first *)
(* hop's tunnel ID and the walk.                                          *)
Render(hops) ==
  (IF IsInbound(hops) THEN <<>> ELSE <<Us>>) \o <<hops[1].tunnelID>>
    \o RenderFrom(hops, 1)

-----------------------------------------------------------------------------
(* Every input the constructor can be called with: 1..MaxHops peers       *)
(* (repeats allowed), their tunnel IDs, no reply tunnel or the first hop  *)
(* of one, and the ID SetNextRouter draws.                                 *)
Peers == UNION {[1..n -> [router : Routers, tunnelID : TunnelIDs]] :
                  n \in 1..MaxHops}
Inputs == [peers : Peers,
           reply : {NoRouter} \cup [router : Routers, tunnelID : TunnelIDs],
           rndID : TunnelIDs, invertIDs : [1..MaxHops -> TunnelIDs]]

Init == input \in Inputs
Next == input' \in Inputs
Spec == Init /\ [][Next]_input

(* The chain as the build records must describe it: hop i of n hands on  *)
(* to hop i+1; the last hop of an inbound tunnel hands on to us, that of  *)
(* an outbound tunnel to the reply tunnel; only the first hop of an       *)
(* inbound tunnel is a gateway and only the last of an outbound one is an *)
(* endpoint.                                                               *)
ReferenceChain(peers, reply, rndID) ==
  LET n == Len(peers)
      inbound == reply = NoRouter
  IN [i \in 1..n |->
       [router |-> peers[i].router, tunnelID |-> peers[i].tunnelID,
        nextRouter |-> IF i < n THEN peers[i + 1].router
                       ELSE IF inbound THEN Us ELSE reply.router,
        nextTunnelID |-> IF i < n THEN peers[i + 1].tunnelID
                         ELSE IF inbound THEN rndID ELSE reply.tunnelID,
        isGateway |-> i = 1 /\ inbound,
        isEndpoint |-> i = n /\ ~inbound,
        next |-> IF i < n THEN i + 1 ELSE 0,
        prev |-> i - 1]]

Built == NewTunnelConfig(input.peers, input.reply, input.rndID)

(* The TunnelConfig constructor, by SetNext, SetNextRouter and            *)
(* SetReplyHop, builds exactly the reference chain, so IsInbound and      *)
(* every hop's role flags and next hop are right for every peer list.     *)
ChainMatchesReference ==
  Built = ReferenceChain(input.peers, input.reply, input.rndID)

(* Linking the hops backward with SetPrev gives the same links and role   *)
(* flags as SetNext does (SetPrev leaves nextRouter and nextTunnelID to   *)
(* the caller).                                                           *)
Links(hops) == [i \in DOMAIN hops |->
                  [next |-> hops[i].next, prev |-> hops[i].prev,
                   isGateway |-> hops[i].isGateway,
                   isEndpoint |-> hops[i].isEndpoint]]

SetPrevAgreesWithSetNext ==
  Links(FoldLeft(AppendHopByPrev, <<>>, input.peers))
    = Links(FoldLeft(AppendHop, <<>>, input.peers))

(* Invert turns an inbound tunnel into an outbound one through the same   *)
(* peers reversed that replies through the original's gateway, and an    *)
(* outbound one into an inbound one; inverting twice gives the peers back.*)
(* Clone of either, with or without the inverted tunnel as reply config,  *)
(* keeps the peers in order and takes its direction from the reply.      *)
InvertReverses ==
  LET inv == Invert(Built, input.invertIDs, input.rndID) IN
  /\ GetPeers(inv) = Reverse(GetPeers(Built))
  /\ IsInbound(inv) = ~IsInbound(Built)
  /\ IsInbound(Built) =>
       /\ inv[Len(inv)].nextRouter = Built[1].router
       /\ inv[Len(inv)].nextTunnelID = Built[1].tunnelID
  /\ GetPeers(Invert(inv, input.invertIDs, input.rndID)) = GetPeers(Built)
  /\ \A reply \in {NoRouter, inv[1]} :
       LET c == Clone(Built, input.invertIDs, reply, input.rndID) IN
       /\ GetPeers(c) = GetPeers(Built)
       /\ IsInbound(c) = (reply = NoRouter)

(* Print renders the tunnel as data flows through it: for an outbound     *)
(* tunnel we come first and the endpoint hop last, for an inbound one the *)
(* gateway first and we last, on the ID the last hop sends to; between,   *)
(* each hop's router after the tunnel ID it receives on.  Print relies on *)
(* the endpoint flag to stop ("we didn't reach endpoint that mean we are  *)
(* last hop"), and on nextTunnelID being the next hop's tunnel ID.        *)
PathRendered(peers, reply, rndID) ==
  (IF reply = NoRouter THEN <<>> ELSE <<Us>>)
    \o FlattenSeq([i \in DOMAIN peers |->
                     <<peers[i].tunnelID, peers[i].router>>])
    \o (IF reply = NoRouter THEN <<rndID, Us>> ELSE <<>>)

RenderShowsPath ==
  Render(Built) = PathRendered(input.peers, input.reply, input.rndID)

=============================================================================
