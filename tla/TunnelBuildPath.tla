--------------------------- MODULE TunnelBuildPath ---------------------------
(***************************************************************************)
(* One tunnel build, end to end: the TunnelConfig hop chain                *)
(* (src/core/tunnel/TunnelConfig.h) is turned into build records by        *)
(* CreateBuildRequestRecord; the VariableTunnelBuild message visits each  *)
(* hop, whose HandleVariableTunnelBuildMsg (src/core/I2NPProtocol.cpp)     *)
(* answers its record, creates a transit tunnel from it if it admits, and  *)
(* forwards the message, or, at the endpoint of an outbound tunnel, sends  *)
(* it back through the reply tunnel; the originator's HandleI2NPMessage    *)
(* finally takes the answers to its pending tunnel.                        *)
(*                                                                         *)
(* Cryptography is abstracted: a hop finds the record whose toPeer is its  *)
(* own hash (the originator's layering, in Tunnel::Build, outside these    *)
(* sources, makes it readable there), and an answered record matches no   *)
(* hop any more.  Admission (AcceptsTunnels, the cap, the bandwidth) is an *)
(* input of each hop; the TunnelBuild module models it.                    *)
(***************************************************************************)
EXTENDS Integers, Sequences, SequencesExt, Bitwise, I2NPMessage

CONSTANTS
  Routers,      \* routers that can be hops
  Us,           \* the originator: i2p::context
  NoRouter,     \* no reply tunnel (an inbound build); an answered record
  TunnelIDs,    \* values GenerateWord32 may return for tunnel IDs
  MaxHops,      \* bound: hops in the tunnel
  ReplyMsgIDs,  \* values of the build's reply message ID (never 0)
  RandomWord,   \* the message ID GenerateWord32 gives a message without one
  Now           \* GetMillisecondsSinceEpoch when a header is filled

ASSUME 0 \notin ReplyMsgIDs /\ RandomWord \notin ReplyMsgIDs

VARIABLES
  tunnel,       \* our pending tunnel: its hops, direction, reply, state
  msgs,         \* I2NP messages on the way between routers
  transit,      \* transit tunnels the hops created
  lastRecords,  \* history: the records as the last hop to touch them left them
  lost,         \* history: the transport dropped a message
  dataBatch,    \* per router: its I2NPMessagesHandler's m_TunnelMsgs
  batch,        \* per router: its I2NPMessagesHandler's m_TunnelGatewayMsgs
  queue         \* per router: messages posted to its tunnel thread

vars == <<tunnel, msgs, transit, lastRecords, lost, dataBatch, batch, queue>>

Nodes == Routers \cup {Us}

TC == INSTANCE TunnelConfig WITH input <- <<>>

NoRet == -1   \* a record not answered yet

HopFlagSwapped(hop) ==
  (IF hop.isGateway THEN 64 ELSE 0) | (IF hop.isEndpoint THEN 128 ELSE 0)

(* The flag byte of CreateBuildRequestRecord: bit 7 gateway, bit 6        *)
(* endpoint.                                                               *)
HopFlag(hop) ==
  (IF hop.isGateway THEN 128 ELSE 0) | (IF hop.isEndpoint THEN 64 ELSE 0)

CreateBuildRequestRecordNoMsgID(hop, replyMsgID) ==
  [toPeer |-> hop.router, receiveTunnel |-> hop.tunnelID,
   nextIdent |-> hop.nextRouter, nextTunnel |-> hop.nextTunnelID,
   flag |-> HopFlag(hop), sendMsgID |-> 0, ret |-> NoRet]

(* TunnelHopConfig::CreateBuildRequestRecord: the clear text a hop reads,  *)
(* addressed by toPeer to the hop's router.                               *)
CreateBuildRequestRecord(hop, replyMsgID) ==
  [toPeer |-> hop.router, receiveTunnel |-> hop.tunnelID,
   nextIdent |-> hop.nextRouter, nextTunnel |-> hop.nextTunnelID,
   flag |-> HopFlag(hop), sendMsgID |-> replyMsgID, ret |-> NoRet]

(* A message in flight: the router it is sent to and its wire bytes.     *)
(* The VariableTunnelBuild payload is the record count, then the records. *)
BuildPayload(records) == <<Len(records)>> \o records

(* CreateI2NPMessage(eI2NPVariableTunnelBuild, buf, len, sendMsgID).      *)
BuildMsg(to, msgID, records) ==
  [to |-> to,
   wire |-> Wire(CreateI2NPMessage(I2NPType.VariableTunnelBuild,
                   BuildPayload(records), msgID, RandomWord, Now))]

(* CreateTunnelGatewayMsg(nextTunnel, eI2NPVariableTunnelBuildReply, buf,  *)
(* len, sendMsgID): the reply wrapped for the gateway of the reply tunnel. *)
GatewayMsg(to, tunnelID, msgID, records) ==
  [to |-> to,
   wire |-> Wire(CreateTunnelGatewayMsg(tunnelID, I2NPType.VariableTunnelBuildReply,
                   BuildPayload(records), msgID, RandomWord, Now))]

OurRecordLast(r, records) ==
  LET idx == {i \in DOMAIN records : records[i].toPeer = r}
  IN IF idx = {} THEN 0 ELSE Max(idx)

(* The loop of HandleBuildRequestRecords: the first record whose toPeer is *)
(* our hash, or 0.                                                         *)
OurRecord(r, records) ==
  LET idx == {i \in DOMAIN records : records[i].toPeer = r}
  IN IF idx = {} THEN 0 ELSE Min(idx)

(* CreateTransitTunnel from the clear text, flags decoded with & 0x80 and  *)
(* & 0x40.                                                                 *)
NewTransit(r, clear) ==
  [router |-> r, receiveTunnel |-> clear.receiveTunnel,
   nextIdent |-> clear.nextIdent, nextTunnel |-> clear.nextTunnel,
   isGateway |-> (clear.flag & 128) # 0, isEndpoint |-> (clear.flag & 64) # 0]

ForwardOnGatewayBit(clear, records) ==
  IF (clear.flag & 128) # 0
  THEN GatewayMsg(clear.nextIdent, clear.nextTunnel, clear.sendMsgID, records)
  ELSE BuildMsg(clear.nextIdent, clear.sendMsgID, records)

(* After the records: the endpoint of an outbound tunnel (flag & 0x40)    *)
(* sends the reply to the reply tunnel's gateway, any other hop forwards  *)
(* the build to the next hop, with the message ID from the record.        *)
Forward(clear, records) ==
  IF (clear.flag & 64) # 0
  THEN GatewayMsg(clear.nextIdent, clear.nextTunnel, clear.sendMsgID, records)
  ELSE BuildMsg(clear.nextIdent, clear.sendMsgID, records)

(* Tunnel::HandleTunnelBuildResponse (outside these sources; spec 4.2):   *)
(* accepted iff every record's ret is 0.                                  *)
HandleTunnelBuildResponse(records) ==
  \A i \in DOMAIN records : records[i].ret = 0

-----------------------------------------------------------------------------
(* Tunnels::CreateTunnel and Tunnel::Build (outside these sources): a     *)
(* chain from TunnelConfig, one record per hop with the reply message ID, *)
(* the build sent to the first hop, the tunnel pending.                   *)
Init ==
  \E peers \in TC!Peers, rndID \in TunnelIDs, id \in ReplyMsgIDs,
     reply \in {NoRouter} \cup [router : Routers, tunnelID : TunnelIDs] :
    LET hops == TC!NewTunnelConfig(peers, reply, rndID)
        recs == [i \in DOMAIN hops |-> CreateBuildRequestRecord(hops[i], id)]
    IN /\ tunnel = [hops |-> hops, inbound |-> TC!IsInbound(hops),
                    reply |-> reply, replyMsgID |-> id, state |-> "pending"]
       /\ msgs = {BuildMsg(hops[1].router, 0, recs)}
       /\ transit = {}
       /\ lastRecords = recs
       /\ lost = FALSE
       /\ dataBatch = [r \in Nodes |-> <<>>]
       /\ batch = [r \in Nodes |-> <<>>]
       /\ queue = [r \in Nodes |-> <<>>]

(* HandleVariableTunnelBuildMsg(replyMsgID, buf, len) at router r: the     *)
(* reply to our pending inbound tunnel, or a request: num = buf[0]          *)
(* records follow, the one that is ours is answered with 0 (and a transit   *)
(* tunnel) or 30, and the message goes on; no record of ours and the        *)
(* message is dropped.                                                      *)
HandleVariableTunnelBuildMsg(r, msgID, buf, accept) ==
  LET records == SubSeq(buf, 2, 1 + buf[1]) IN
  IF r = Us /\ tunnel.inbound /\ tunnel.state = "pending"
     /\ msgID = tunnel.replyMsgID
  THEN /\ tunnel' = [tunnel EXCEPT !.state =
             IF HandleTunnelBuildResponse(records) THEN "established"
                                                   ELSE "failed"]
       /\ UNCHANGED <<msgs, transit, lastRecords>>
  ELSE LET i == OurRecord(r, records) IN
       IF i = 0 THEN UNCHANGED <<tunnel, msgs, transit, lastRecords>>
       ELSE \E clear \in {records[i]} :
            LET recs  == [records EXCEPT ![i] =
                            [clear EXCEPT !.toPeer = NoRouter,
                                          !.ret = IF accept THEN 0 ELSE 30]]
            IN /\ transit' = IF accept THEN transit \cup {NewTransit(r, clear)}
                                       ELSE transit
               /\ msgs' = msgs \cup {Forward(clear, recs)}
               /\ lastRecords' = recs
               /\ UNCHANGED tunnel

(* HandleVariableTunnelBuildReplyMsg(replyMsgID, buf, len) at router r:    *)
(* the reply to our pending outbound tunnel; any other reply is ignored.   *)
HandleVariableTunnelBuildReplyMsg(r, msgID, buf) ==
  /\ IF r = Us /\ ~tunnel.inbound /\ tunnel.state = "pending"
        /\ msgID = tunnel.replyMsgID
     THEN tunnel' = [tunnel EXCEPT !.state =
              IF HandleTunnelBuildResponse(SubSeq(buf, 2, 1 + buf[1]))
              THEN "established" ELSE "failed"]
     ELSE UNCHANGED tunnel
  /\ UNCHANGED <<msgs, transit, lastRecords>>

(* The decrypted tunnel data our endpoint reads for the reply: one         *)
(* unfragmented first fragment with delivery type local (flag 0x00), its    *)
(* size and the message, zero padding after it.  The IV, checksum and the  *)
(* layered encryption (Tunnel.cpp, TunnelGateway.cpp) are left out.        *)
LocalDelivery(inner) ==
  LET f == <<0>> \o BigEndian(Len(inner), 2) \o inner
  IN f \o [k \in 1..(TunnelDataSize - 4 - Len(f)) |-> 0]

(* The reply tunnel, on its gateway's tunnel thread (Tunnels::Run and the *)
(* tunnel gateway, outside these sources): the gateway reads the tunnel   *)
(* ID and the inner message from the gateway header; a message for our    *)
(* reply tunnel travels as TunnelData to its endpoint, us; one for a      *)
(* tunnel the router is not the gateway of is dropped.                    *)
DeliverThroughReplyTunnel(m) ==
  /\ \E tid \in {GatewayTunnelID(m.wire)} :
     msgs' = msgs \cup
       IF tunnel.reply # NoRouter /\ m.to = tunnel.reply.router
          /\ tid = tunnel.reply.tunnelID
       THEN {[to |-> Us,
              wire |-> Wire(CreateTunnelDataMsg(tid,
                         LocalDelivery(GatewayInner(m.wire)), RandomWord, Now))]}
       ELSE {}
  /\ UNCHANGED <<tunnel, transit, lastRecords>>

(* HandleI2NPMessage(buf, len) at router r: the header's type, message ID *)
(* and size, and dispatch of a build message by type.  (\E over a one-    *)
(* element set binds a parsed value once, as Bind does for expressions.)  *)
HandleI2NPMessage(r, w, accept) ==
  \E type \in {TypeID(w)}, msgID \in {MsgID(w)}, buf \in {PayloadOf(w)} :
     \/ type = I2NPType.VariableTunnelBuild
          /\ HandleVariableTunnelBuildMsg(r, msgID, buf, accept)
     \/ type = I2NPType.VariableTunnelBuildReply
          /\ HandleVariableTunnelBuildReplyMsg(r, msgID, buf)

(* tunnels.PostTunnelData: the message joins the tail of router r's       *)
(* tunnel-thread queue q.                                                 *)
PostTunnelData(q, r, m) == [q EXCEPT ![r] = Append(@, m)]

(* The types HandleI2NPMessage(msg) forwards to the tunnel thread: tunnel *)
(* data and gateway messages, and the four build messages.  Every message *)
(* of this model is one of them; the garlic, delivery-status and database *)
(* branches go to other components.                                       *)
TunnelThreadTypes == {I2NPType.TunnelData, I2NPType.TunnelGateway,
                      I2NPType.VariableTunnelBuild, I2NPType.VariableTunnelBuildReply,
                      I2NPType.TunnelBuild, I2NPType.TunnelBuildReply}

(* HandleI2NPMessage(std::shared_ptr<I2NPMessage>) at router r, on queue  *)
(* state q, by msg->GetTypeID().                                          *)
HandleI2NPMessageMsg(q, r, m) ==
  IF TypeID(m.wire) \in TunnelThreadTypes THEN PostTunnelData(q, r, m) ELSE q

(* Our endpoint of the reply tunnel (TunnelEndpoint::                     *)
(* HandleDecryptedTunnelDataMsg): after the tunnel ID, the fragment's     *)
(* flag, its size, and the message used in place (msg->offset at the      *)
(* fragment, len = offset + size); HandleNextMessage with delivery type   *)
(* local hands it to HandleI2NPMessage(msg), which posts it back to this  *)
(* same tunnel thread, behind what is already queued.                     *)
EndpointDeliverLocal(r, m) ==
  Bind(SubSeq(PayloadOf(m.wire), 5, TunnelDataSize), LAMBDA data :
    LET size == FromBigEndian(SubSeq(data, 2, 3))
        q    == [queue EXCEPT ![r] = Tail(@)]
    IN IF (data[1] \div 32) % 4 = 0
       THEN HandleI2NPMessageMsg(q, r, [to |-> r, wire |-> SubSeq(data, 4, 3 + size)])
       ELSE q)

(* Router r's tunnel thread (Tunnels::Run, outside these sources) takes   *)
(* the oldest message posted to it: tunnel data goes to the tunnel's      *)
(* endpoint, a gateway message to the tunnel gateway, a build message to  *)
(* HandleI2NPMessage(msg->GetBuffer(), msg->GetLength()).                 *)
TunnelThreadStep(r, accept) ==
  /\ queue[r] # <<>>
  /\ LET m == Head(queue[r]) IN
     CASE TypeID(m.wire) = I2NPType.TunnelData ->
            /\ queue' = EndpointDeliverLocal(r, m)
            /\ UNCHANGED <<tunnel, msgs, transit, lastRecords>>
       [] TypeID(m.wire) = I2NPType.TunnelGateway ->
            /\ DeliverThroughReplyTunnel(m)
            /\ queue' = [queue EXCEPT ![r] = Tail(@)]
       [] OTHER ->
            /\ HandleI2NPMessage(r, m.wire, accept)
            /\ queue' = [queue EXCEPT ![r] = Tail(@)]
  /\ UNCHANGED <<lost, dataBatch, batch>>

(* I2NPMessagesHandler::PutNextMessage at the receiving router: tunnel    *)
(* data and tunnel gateway messages wait in the handler's two batches;    *)
(* the rest go to HandleI2NPMessage(msg) at once.                         *)
PutNextMessage(m) ==
  /\ m \in msgs
  /\ msgs' = msgs \ {m}
  /\ CASE TypeID(m.wire) = I2NPType.TunnelData ->
            /\ dataBatch' = [dataBatch EXCEPT ![m.to] = Append(@, m)]
            /\ UNCHANGED <<batch, queue>>
       [] TypeID(m.wire) = I2NPType.TunnelGateway ->
            /\ batch' = [batch EXCEPT ![m.to] = Append(@, m)]
            /\ UNCHANGED <<dataBatch, queue>>
       [] OTHER ->
            /\ queue' = HandleI2NPMessageMsg(queue, m.to, m)
            /\ UNCHANGED <<dataBatch, batch>>
  /\ UNCHANGED <<tunnel, transit, lastRecords, lost>>

(* I2NPMessagesHandler::Flush: the batched tunnel data, then the batched  *)
(* gateway messages, are posted to the tunnel thread, whatever order they *)
(* arrived in, and both batches are cleared.                              *)
Flush(r) ==
  /\ dataBatch[r] # <<>> \/ batch[r] # <<>>
  /\ queue' = [queue EXCEPT ![r] = @ \o dataBatch[r] \o batch[r]]
  /\ dataBatch' = [dataBatch EXCEPT ![r] = <<>>]
  /\ batch' = [batch EXCEPT ![r] = <<>>]
  /\ UNCHANGED <<tunnel, msgs, transit, lastRecords, lost>>

(* transports.SendMessage is best effort: a message may be lost.          *)
LoseMessage(m) ==
  /\ m \in msgs
  /\ msgs' = msgs \ {m}
  /\ lost' = TRUE
  /\ UNCHANGED <<tunnel, transit, lastRecords, dataBatch, batch, queue>>

Next ==
  \/ \E m \in msgs : PutNextMessage(m) \/ LoseMessage(m)
  \/ \E r \in Nodes : Flush(r)
  \/ \E r \in Nodes, accept \in BOOLEAN : TunnelThreadStep(r, accept)

(* The transport's reactor hands every received message to the handler   *)
(* and flushes it after each read (NTCPSession::HandleReceived), and each *)
(* router's tunnel thread handles what is posted to it; losses get no     *)
(* fairness.                                                              *)
Fairness ==
  /\ WF_vars(\E m \in msgs : PutNextMessage(m))
  /\ \A r \in Nodes : WF_vars(Flush(r))
  /\ \A r \in Nodes : WF_vars(\E accept \in BOOLEAN : TunnelThreadStep(r, accept))

Spec == Init /\ [][Next]_vars /\ Fairness

-----------------------------------------------------------------------------
Record == [toPeer : Routers \cup {NoRouter}, receiveTunnel : TunnelIDs,
           nextIdent : Routers \cup {Us}, nextTunnel : TunnelIDs,
           flag : {0, 64, 128}, sendMsgID : ReplyMsgIDs, ret : {NoRet, 0, 30}]
Transit == [router : Routers, receiveTunnel : TunnelIDs,
            nextIdent : Routers \cup {Us}, nextTunnel : TunnelIDs,
            isGateway : BOOLEAN, isEndpoint : BOOLEAN]
(* A slot of a message buffer: a byte or a whole build record.          *)
(* A message in flight: a router, and wire bytes that start with a full   *)
(* I2NP header of bytes (the payload may hold build records).             *)
IsMsg(m) == /\ DOMAIN m = {"to", "wire"} /\ m.to \in Nodes
            /\ Len(m.wire) >= HeaderSize
            /\ \A k \in 1..HeaderSize : m.wire[k] \in 0..255
IsMsgSeq(s) == \A k \in DOMAIN s : IsMsg(s[k])

TypeOK ==
  /\ tunnel.state \in {"pending", "established", "failed"}
  /\ lastRecords \in [DOMAIN tunnel.hops -> Record]
  /\ \A m \in msgs : IsMsg(m)
  /\ transit \subseteq Transit
  /\ lost \in BOOLEAN
  /\ \A r \in Nodes : IsMsgSeq(dataBatch[r]) /\ IsMsgSeq(batch[r]) /\ IsMsgSeq(queue[r])

(* The transit tunnel a hop of the chain should hold: what TunnelConfig   *)
(* put in its record.                                                     *)
ExpectedTransit(i) ==
  LET h == tunnel.hops[i] IN
  [router |-> h.router, receiveTunnel |-> h.tunnelID,
   nextIdent |-> h.nextRouter, nextTunnel |-> h.nextTunnelID,
   isGateway |-> h.isGateway, isEndpoint |-> h.isEndpoint]

(* The flag byte CreateBuildRequestRecord encodes and                     *)
(* HandleBuildRequestRecords decodes, the record each hop picks and the  *)
(* tunnel IDs it reads, together give every hop that admitted exactly the *)
(* transit tunnel of its place in the TunnelConfig chain, and no other.   *)
TransitMatchesPath ==
  transit = {ExpectedTransit(i) : i \in {j \in DOMAIN lastRecords :
                                            lastRecords[j].ret = 0}}

(* Every I2NP message sent, batched or queued.                            *)
InFlight ==
  msgs \cup UNION {Range(dataBatch[r]) \cup Range(batch[r]) \cup Range(queue[r]) :
                   r \in Nodes}

(* The lengths a receiver reads agree with the bytes sent: the size field *)
(* of every header, and, in a gateway message that                         *)
(* CreateTunnelGatewayMsg built in place, the gateway header's length and  *)
(* the inner header's size, which were written at different offsets       *)
(* before and after the offset moved back.                                 *)
FramesAgree ==
  \A m \in InFlight :
    /\ GetI2NPMessageLength(m.wire) = Len(m.wire)
    /\ TypeID(m.wire) = I2NPType.TunnelGateway =>
         LET inner == SubSeq(m.wire, HeaderSize + GatewayHeaderSize + 1, Len(m.wire))
         IN /\ GatewayInnerLen(m.wire) = Len(inner)
            /\ GetI2NPMessageLength(inner) = Len(inner)

(* The build as the abstract specification sees it: a hop has decided    *)
(* once its record carries a ret, and the originator's verdict is the    *)
(* pending tunnel's state.                                                 *)
Decision(rec) ==
  CASE rec.ret = NoRet -> "pending"
    [] rec.ret = 0     -> "accepted"
    [] OTHER           -> "refused"

Abstract == INSTANCE TunnelBuildAbstract
              WITH decision <- [i \in DOMAIN lastRecords |->
                                  Decision(lastRecords[i])],
                   outcome <- tunnel.state

(* The hops answer their records in path order, each once, and the       *)
(* originator, by HandleVariableTunnelBuildMsg for an inbound tunnel or  *)
(* HandleVariableTunnelBuildReplyMsg for an outbound one, concludes only *)
(* after every hop answered: established exactly when every hop accepted. *)
ImplementsTunnelBuildAbstract == Abstract!Spec

(* With every tunnel thread handling what it is sent and the reply tunnel *)
(* carrying what its gateway receives, a build whose messages are not    *)
(* lost reaches the originator's pending tunnel and concludes: the        *)
(* endpoint's choice of forward (flag & 0x40) sends the reply where it is *)
(* expected, for inbound and outbound tunnels alike.                      *)
BuildConcludes == <>(tunnel.state # "pending" \/ lost)

=============================================================================
