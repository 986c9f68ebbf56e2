---------------------------- MODULE I2NPMessage ----------------------------
(***************************************************************************)
(* The I2NP message buffer and its framing (src/core/I2NPProtocol.cpp,     *)
(* with the I2NPMessage accessors of I2NPProtocol.h, spec 3 and 4.1).      *)
(*                                                                         *)
(* A message is a fixed-capacity buffer of maxLen slots, byte p of the    *)
(* code at index p + 1, with the code's offset and len: the                *)
(* 16-byte header sits at [offset, offset+16) and the payload follows up  *)
(* to len.  A slot holds a byte (0..255) or, for a build record, the       *)
(* whole record: a 528-byte record is one slot.  Multi-byte fields are     *)
(* written and read big-endian.  The random word of FillI2NPMessageHeader  *)
(* and the clock are arguments.                                            *)
(***************************************************************************)
EXTENDS Integers, Sequences, SequencesExt

CONSTANTS
  ShortSize,       \* I2NP_MAX_SHORT_MESSAGE_SIZE
  MaxSize,         \* I2NP_MAX_MESSAGE_SIZE
  TunnelDataSize,  \* i2p::tunnel::TUNNEL_DATA_MSG_SIZE
  Sha256Byte(_)    \* SHA-256 of a payload, its first byte

HeaderSize == 16          \* I2NP_HEADER_SIZE
SizeOffset == 13          \* I2NP_HEADER_SIZE_OFFSET
GatewayHeaderSize == 6    \* TUNNEL_GATEWAY_HEADER_SIZE: tunnelID(4) len(2)
Uninit == "uninit"        \* a slot nothing has written yet

(* I2NPMessageType, the type IDs of the messages a tunnel build uses.     *)
I2NPType == [TunnelData |-> 18, TunnelGateway |-> 19, TunnelBuild |-> 21,
             TunnelBuildReply |-> 22, VariableTunnelBuild |-> 23,
             VariableTunnelBuildReply |-> 24]

(* htobe{16,32,64}buf and bufbe{16,32}toh.                                *)
RECURSIVE BigEndian(_, _)
BigEndian(v, w) == IF w = 0 THEN <<>> ELSE BigEndian(v \div 256, w - 1) \o <<v % 256>>
RECURSIVE FromBigEndian(_)
FromBigEndian(s) == IF s = <<>> THEN 0 ELSE FromBigEndian(Front(s)) * 256 + Last(s)

(* I2NPMessageBuffer<sz>: two bytes reserved in front for the NTCP        *)
(* header, then room for the I2NP header.                                 *)
NewMessageBuffer(sz) ==
  [buf |-> [i \in 1..sz |-> Uninit], offset |-> 2,
   len |-> HeaderSize + 2, maxLen |-> sz]

NewI2NPShortMessage == NewMessageBuffer(ShortSize)

(* NewI2NPMessage(len): a short buffer for less than half its size.       *)
NewI2NPMessage(len) ==
  IF len < ShortSize \div 2 THEN NewI2NPShortMessage ELSE NewMessageBuffer(MaxSize)

(* The value of e, computed once, given to Op: a LET whose value is not   *)
(* recomputed at every use, also where TLC does not cache one (under       *)
(* ENABLED, which the fairness of the build path evaluates).              *)
Bind(e, Op(_)) == CHOOSE v \in {Op(x) : x \in {e}} : TRUE

(* memcpy of s into m's buffer at position pos.                           *)
Put(m, pos, s) ==
  Bind(s, LAMBDA bytes :
    [m EXCEPT !.buf = SubSeq(@, 1, pos) \o bytes
                        \o SubSeq(@, pos + Len(bytes) + 1, Len(@))])

(* The n bytes from position from.                                        *)
Slice(m, from, n) == SubSeq(m.buf, from + 1, from + n)

GetPayload(m) == m.offset + HeaderSize
GetLength(m) == m.len - m.offset
GetPayloadLength(m) == m.len - m.offset - HeaderSize

(* The bytes transports.SendMessage puts on the wire: GetBuffer() for     *)
(* GetLength() bytes.                                                     *)
Wire(m) == Slice(m, m.offset, GetLength(m))

(* FillI2NPMessageHeader: type, the reply message ID if there is one and  *)
(* a random word if not, expiration now + 5000 ms, then UpdateSize and    *)
(* UpdateChks over the payload as it stands.                              *)
FillI2NPMessageHeader(m, type, replyMsgID, rnd, now) ==
  Bind(m, LAMBDA msg :
    LET plen == GetPayloadLength(msg)
    IN Put(msg, msg.offset,
           <<type>> \o BigEndian(IF replyMsgID # 0 THEN replyMsgID ELSE rnd, 4)
             \o BigEndian(now + 5000, 8) \o BigEndian(plen, 2)
             \o <<Sha256Byte(Slice(msg, GetPayload(msg), plen))>>))

(* CreateI2NPMessage(type, buf, len, replyMsgID): the payload is copied   *)
(* only if it fits; a payload too long is left out with an error logged,  *)
(* and the header is filled either way.                                   *)
CreateI2NPMessage(type, payload, replyMsgID, rnd, now) ==
  Bind(NewI2NPMessage(Len(payload)), LAMBDA m :
    FillI2NPMessageHeader(
      IF m.len + Len(payload) < m.maxLen
      THEN [Put(m, GetPayload(m), payload) EXCEPT !.len = @ + Len(payload)]
      ELSE m,
      type, replyMsgID, rnd, now))

(* CreateTunnelDataMsg(tunnelID, payload): tunnelID, then                 *)
(* TUNNEL_DATA_MSG_SIZE - 4 bytes of payload.                             *)
CreateTunnelDataMsg(tunnelID, payload, rnd, now) ==
  LET m == NewI2NPShortMessage
      body == Put(Put(m, GetPayload(m) + 4, SubSeq(payload, 1, TunnelDataSize - 4)),
                  GetPayload(m), BigEndian(tunnelID, 4))
  IN FillI2NPMessageHeader([body EXCEPT !.len = @ + TunnelDataSize],
                           I2NPType.TunnelData, 0, rnd, now)

CreateTunnelGatewayMsgLenAfterShift(tunnelID, type, payload, replyMsgID, rnd, now) ==
  LET gw == HeaderSize + GatewayHeaderSize
      m1 == [NewI2NPMessage(Len(payload)) EXCEPT !.offset = @ + gw, !.len = @ + gw]
  IN Bind(FillI2NPMessageHeader(
            [Put(m1, GetPayload(m1), payload) EXCEPT !.len = @ + Len(payload)],
            type, replyMsgID, rnd, now),
          LAMBDA m3 :
            LET m4 == [m3 EXCEPT !.offset = @ - gw]
            IN FillI2NPMessageHeader(
                 Put(m4, GetPayload(m4),
                     BigEndian(tunnelID, 4) \o BigEndian(GetLength(m4), 2)),
                 I2NPType.TunnelGateway, 0, rnd, now))

(* CreateTunnelGatewayMsg(tunnelID, msgType, buf, len, replyMsgID): the   *)
(* inner message m3 is built in place behind room for the gateway         *)
(* message's header and gateway header, its length taken, the offset      *)
(* moved back, and the gateway header and outer I2NP header written in    *)
(* front.                                                                 *)
CreateTunnelGatewayMsg(tunnelID, type, payload, replyMsgID, rnd, now) ==
  LET gw == HeaderSize + GatewayHeaderSize
      m1 == [NewI2NPMessage(Len(payload)) EXCEPT !.offset = @ + gw, !.len = @ + gw]
  IN Bind(FillI2NPMessageHeader(
            [Put(m1, GetPayload(m1), payload) EXCEPT !.len = @ + Len(payload)],
            type, replyMsgID, rnd, now),
          LAMBDA m3 :
            LET len == GetLength(m3)
                m4  == [m3 EXCEPT !.offset = @ - gw]
            IN FillI2NPMessageHeader(
                 Put(m4, GetPayload(m4), BigEndian(tunnelID, 4) \o BigEndian(len, 2)),
                 I2NPType.TunnelGateway, 0, rnd, now))

-----------------------------------------------------------------------------
(* Reading a message from its wire bytes w (a sequence from 1): the      *)
(* header fields HandleI2NPMessage reads, and GetI2NPMessageLength.       *)
TypeID(w) == w[1]
MsgID(w) == FromBigEndian(SubSeq(w, 2, 5))
PayloadSize(w) == FromBigEndian(SubSeq(w, SizeOffset + 1, SizeOffset + 2))
PayloadOf(w) == Bind(PayloadSize(w), LAMBDA n : SubSeq(w, HeaderSize + 1, HeaderSize + n))
GetI2NPMessageLength(w) == PayloadSize(w) + HeaderSize

(* The TunnelGateway payload: tunnelID(4), len(2), the inner message.     *)
GatewayTunnelID(w) == FromBigEndian(SubSeq(PayloadOf(w), 1, 4))
GatewayInnerLen(w) == FromBigEndian(SubSeq(PayloadOf(w), 5, 6))
GatewayInner(w) ==
  SubSeq(PayloadOf(w), GatewayHeaderSize + 1, GatewayHeaderSize + GatewayInnerLen(w))

=============================================================================
