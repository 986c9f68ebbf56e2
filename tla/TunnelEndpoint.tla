--------------------------- MODULE TunnelEndpoint ---------------------------
(***************************************************************************)
(* The endpoint of a tunnel: i2p::tunnel::TunnelEndpoint                   *)
(* (src/core/tunnel/TunnelEndpoint.cpp).  It receives decrypted TunnelData *)
(* messages, walks the fragments each one carries, reassembles fragmented  *)
(* I2NP messages in m_IncompleteMessages, parks one early follow-on        *)
(* fragment per message ID in m_OutOfSequenceFragments, and dispatches     *)
(* every completed message by its delivery type.                           *)
(*                                                                         *)
(* Data is abstracted: a fragment's payload is its fragment number, so a   *)
(* reassembled message is the sequence of fragment numbers it was built    *)
(* from, and sizes are small integers in abstract units.  The fragments a  *)
(* TunnelData message carries are any the gateway could have written: the  *)
(* endpoint cannot trust its upstream, and the code checks what it reads.  *)
(***************************************************************************)
EXTENDS Integers, Sequences, SequencesExt

CONSTANTS
  MsgIDs,             \* values of the 4-byte message ID field (0 included)
  FollowOnNums,       \* values of the 6-bit fragment number of a follow-on
  Sizes,              \* fragment payload sizes, in abstract units
  DeliveryTypes,      \* 2-bit delivery type of a first fragment
  Hashes,             \* identity hashes a first fragment may name
  OurHash,            \* i2p::context.GetRouterInfo().GetIdentHash()
  NoHash,             \* no hash field (local and unknown delivery types)
  HeaderRoom,         \* buffer bytes in front of the first fragment's data
  ShortMessageSize,   \* I2NP_MAX_SHORT_MESSAGE_SIZE
  MaxMessageSize,     \* I2NP_MAX_MESSAGE_SIZE
  MaxFragmentsPerMsg, \* fragments carried by one TunnelData message
  MaxReceived,        \* bound: TunnelData messages received in a run
  TunnelDataMsgSize   \* TUNNEL_DATA_MSG_SIZE

ASSUME /\ 0 \in MsgIDs /\ OurHash \in Hashes /\ NoHash \notin Hashes
       /\ DeliveryTypes \subseteq 0..3 /\ FollowOnNums \subseteq 0..63
       /\ HeaderRoom + Max(Sizes) <= ShortMessageSize
       /\ ShortMessageSize < MaxMessageSize

VARIABLES
  isInbound,             \* m_IsInbound
  incomplete,            \* m_IncompleteMessages: msgID -> block
  outOfSequence,         \* m_OutOfSequenceFragments: msgID -> fragment
  dispatched,            \* messages handed on by HandleNextMessage, in order
  numReceivedBytes,      \* m_NumReceivedBytes
  arrived                \* history: fragments of every checksummed message

vars == <<isInbound, incomplete, outOfSequence, dispatched,
          numReceivedBytes, arrived>>

eDeliveryTypeLocal  == 0
eDeliveryTypeTunnel == 1
eDeliveryTypeRouter == 2

(* Fragments as the flag byte and the fields after it describe them.  An   *)
(* unfragmented first fragment carries no message ID, which the code reads *)
(* as 0; local and unknown delivery types carry no hash.                   *)
FirstFragments ==
  { f \in [follow : {FALSE}, deliveryType : DeliveryTypes,
           hash : Hashes \cup {NoHash}, fragmented : BOOLEAN,
           msgID : MsgIDs, size : Sizes] :
      /\ (f.hash = NoHash) <=> (f.deliveryType \notin {eDeliveryTypeTunnel,
                                                       eDeliveryTypeRouter})
      /\ ~f.fragmented => f.msgID = 0 }

FollowOnFragments ==
  [follow : {TRUE}, msgID : MsgIDs, fragmentNum : FollowOnNums,
   isLast : BOOLEAN, size : Sizes]

Fragments == FirstFragments \cup FollowOnFragments

(* A TunnelMessageBlockEx: delivery instructions, the data so far (as      *)
(* fragment numbers), the buffer's len and maxLen, and nextFragmentNum.    *)
Blocks ==
  [deliveryType : DeliveryTypes, hash : Hashes \cup {NoHash}, msgID : MsgIDs,
   data : Seq(Nat), len : Nat, maxLen : Nat, nextFragmentNum : Nat]

NewBlock(f) ==
  [deliveryType |-> f.deliveryType, hash |-> f.hash, msgID |-> f.msgID,
   data |-> <<0>>, len |-> HeaderRoom + f.size, maxLen |-> ShortMessageSize,
   nextFragmentNum |-> 1]

Erase(map, k) == [x \in DOMAIN map \ {k} |-> map[x]]

(* Append a fragment to a block; a buffer too small for the result is      *)
(* first copied into a long one (NewI2NPMessage), then memcpy follows.     *)
Concatenate(blk, num, size) ==
  [blk EXCEPT !.data   = Append(@, num),
              !.len    = @ + size,
              !.maxLen = IF blk.len + size > blk.maxLen THEN MaxMessageSize
                                                        ELSE @]

(* HandleNextMessage: where a completed message goes.  A router delivery   *)
(* to another router is forwarded only by an outbound endpoint; an unknown *)
(* delivery type is dropped.                                               *)
Route(blk) ==
  CASE blk.deliveryType = eDeliveryTypeLocal -> "local"
    [] blk.deliveryType = eDeliveryTypeTunnel -> "gateway"
    [] blk.deliveryType = eDeliveryTypeRouter /\ blk.hash = OurHash -> "local"
    [] blk.deliveryType = eDeliveryTypeRouter /\ ~isInbound -> "forward"
    [] OTHER -> "drop"

HandleNextMessage(st, blk) ==
  IF Route(blk) = "drop" THEN st
  ELSE [st EXCEPT !.out = Append(@, [via |-> Route(blk), hash |-> blk.hash,
                                     msgID |-> blk.msgID, data |-> blk.data,
                                     len |-> blk.len])]

(* The reassembly state threaded through the fragment loop.               *)
AddOutOfSequenceFragment(st, f) ==
  IF f.msgID \in DOMAIN st.oos THEN st
  ELSE [st EXCEPT !.oos = (f.msgID :> [fragmentNum |-> f.fragmentNum,
                                       isLastFragment |-> f.isLast,
                                       size |-> f.size]) @@ @]

(* Mutant: a parked fragment is taken whatever its fragment number.       *)
HandleOutOfSequenceFragmentAnyNum(st, id) ==
  IF id \notin DOMAIN st.oos THEN st
  ELSE LET frag  == st.oos[id]
           grown == Concatenate(st.inc[id], frag.fragmentNum, frag.size)
           done  == IF frag.isLastFragment
                    THEN [HandleNextMessage(st, grown)
                            EXCEPT !.inc = Erase(@, id)]
                    ELSE [st EXCEPT !.inc[id] =
                            [grown EXCEPT !.nextFragmentNum = @ + 1]]
       IN [done EXCEPT !.oos = Erase(@, id)]

HandleOutOfSequenceFragment(st, id) ==
  IF id \notin DOMAIN st.oos
     \/ st.oos[id].fragmentNum # st.inc[id].nextFragmentNum
  THEN st
  ELSE LET frag  == st.oos[id]
           grown == Concatenate(st.inc[id], frag.fragmentNum, frag.size)
           done  == IF frag.isLastFragment
                    THEN [HandleNextMessage(st, grown)
                            EXCEPT !.inc = Erase(@, id)]
                    ELSE [st EXCEPT !.inc[id] =
                            [grown EXCEPT !.nextFragmentNum = @ + 1]]
       IN [done EXCEPT !.oos = Erase(@, id)]

(* Mutant: an in-sequence fragment advances the message without looking  *)
(* for the parked fragment that may now be next.                          *)
HandleFollowOnFragmentNoLookup(st, f) ==
  LET id == f.msgID IN
  IF id \notin DOMAIN st.inc
     \/ f.fragmentNum # st.inc[id].nextFragmentNum
  THEN AddOutOfSequenceFragment(st, f)
  ELSE IF ~(st.inc[id].len + f.size < MaxMessageSize)
  THEN [st EXCEPT !.inc = Erase(@, id)]
  ELSE LET grown == Concatenate(st.inc[id], f.fragmentNum, f.size) IN
       IF f.isLast
       THEN [HandleNextMessage(st, grown) EXCEPT !.inc = Erase(@, id)]
       ELSE [st EXCEPT !.inc[id] = [grown EXCEPT !.nextFragmentNum = @ + 1]]

HandleFollowOnFragment(st, f) ==
  LET id == f.msgID IN
  IF id \notin DOMAIN st.inc
     \/ f.fragmentNum # st.inc[id].nextFragmentNum
  THEN AddOutOfSequenceFragment(st, f)
  ELSE IF ~(st.inc[id].len + f.size < MaxMessageSize)
  THEN [st EXCEPT !.inc = Erase(@, id)]
  ELSE LET grown == Concatenate(st.inc[id], f.fragmentNum, f.size) IN
       IF f.isLast
       THEN [HandleNextMessage(st, grown) EXCEPT !.inc = Erase(@, id)]
       ELSE HandleOutOfSequenceFragment(
              [st EXCEPT !.inc[id] = [grown EXCEPT !.nextFragmentNum = @ + 1]],
              id)

(* Mutant: a fragmented message without a message ID is not refused.     *)
ProcessFragmentNoIdCheck(st, f) ==
  CASE ~f.follow /\ ~f.fragmented -> HandleNextMessage(st, NewBlock(f))
    [] ~f.follow /\ f.msgID \in DOMAIN st.inc -> st
    [] ~f.follow ->
         HandleOutOfSequenceFragment(
           [st EXCEPT !.inc = (f.msgID :> NewBlock(f)) @@ @], f.msgID)
    [] OTHER -> HandleFollowOnFragment(st, f)

(* One pass of the while loop of HandleDecryptedTunnelDataMsg.            *)
ProcessFragment(st, f) ==
  CASE ~f.follow /\ ~f.fragmented -> HandleNextMessage(st, NewBlock(f))
    [] f.msgID = 0 -> st
    [] ~f.follow /\ f.msgID \in DOMAIN st.inc -> st
    [] ~f.follow ->
         HandleOutOfSequenceFragment(
           [st EXCEPT !.inc = (f.msgID :> NewBlock(f)) @@ @], f.msgID)
    [] OTHER -> HandleFollowOnFragment(st, f)

TunnelDataPayloads ==
  UNION { [1..n -> Fragments] : n \in 1..MaxFragmentsPerMsg }

-----------------------------------------------------------------------------
Init ==
  /\ isInbound \in BOOLEAN
  /\ incomplete = <<>>
  /\ outOfSequence = <<>>
  /\ dispatched = <<>>
  /\ numReceivedBytes = 0
  /\ arrived = {}

(* HandleDecryptedTunnelDataMsg with the zero byte found and the checksum  *)
(* verified: every fragment of the message is processed, in order.         *)
HandleDecryptedTunnelDataMsg ==
  /\ numReceivedBytes < MaxReceived * TunnelDataMsgSize
  /\ \E frags \in TunnelDataPayloads :
       LET st == FoldLeft(ProcessFragment,
                          [inc |-> incomplete, oos |-> outOfSequence,
                           out |-> dispatched], frags)
       IN /\ incomplete' = st.inc
          /\ outOfSequence' = st.oos
          /\ dispatched' = st.out
          /\ arrived' = arrived \cup ToSet(frags)
  /\ numReceivedBytes' = numReceivedBytes + TunnelDataMsgSize
  /\ UNCHANGED isInbound

(* HandleDecryptedTunnelDataMsg when no zero byte follows the checksum or  *)
(* the checksum does not match: the message is dropped after counting.    *)
DropCorruptTunnelDataMsg ==
  /\ numReceivedBytes < MaxReceived * TunnelDataMsgSize
  /\ numReceivedBytes' = numReceivedBytes + TunnelDataMsgSize
  /\ UNCHANGED <<isInbound, incomplete, outOfSequence, dispatched, arrived>>

Next == HandleDecryptedTunnelDataMsg \/ DropCorruptTunnelDataMsg

Spec == Init /\ [][Next]_vars

-----------------------------------------------------------------------------
TypeOK ==
  /\ isInbound \in BOOLEAN
  /\ \E ids \in SUBSET (MsgIDs \ {0}) : incomplete \in [ids -> Blocks]
  /\ \E ids \in SUBSET (MsgIDs \ {0}) :
       outOfSequence \in [ids -> [fragmentNum : FollowOnNums,
                                  isLastFragment : BOOLEAN, size : Sizes]]
  /\ \A i \in DOMAIN dispatched :
       dispatched[i].via \in {"local", "gateway", "forward"}
  /\ numReceivedBytes \in 0..MaxReceived * TunnelDataMsgSize
  /\ arrived \subseteq Fragments

(* Out-of-order reassembly (spec 8.4): whatever order, duplication or     *)
(* junk the fragments of a message arrive in, a fragmented message that   *)
(* HandleNextMessage receives is its fragments 0, 1, 2, ... concatenated  *)
(* in fragment-number order, nothing skipped, repeated or foreign: the    *)
(* nextFragmentNum checks of HandleFollowOnFragment and                   *)
(* HandleOutOfSequenceFragment are what keep it so.                       *)
ReassembledInOrder ==
  \A i \in DOMAIN dispatched :
    dispatched[i].msgID # 0 =>
      dispatched[i].data = [k \in 1..Len(dispatched[i].data) |-> k - 1]

(* No fragment is left stranded: when a message is incomplete and its     *)
(* parked out-of-sequence fragment is the one it waits for, that fragment *)
(* has already been taken.  Every path that creates an incomplete message *)
(* or advances its nextFragmentNum must look in m_OutOfSequenceFragments, *)
(* or the message waits forever for a fragment the endpoint already has.  *)
NoStrandedFragment ==
  \A id \in DOMAIN incomplete \cap DOMAIN outOfSequence :
    outOfSequence[id].fragmentNum # incomplete[id].nextFragmentNum

(* Spec 3, invariants: fragment reassembly never exceeds the maximum I2NP *)
(* message size, and no concatenation writes past the end of the buffer   *)
(* it was copied into.                                                    *)
ReassemblyWithinMaxSize ==
  /\ \A id \in DOMAIN incomplete :
       incomplete[id].len <= incomplete[id].maxLen
  /\ \A i \in DOMAIN dispatched : dispatched[i].len <= MaxMessageSize

(* Spec 8.4: for any permutation of the fragments of a message, once all  *)
(* of them (the first, then follow-ons 1 .. n-1 with only the last marked *)
(* last) have arrived, and nothing else under its ID, the message has     *)
(* been dispatched.                                                       *)
CompleteArrival(id, n) ==
  /\ \E f \in arrived : ~f.follow /\ f.fragmented /\ f.msgID = id
  /\ \A k \in 1..n-1 :
       \E f \in arrived : f.follow /\ f.msgID = id /\ f.fragmentNum = k
  /\ \A f \in arrived :
       f.follow /\ f.msgID = id =>
         f.fragmentNum \in 1..n-1 /\ f.isLast = (f.fragmentNum = n - 1)

AllFragmentsReassembled ==
  \A id \in MsgIDs \ {0}, n \in 2..Cardinality(FollowOnNums) + 1 :
    CompleteArrival(id, n) =>
      \E i \in DOMAIN dispatched : dispatched[i].msgID = id

(* Spec 8.3: feeding the same TunnelData message twice does not deliver   *)
(* a fragmented message twice; after completion duplicates are ignored.   *)
NoDuplicateDispatch ==
  \A i, j \in DOMAIN dispatched :
    i # j /\ dispatched[i].msgID # 0 => dispatched[i].msgID # dispatched[j].msgID

=============================================================================
