------------------------------- MODULE Garlic -------------------------------
(***************************************************************************)
(* Garlic routing between our GarlicDestination and one remote peer       *)
(* (src/core/Garlic.cpp).                                                  *)
(*                                                                         *)
(* Our side: the registry m_Sessions (destination -> GarlicRoutingSession),*)
(* each session's tag pool m_SessionTags, its batches of new tags awaiting *)
(* confirmation m_UnconfirmedTagsMsgs, its lease-set update state, the     *)
(* registry's m_CreatedSessions (DeliveryStatus msgID -> session) and our  *)
(* inbound tag table m_Tags, which holds the one-shot tags that decrypt    *)
(* DeliveryStatus replies.                                                 *)
(*                                                                         *)
(* The peer runs the same HandleGarlicMessage: its m_Tags maps the tags we *)
(* sent it to the session key they decrypt with.  It returns the           *)
(* DeliveryStatus clove through our inbound tunnel.  The network between   *)
(* us loses and reorders messages.                                         *)
(*                                                                         *)
(* Keys, tags and message IDs are fresh numbers; a session's AES key is    *)
(* named by the session's number.  Time is in abstract ticks.              *)
(***************************************************************************)
EXTENDS Integers, Sequences, FiniteSets, SequencesExt

CONSTANTS
  Dests,                \* remote destinations we wrap messages for
  NumTagsWithLeaseSet,  \* tags per batch of a session made with attachLeaseSet
  NumTagsPlain,         \* tags per batch of any other session
  OutgoingTagsTimeout,  \* OUTGOING_TAGS_EXPIRATION_TIMEOUT: our batches and pool
  IncomingTagsTimeout,  \* INCOMING_TAGS_EXPIRATION_TIMEOUT: inbound tag tables
  LeaseSetTimeout,      \* LEASET_CONFIRMATION_TIMEOUT
  MaxTime,              \* bound: last tick of the clock
  MaxIDs,               \* bound: fresh tags, message IDs and keys drawn
  MaxSessions,          \* bound: routing sessions created in a run
  MaxLeaseSets          \* bound: versions of our lease-set in a run

ASSUME /\ NumTagsWithLeaseSet \in Nat \ {0} /\ NumTagsPlain \in Nat \ {0}
       /\ OutgoingTagsTimeout \in Nat \ {0} /\ IncomingTagsTimeout \in Nat \ {0} /\ LeaseSetTimeout \in Nat

DoNotSend == "DoNotSend"
Updated   == "Updated"
Submitted == "Submitted"
UpToDate  == "UpToDate"
LeaseSetStates == {DoNotSend, Updated, Submitted, UpToDate}

ElGamal == 0         \* prefix of a new-session message: no tag
NoMsgID == 0         \* m_LeaseSetUpdateMsgID before any submission
NoTag   == 0         \* no DeliveryStatus clove
NoLeaseSet == 0      \* no LeaseSet clove

VARIABLES
  now,              \* i2p::util::GetSecondsSinceEpoch()
  sessions,         \* m_Sessions: Dests -> session number
  sess,             \* every session object ever made: number -> state
  createdSessions,  \* m_CreatedSessions: msgID -> session number
  ourTags,          \* our m_Tags: tag -> creationTime
  ourLastCleanup,   \* our m_LastTagsCleanupTime
  peerTags,         \* the peer's m_Tags: tag -> [key, time]
  peerLastCleanup,  \* the peer's m_LastTagsCleanupTime
  leaseSet,         \* version of our current lease-set
  peerLeaseSet,     \* newest version of our lease-set the peer received
  network,          \* messages in flight, either way
  nextID,           \* source of fresh tags, message IDs and session keys
  wirePrefixes      \* history: tags sent as a message prefix, in order

vars == <<now, sessions, sess, createdSessions, ourTags, ourLastCleanup,
          peerTags, peerLastCleanup, leaseSet, peerLeaseSet, network,
          nextID, wirePrefixes>>

Erase(map, k) == [x \in DOMAIN map \ {k} |-> map[x]]
EraseAll(map, ks) == [x \in DOMAIN map \ ks |-> map[x]]

Expired(t) == now >= t + OutgoingTagsTimeout

-----------------------------------------------------------------------------
(* GarlicRoutingSession constructor for a remote destination.             *)
NewSession(attachLeaseSet) ==
  [pool |-> <<>>, unconfirmed |-> <<>>,
   numTags |-> IF attachLeaseSet THEN NumTagsWithLeaseSet ELSE NumTagsPlain,
   lsStatus |-> IF attachLeaseSet THEN Updated ELSE DoNotSend,
   lsMsgID |-> NoMsgID, lsTime |-> 0]

(* WrapSingleMessage, tag selection: expired tags at the front are        *)
(* dropped and the first unexpired one is taken, once.                    *)
FirstLive(pool) ==
  IF \E i \in DOMAIN pool : ~Expired(pool[i].time)
  THEN Min({i \in DOMAIN pool : ~Expired(pool[i].time)})
  ELSE 0

PopTagNoPop(pool) ==
  LET i == FirstLive(pool) IN
  IF i > 0 THEN [tag |-> pool[i].tag, rest |-> SubSeq(pool, i, Len(pool))]
           ELSE [tag |-> ElGamal, rest |-> <<>>]

PopTag(pool) ==
  LET i == FirstLive(pool) IN
  IF i > 0 THEN [tag |-> pool[i].tag, rest |-> SubSeq(pool, i + 1, Len(pool))]
           ELSE [tag |-> ElGamal, rest |-> <<>>]

(* GenerateSessionTags: numTags fresh tags, from identifier base on, that *)
(* share the batch's creation time.                                       *)
GenerateSessionTags(s, base) ==
  [tags |-> [k \in 1..s.numTags |-> base + k - 1], time |-> now]

(* CreateDeliveryStatusClove: the DeliveryStatus goes back through an     *)
(* inbound tunnel of the owner's pool, garlic-wrapped with a fresh        *)
(* one-shot key and tag; without an inbound tunnel the clove is empty     *)
(* (size 0, here NoTag).                                                   *)
CreateDeliveryStatusClove(oneShot, hasInbound) ==
  IF hasInbound THEN oneShot ELSE NoTag

(* SubmitSessionKey, i.e. AddSessionKey: the one-shot tag enters our      *)
(* m_Tags, stamped with the current time.                                 *)
SubmitSessionKey(tag) == ourTags' = (tag :> now) @@ ourTags

(* CleanupExpiredTags: the session's state after the sweep; the batches   *)
(* it discards leave m_CreatedSessions through RemoveCreatedSession.      *)
ExpiredBatchesAnyAge(s) == DOMAIN s.unconfirmed

ExpiredBatches(s) == {id \in DOMAIN s.unconfirmed :
                        Expired(s.unconfirmed[id].time)}

CleanupExpiredTags(s) ==
  [s EXCEPT !.pool = SelectSeq(@, LAMBDA t : ~Expired(t.time)),
            !.unconfirmed = EraseAll(@, ExpiredBatches(s))]

(* The value CleanupExpiredTags returns: keep the session?                *)
KeepSession(s) ==
  LET c == CleanupExpiredTags(s) IN c.pool # <<>> \/ c.unconfirmed = <<>>

TagsConfirmedAnyBatch(s, msgID) ==
  LET ids == DOMAIN s.unconfirmed IN
  [s EXCEPT !.pool = @ \o SetToSeq(UNION {{[tag |-> s.unconfirmed[id].tags[k],
                                            time |-> s.unconfirmed[id].time] :
                                           k \in DOMAIN s.unconfirmed[id].tags} :
                                          id \in ids}),
            !.unconfirmed = <<>>]

(* TagsConfirmed: a confirmed batch joins the pool unless it is too old.  *)
TagsConfirmed(s, msgID) ==
  IF msgID \notin DOMAIN s.unconfirmed THEN s
  ELSE LET b == s.unconfirmed[msgID] IN
       [s EXCEPT !.pool = IF ~Expired(b.time)
                          THEN @ \o [i \in 1..Len(b.tags) |->
                                       [tag |-> b.tags[i], time |-> b.time]]
                          ELSE @,
                 !.unconfirmed = Erase(@, msgID)]

(* HandleGarlicMessage's closing sweep of an inbound tag table.           *)
SweepTable(table, last, times) ==
  IF now > last + IncomingTagsTimeout
  THEN [table |-> IF last # 0
                  THEN [t \in {x \in DOMAIN table :
                                 ~(now > times[x] + IncomingTagsTimeout)}
                          |-> table[t]]
                  ELSE table,
        last |-> now]
  ELSE [table |-> table, last |-> last]

-----------------------------------------------------------------------------
Init ==
  /\ now = 1
  /\ sessions = <<>>
  /\ sess = <<>>
  /\ createdSessions = <<>>
  /\ ourTags = <<>>
  /\ ourLastCleanup = 0
  /\ peerTags = <<>>
  /\ peerLastCleanup = 0
  /\ leaseSet = 1
  /\ peerLeaseSet = NoLeaseSet
  /\ network = {}
  /\ nextID = 1
  /\ wirePrefixes = <<>>

(* GetRoutingSession: the registered session, or a new one (with a fresh  *)
(* key) that the caller registers.                                         *)
GetRoutingSession(d, attachLeaseSet) ==
  IF d \in DOMAIN sessions
  THEN [isNew |-> FALSE, sid |-> sessions[d], s |-> sess[sessions[d]]]
  ELSE [isNew |-> TRUE, sid |-> nextID, s |-> NewSession(attachLeaseSet)]

(***************************************************************************)
(* GarlicRoutingSession::WrapSingleMessage on session sid (state s0), with *)
(* CreateAESBlock, CreateGarlicPayload and CreateDeliveryStatusClove: tag  *)
(* selection, the new-tags rule, the lease-set timeout and cloves, and     *)
(* DeliveryStatusSent.  base is the first fresh identifier.  hasInbound is *)
(* whether the tunnel pool has an inbound tunnel for the DeliveryStatus.   *)
(***************************************************************************)
WrapSingleMessage(sid, s0, base, hasInbound) ==
  LET tag   == PopTag(s0.pool).tag
      pool1 == PopTag(s0.pool).rest
      newTags == s0.numTags > 0 /\ Len(pool1) <= (s0.numTags * 2) \div 3
      batch == IF newTags THEN GenerateSessionTags(s0, base).tags ELSE <<>>
      msgID == base + Len(batch)
      oneShot == msgID + 1
      ls1   == IF s0.lsStatus = Submitted /\ now > s0.lsTime + LeaseSetTimeout
               THEN Updated ELSE s0.lsStatus
      ds    == IF newTags \/ ls1 = Updated
               THEN CreateDeliveryStatusClove(oneShot, hasInbound) ELSE NoTag
      dsClove == ds # NoTag
      lsClove == ls1 = Updated
      s1 == [s0 EXCEPT
               !.pool = pool1,
               !.unconfirmed = IF dsClove /\ newTags
                               THEN (msgID :> [tags |-> batch, time |-> now])
                                      @@ @
                               ELSE @,
               !.lsStatus = IF lsClove THEN Submitted ELSE ls1,
               !.lsMsgID = IF lsClove THEN msgID ELSE @,
               !.lsTime = IF lsClove THEN now ELSE @]
  IN
  /\ oneShot <= MaxIDs
  /\ sess' = (sid :> s1) @@ sess
  /\ createdSessions' = IF dsClove THEN (msgID :> sid) @@ createdSessions
                                   ELSE createdSessions
  /\ IF dsClove THEN SubmitSessionKey(oneShot) ELSE UNCHANGED ourTags
  /\ network' = network \cup
       {[kind |-> "garlic", key |-> sid, prefix |-> tag,
         tags |-> ToSet(batch), ds |-> ds,
         msgID |-> msgID, leaseSet |-> IF lsClove THEN leaseSet
                                                  ELSE NoLeaseSet]}
  /\ nextID' = oneShot + 1
  /\ wirePrefixes' = IF tag # ElGamal THEN Append(wirePrefixes, tag)
                                      ELSE wirePrefixes
  /\ UNCHANGED <<now, ourLastCleanup, peerTags, peerLastCleanup, leaseSet,
                 peerLeaseSet>>

(* GarlicDestination::WrapMessage: GetRoutingSession finds the session or  *)
(* creates and registers one (its key takes a fresh identifier), then     *)
(* WrapSingleMessage on it.                                                *)
WrapMessage(d, attachLeaseSet, hasInbound) ==
  LET rs == GetRoutingSession(d, attachLeaseSet) IN
  /\ rs.isNew => Cardinality(DOMAIN sess) < MaxSessions
  /\ sessions' = IF rs.isNew THEN (d :> rs.sid) @@ sessions ELSE sessions
  /\ WrapSingleMessage(rs.sid, rs.s, IF rs.isNew THEN nextID + 1 ELSE nextID,
                       hasInbound)

(***************************************************************************)
(* GarlicDestination::HandleDeliveryStatusMessage with                     *)
(* GarlicRoutingSession::MessageConfirmed: the acknowledged session's tags *)
(* are promoted, its lease-set confirmed if msgID matches, else its tags   *)
(* cleaned up; batches cleaned up leave m_CreatedSessions too.            *)
(***************************************************************************)
MessageConfirmedAlways(s, msgID) ==
  [TagsConfirmed(s, msgID) EXCEPT !.lsStatus = UpToDate]

MessageConfirmed(s, msgID) ==
  LET t == TagsConfirmed(s, msgID) IN
  IF msgID = t.lsMsgID THEN [t EXCEPT !.lsStatus = UpToDate]
                       ELSE CleanupExpiredTags(t)

CleanedUpBatches(s, msgID) ==
  LET t == TagsConfirmed(s, msgID) IN
  IF msgID = t.lsMsgID THEN {} ELSE ExpiredBatches(t)

HandleDeliveryStatusMessageEraseFirst(msgID) ==
  [sess |-> sess, created |-> Erase(createdSessions, msgID)]

HandleDeliveryStatusMessage(msgID) ==
  IF msgID \in DOMAIN createdSessions
  THEN LET sid == createdSessions[msgID] IN
       [sess |-> [sess EXCEPT ![sid] = MessageConfirmed(@, msgID)],
        created |-> EraseAll(createdSessions,
                             CleanedUpBatches(sess[sid], msgID) \cup {msgID})]
  ELSE [sess |-> sess, created |-> createdSessions]

(***************************************************************************)
(* Our GarlicDestination::HandleGarlicMessage on a returned DeliveryStatus *)
(* garlic: the one-shot tag from SubmitSessionKey decrypts it (and is      *)
(* erased), its local clove goes to HandleDeliveryStatusMessage; without   *)
(* the tag the ElGamal attempt fails.  The expired-tag sweep closes it.    *)
(***************************************************************************)
ReceiveDeliveryStatus(m) ==
  LET found == m.tag \in DOMAIN ourTags
      ack   == IF found THEN HandleDeliveryStatusMessage(m.msgID)
                        ELSE [sess |-> sess, created |-> createdSessions]
      sweep == SweepTable(IF found THEN Erase(ourTags, m.tag) ELSE ourTags,
                          ourLastCleanup, ourTags)
  IN
  /\ m.kind = "ack"
  /\ network' = network \ {m}
  /\ sess' = ack.sess
  /\ createdSessions' = ack.created
  /\ ourTags' = sweep.table
  /\ ourLastCleanup' = sweep.last
  /\ UNCHANGED <<now, sessions, peerTags, peerLastCleanup, leaseSet,
                 peerLeaseSet, nextID, wirePrefixes>>

(***************************************************************************)
(* The peer's HandleGarlicMessage, HandleAESBlock and HandleGarlicPayload. *)
(* A tag prefix found in its m_Tags decrypts with the key stored for it    *)
(* (and is erased); an ElGamal block carries the session key.  Decrypted,  *)
(* the block's new tags enter its m_Tags, the DeliveryStatus clove is sent *)
(* through an outbound tunnel to our inbound tunnel, and the LeaseSet      *)
(* clove stores our lease-set.  The expired-tag sweep closes it.           *)
(***************************************************************************)
PeerReceiveGarlic(m) ==
  LET byTag    == m.prefix # ElGamal
      found    == byTag /\ m.prefix \in DOMAIN peerTags
      decrypts == IF byTag THEN found /\ peerTags[m.prefix].key = m.key
                           ELSE TRUE
      tags1    == IF found THEN Erase(peerTags, m.prefix) ELSE peerTags
      tags2    == IF decrypts
                  THEN [t \in m.tags |-> [key |-> m.key, time |-> now]] @@ tags1
                  ELSE tags1
      sweep    == SweepTable(tags2, peerLastCleanup,
                          [x \in DOMAIN tags2 |-> tags2[x].time])
  IN
  /\ m.kind = "garlic"
  /\ network' = (network \ {m}) \cup
                  IF decrypts /\ m.ds # NoTag
                  THEN {[kind |-> "ack", tag |-> m.ds, msgID |-> m.msgID]}
                  ELSE {}
  /\ peerTags' = sweep.table
  /\ peerLastCleanup' = sweep.last
  /\ peerLeaseSet' = IF decrypts /\ m.leaseSet > peerLeaseSet
                     THEN m.leaseSet ELSE peerLeaseSet
  /\ UNCHANGED <<now, sessions, sess, createdSessions, ourTags,
                 ourLastCleanup, leaseSet, nextID, wirePrefixes>>

(***************************************************************************)
(* GarlicDestination::CleanupRoutingSessions, run by the destination's     *)
(* timer: every registered session sweeps its expired tags and batches,    *)
(* and is erased when CleanupExpiredTags returns false.                    *)
(***************************************************************************)
CleanupRoutingSessions ==
  LET live == Range(sessions) IN
  /\ sess' = [sid \in DOMAIN sess |->
                IF sid \in live THEN CleanupExpiredTags(sess[sid])
                                ELSE sess[sid]]
  /\ createdSessions' = EraseAll(createdSessions,
                          UNION {ExpiredBatches(sess[sid]) : sid \in live})
  /\ sessions' = [d \in {x \in DOMAIN sessions : KeepSession(sess[sessions[x]])}
                    |-> sessions[d]]
  /\ UNCHANGED <<now, ourTags, ourLastCleanup, peerTags, peerLastCleanup,
                 leaseSet, peerLeaseSet, network, nextID, wirePrefixes>>

(***************************************************************************)
(* GarlicDestination::SetLeaseSetUpdated, called when our lease-set is     *)
(* republished: every registered session moves to Updated.                 *)
(***************************************************************************)
SetLeaseSetUpdated ==
  /\ leaseSet < MaxLeaseSets
  /\ leaseSet' = leaseSet + 1
  /\ sess' = [sid \in DOMAIN sess |->
                IF sid \in Range(sessions)
                THEN [sess[sid] EXCEPT !.lsStatus = Updated]
                ELSE sess[sid]]
  /\ UNCHANGED <<now, sessions, createdSessions, ourTags, ourLastCleanup,
                 peerTags, peerLastCleanup, peerLeaseSet, network, nextID,
                 wirePrefixes>>

(* Transports and tunnels lose garlic messages and returned acks.         *)
LoseMessage(m) ==
  /\ network' = network \ {m}
  /\ UNCHANGED <<now, sessions, sess, createdSessions, ourTags,
                 ourLastCleanup, peerTags, peerLastCleanup, leaseSet,
                 peerLeaseSet, nextID, wirePrefixes>>

Tick ==
  /\ now < MaxTime
  /\ now' = now + 1
  /\ UNCHANGED <<sessions, sess, createdSessions, ourTags, ourLastCleanup,
                 peerTags, peerLastCleanup, leaseSet, peerLeaseSet, network,
                 nextID, wirePrefixes>>

Next ==
  \/ \E d \in Dests, attach, hasInbound \in BOOLEAN :
       WrapMessage(d, attach, hasInbound)
  \/ \E m \in network : ReceiveDeliveryStatus(m)
  \/ \E m \in network : PeerReceiveGarlic(m)
  \/ CleanupRoutingSessions
  \/ SetLeaseSetUpdated
  \/ \E m \in network : LoseMessage(m)
  \/ Tick

Spec == Init /\ [][Next]_vars

(* The destination runs CleanupRoutingSessions on a periodic timer, and   *)
(* time passes; acks and peers get no fairness, as the network may lose.  *)
FairSpec == Spec /\ WF_vars(CleanupRoutingSessions) /\ WF_vars(Tick)

-----------------------------------------------------------------------------
SessionOK(s) ==
  /\ \A i \in DOMAIN s.pool : s.pool[i].tag \in 1..MaxIDs
  /\ \A id \in DOMAIN s.unconfirmed : id \in 1..MaxIDs
  /\ s.numTags \in {NumTagsWithLeaseSet, NumTagsPlain}
  /\ s.lsStatus \in LeaseSetStates
  /\ s.lsStatus \in {Submitted, UpToDate} => s.lsMsgID \in 1..MaxIDs

TypeOK ==
  /\ now \in 1..MaxTime
  /\ DOMAIN sessions \subseteq Dests /\ Range(sessions) \subseteq DOMAIN sess
  /\ \A sid \in DOMAIN sess : SessionOK(sess[sid])
  /\ Range(createdSessions) \subseteq DOMAIN sess
  /\ \A m \in network : m.kind \in {"garlic", "ack"}
  /\ leaseSet \in 1..MaxLeaseSets /\ peerLeaseSet \in 0..leaseSet

(* WrapSingleMessage pops every tag it uses ("use same tag only once"):   *)
(* no session tag is ever sent as the prefix of two garlic messages, over *)
(* confirmations, duplicate batches and cleanups.                         *)
TagUsedOnce == IsInjective(wirePrefixes)

(* Tags enter a session's pool only through TagsConfirmed, after the peer *)
(* acknowledged the message that carried them: every unexpired tag in any *)
(* pool is in the peer's m_Tags under that session's key, so the next     *)
(* message sent with it decrypts.  Lost messages, lost acks, late acks    *)
(* and both sides' expiry sweeps are all in play: the sender stops using  *)
(* a tag at creation + OUTGOING (>=), the peer forgets it on a sweep after *)
(* receipt + INCOMING (>), and receipt is never before creation.          *)
PoolTagsKnownToPeer ==
  \A sid \in DOMAIN sess : \A i \in DOMAIN sess[sid].pool :
    LET t == sess[sid].pool[i] IN
    ~Expired(t.time) => /\ t.tag \in DOMAIN peerTags
                        /\ peerTags[t.tag].key = sid

(* CreateGarlicPayload records a batch in m_UnconfirmedTagsMsgs only with *)
(* a DeliveryStatus clove registered by DeliveryStatusSent: every pending *)
(* batch can still be confirmed, because m_CreatedSessions maps its msgID *)
(* to its session, through acknowledgements and cleanups of other batches.*)
BatchesAwaitingAck ==
  \A sid \in DOMAIN sess : \A id \in DOMAIN sess[sid].unconfirmed :
    id \in DOMAIN createdSessions /\ createdSessions[id] = sid

(* Spec 4.4 and 5: a batch of new tags leaves m_UnconfirmedTagsMsgs only  *)
(* by joining the pool when its own ack arrives, or once it has expired:  *)
(* neither MessageConfirmed of another batch, nor CleanupExpiredTags, nor *)
(* CleanupRoutingSessions discards a batch the peer may still confirm.    *)
PoolTags(s) == {s.pool[i].tag : i \in DOMAIN s.pool}

BatchLeavesOnlyByAckOrExpiry ==
  [][\A sid \in DOMAIN sess : \A id \in DOMAIN sess[sid].unconfirmed :
       LET b == sess[sid].unconfirmed[id] IN
       id \notin DOMAIN sess'[sid].unconfirmed =>
         \/ Expired(b.time)
         \/ ToSet(b.tags) \subseteq PoolTags(sess'[sid])]_vars

(* The lease-set state machine (spec 4.5): a registered session in        *)
(* UpToDate has had our current lease-set delivered to the peer.  Broken  *)
(* if MessageConfirmed accepts the ack of an older submission after       *)
(* SetLeaseSetUpdated.                                                     *)
LeaseSetUpToDateMeansDelivered ==
  \A d \in DOMAIN sessions :
    sess[sessions[d]].lsStatus = UpToDate => peerLeaseSet = leaseSet

(* Spec 5, cancellation: once a batch of new tags has aged past its       *)
(* timeout, CleanupExpiredTags makes the registry drop createdSessions    *)
(* [msgID]; so an entry of m_CreatedSessions for an expired, unacked      *)
(* batch is eventually removed, even if the ack is lost.                  *)
ExpiredPending(id) ==
  \E sid \in DOMAIN sess : /\ id \in DOMAIN sess[sid].unconfirmed
                          /\ Expired(sess[sid].unconfirmed[id].time)

ExpiredBatchForgotten ==
  \A id \in 1..MaxIDs :
    (id \in DOMAIN createdSessions /\ ExpiredPending(id))
      ~> id \notin DOMAIN createdSessions

=============================================================================
