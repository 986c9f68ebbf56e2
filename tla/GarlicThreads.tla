--------------------------- MODULE GarlicThreads ---------------------------
(***************************************************************************)
(* Garlic routing with several application threads calling                *)
(* GarlicDestination::WrapMessage at once (src/core/Garlic.cpp).          *)
(*                                                                         *)
(* GetRoutingSession looks m_Sessions up without m_SessionsMutex and only  *)
(* takes the mutex to insert a session it created, so the lookup and the   *)
(* insert are two steps of a thread, and other threads (and the other      *)
(* handlers of Garlic) may run between them.  A session found by the       *)
(* lookup is wrapped on in the same step: what follows touches only that   *)
(* session.  Everything else is the Garlic module unchanged.               *)
(***************************************************************************)
EXTENDS Garlic

CONSTANTS Threads   \* application threads that send to destinations

VARIABLES
  pc,        \* per thread: "idle", or "create" after a lookup that missed
  want,      \* per thread: the destination and attachLeaseSet looked up
  evicted    \* history: sessions CleanupRoutingSessions erased

tvars == <<pc, want, evicted>>

ThreadsInit ==
  /\ Init
  /\ pc = [t \in Threads |-> "idle"]
  /\ want = [t \in Threads |-> [d |-> CHOOSE d \in Dests : TRUE,
                                attach |-> FALSE]]
  /\ evicted = {}

(* GetRoutingSession's m_Sessions.find, outside the mutex: a hit wraps on  *)
(* the session found; a miss leaves the thread about to create one.       *)
LookupSession(t, d, attach, hasInbound) ==
  /\ pc[t] = "idle"
  /\ IF d \in DOMAIN sessions
     THEN /\ WrapSingleMessage(sessions[d], sess[sessions[d]], nextID,
                               hasInbound)
          /\ UNCHANGED <<sessions, pc, want>>
     ELSE /\ pc' = [pc EXCEPT ![t] = "create"]
          /\ want' = [want EXCEPT ![t] = [d |-> d, attach |-> attach]]
          /\ UNCHANGED vars
  /\ UNCHANGED evicted

(* The miss branch: make_shared a new session, then under the mutex       *)
(* m_Sessions[ident] = session, whatever the map now holds for ident;     *)
(* then WrapSingleMessage on the new session.                             *)
InsertSession(t, hasInbound) ==
  /\ pc[t] = "create"
  /\ Cardinality(DOMAIN sess) < MaxSessions
  /\ sessions' = (want[t].d :> nextID) @@ sessions
  /\ WrapSingleMessage(nextID, NewSession(want[t].attach), nextID + 1,
                       hasInbound)
  /\ pc' = [pc EXCEPT ![t] = "idle"]
  /\ UNCHANGED <<want, evicted>>

ThreadsNext ==
  \/ \E t \in Threads, d \in Dests, attach, hasInbound \in BOOLEAN :
       LookupSession(t, d, attach, hasInbound)
  \/ \E t \in Threads, hasInbound \in BOOLEAN : InsertSession(t, hasInbound)
  \/ /\ CleanupRoutingSessions
     /\ evicted' = evicted \cup (Range(sessions) \ Range(sessions'))
     /\ UNCHANGED <<pc, want>>
  \/ /\ \/ \E m \in network : ReceiveDeliveryStatus(m)
        \/ \E m \in network : PeerReceiveGarlic(m)
        \/ SetLeaseSetUpdated
        \/ \E m \in network : LoseMessage(m)
        \/ Tick
     /\ UNCHANGED tvars

ThreadsSpec == ThreadsInit /\ [][ThreadsNext]_<<vars, tvars>>

-----------------------------------------------------------------------------
ThreadsTypeOK ==
  /\ TypeOK
  /\ pc \in [Threads -> {"idle", "create"}]
  /\ want \in [Threads -> [d : Dests, attach : BOOLEAN]]
  /\ evicted \subseteq DOMAIN sess

(* Spec 4.6 and 5: one routing session per destination, reused across     *)
(* messages, in a registry whose reads and writes all take the mutex; so  *)
(* a session leaves m_Sessions only when CleanupRoutingSessions erases it, *)
(* never by another thread's GetRoutingSession overwriting it.            *)
SessionLeavesRegistryOnlyByCleanup ==
  \A sid \in DOMAIN sess : sid \in Range(sessions) \/ sid \in evicted

=============================================================================
