------------------------- MODULE TunnelBuildAbstract -------------------------
(***************************************************************************)
(* What building a tunnel promises (spec 4.2): the request visits the hops *)
(* of the path in order; each hop decides once, to accept (and create its  *)
(* transit tunnel) or to refuse; once every hop has decided, the           *)
(* originator concludes, and the tunnel is established exactly when every  *)
(* hop accepted.  A build may also stall (a message lost on the way): the *)
(* specification is a safety property, with no obligation to conclude.    *)
(***************************************************************************)
EXTENDS Naturals

CONSTANT MaxHops

VARIABLES
  decision,   \* hop index -> "pending", "accepted" or "refused"
  outcome     \* the originator's verdict: "pending", "established", "failed"

Decided(i) == decision[i] # "pending"

Init ==
  /\ \E n \in 1..MaxHops : decision = [i \in 1..n |-> "pending"]
  /\ outcome = "pending"

(* Hop i decides, after every hop before it on the path.                  *)
Decide(i) ==
  /\ ~Decided(i)
  /\ \A j \in 1..i-1 : Decided(j)
  /\ \E d \in {"accepted", "refused"} : decision' = [decision EXCEPT ![i] = d]
  /\ UNCHANGED outcome

(* The originator reads every hop's answer.                               *)
Conclude ==
  /\ outcome = "pending"
  /\ \A i \in DOMAIN decision : Decided(i)
  /\ outcome' = IF \A i \in DOMAIN decision : decision[i] = "accepted"
                THEN "established" ELSE "failed"
  /\ UNCHANGED decision

Next == Conclude \/ \E i \in DOMAIN decision : Decide(i)

Spec == Init /\ [][Next]_<<decision, outcome>>

=============================================================================
