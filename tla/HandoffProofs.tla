--------------------------- MODULE HandoffProofs ---------------------------
(***************************************************************************)
(* What follows from Handoff for any nodes, and so for every system that    *)
(* implements it.                                                           *)
(***************************************************************************)
EXTENDS Handoff, TLAPS

\* Every step keeps the requests and the announcement backed by a holder: a
\* holder goes only where it is neither routed to nor asked for (line 122 of
\* nodeinterface_controller.go is the step that takes an address away).
LEMMA StepKeepsBacked == Backed /\ [Next]_vars => Backed'
<1> USE DEF Backed, RequestsAreBacked, AnnouncementIsTrue
<1> SUFFICES ASSUME Backed, [Next]_vars PROVE Backed'
  OBVIOUS
<1>1. CASE UNCHANGED vars
  BY <1>1 DEF vars
<1>2. ASSUME NEW n \in Nodes, Take(n) PROVE Backed'
  BY <1>2 DEF Take
<1>3. ASSUME NEW n \in Nodes, Drop(n) PROVE Backed'
  BY <1>3 DEF Drop
<1>4. ASSUME NEW n \in Nodes, Request(n) PROVE Backed'
  BY <1>4 DEF Request
<1>5. ASSUME NEW n \in Nodes, Reroute(n) PROVE Backed'
  BY <1>5 DEF Reroute
<1>6. ASSUME NEW n \in Nodes, Refuse(n) PROVE Backed'
  BY <1>6 DEF Refuse
<1>7. ASSUME NEW n \in Nodes, Announce(n) PROVE Backed'
  BY <1>7 DEF Announce
<1>8. CASE Withdraw
  BY <1>8 DEF Withdraw
<1> QED
  BY <1>1, <1>2, <1>3, <1>4, <1>5, <1>6, <1>7, <1>8 DEF Next

\* An announced owner (phase Succeeded) is the node the provider routes to and
\* holds the address, and every request names a holder.
THEOREM BackedAlways == Spec => []Backed
<1>1. Init => Backed
  BY DEF Init, Backed, RequestsAreBacked, AnnouncementIsTrue
<1> QED
  BY <1>1, StepKeepsBacked, PTL DEF Spec

\* Make before break: when the node that is routed to holds the address, the
\* node routed to after any step holds it as well.
THEOREM NeverUnreachable == Spec => StaysReachable
<1>1. ASSUME Backed, [Next]_vars, route \in holders
      PROVE  route' \in holders'
  <2>1. CASE UNCHANGED vars
    BY <1>1, <2>1 DEF vars
  <2>2. ASSUME NEW n \in Nodes, Take(n) PROVE route' \in holders'
    BY <1>1, <2>2 DEF Take
  <2>3. ASSUME NEW n \in Nodes, Drop(n) PROVE route' \in holders'
    BY <1>1, <2>3 DEF Drop
  <2>4. ASSUME NEW n \in Nodes, Reroute(n) PROVE route' \in holders'
    BY <1>1, <2>4 DEF Reroute, Backed, RequestsAreBacked
  <2>5. ASSUME NEW n \in Nodes, Request(n) \/ Refuse(n) \/ Announce(n)
        PROVE  route' \in holders'
    BY <1>1, <2>5 DEF Request, Refuse, Announce
  <2>6. CASE Withdraw
    BY <1>1, <2>6 DEF Withdraw
  <2> QED
    BY <1>1, <2>1, <2>2, <2>3, <2>4, <2>5, <2>6 DEF Next
<1>2. Backed /\ [Next]_vars => [(route \in holders) => (route' \in holders')]_vars
  BY <1>1
<1> QED
  BY <1>2, BackedAlways, PTL DEF Spec, StaysReachable
=============================================================================
