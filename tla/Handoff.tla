------------------------------ MODULE Handoff ------------------------------
(***************************************************************************)
(* What the operator promises about one address, without saying how: which  *)
(* nodes hold it, where the provider routes it, and in which order the two  *)
(* change.  ("Never change the provider route until the target node agent   *)
(* confirms", "cleanup only removes stale ownership after provider          *)
(* convergence and verification", ARCHITECTURE.md.)                         *)
(***************************************************************************)
CONSTANTS
  Nodes,   \* the nodes of the cluster
  Places,  \* where an address may be routed, nodes included
  None     \* no node

VARIABLES
  holders,   \* the nodes whose interface holds the address
  route,     \* where the provider routes the address
  requests,  \* the route changes that are asked for and not done
  announced  \* the node announced as the only owner, or None

vars == <<holders, route, requests, announced>>

Init ==
  /\ holders = {}
  /\ route \in Places
  /\ requests = {}
  /\ announced = None

Take(n) ==
  /\ holders' = holders \cup {n}
  /\ UNCHANGED <<route, requests, announced>>

\* A node that is routed to, or is about to be, keeps the address.
Drop(n) ==
  /\ n # route
  /\ n \notin requests
  /\ holders' = holders \ {n}
  /\ UNCHANGED <<route, requests, announced>>

\* Only a node that already holds the address is asked for, and only while no
\* node is announced.
Request(n) ==
  /\ n \in holders
  /\ announced = None
  /\ requests' = requests \cup {n}
  /\ UNCHANGED <<holders, route, announced>>

Reroute(n) ==
  /\ n \in requests
  /\ route' = n
  /\ requests' = requests \ {n}
  /\ UNCHANGED <<holders, announced>>

Refuse(n) ==
  /\ requests' = requests \ {n}
  /\ UNCHANGED <<holders, route, announced>>

\* Only a node that is routed to and holds the address is announced, and only
\* when nothing is on its way that would change the route.
Announce(n) ==
  /\ n = route
  /\ n \in holders
  /\ requests = {}
  /\ announced' = n
  /\ UNCHANGED <<holders, route, requests>>

Withdraw ==
  /\ announced' = None
  /\ UNCHANGED <<holders, route, requests>>

Next ==
  \/ \E n \in Nodes :
       Take(n) \/ Drop(n) \/ Request(n) \/ Reroute(n) \/ Refuse(n) \/ Announce(n)
  \/ Withdraw

Spec == Init /\ [][Next]_vars

-----------------------------------------------------------------------------

\* Make before break: once the node that is routed to holds the address,
\* there is no moment at which packets arrive where nobody holds it.
StaysReachable == [][(route \in holders) => (route' \in holders')]_vars

\* The announced owner is the one that is routed to, and it holds the address,
\* for as long as it is announced.
AnnouncementIsTrue ==
  announced # None => announced = route /\ route \in holders

\* Whatever is asked for is held, so every reroute ends at a holder, and
\* nothing is asked for behind an announcement.
RequestsAreBacked ==
  requests \subseteq holders /\ (requests # {} => announced = None)

Backed == RequestsAreBacked /\ AnnouncementIsTrue
=============================================================================
