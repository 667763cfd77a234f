---------------------------- MODULE MCFoipSystem ----------------------------
(***************************************************************************)
(* Values of the constants for TLC.                                         *)
(***************************************************************************)
EXTENDS TwoNodes

MCNodes2 == {1, 2}
MCNodes3 == {1, 2, 3}

Healthy ==
  [mac |-> TRUE, serverID |-> TRUE, ready |-> "True", network |-> FALSE,
   unschedulable |-> FALSE, pid |-> FALSE, memory |-> FALSE, disk |-> FALSE]

NotReady == [Healthy EXCEPT !.ready = "False"]

HealthyOrNot == {Healthy, NotReady}

\* Nobody is ill at first.
AllHealthy == {[n \in Nodes |-> Healthy]}

\* The node the provider routes to is ill at first.
OwnerNotReady == {[n \in Nodes |-> IF n = 1 THEN NotReady ELSE Healthy]}

RoutedToFirst == {1}
RoutedAnywhere == Servers
=============================================================================
