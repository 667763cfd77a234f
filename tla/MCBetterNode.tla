---------------------------- MODULE MCBetterNode ----------------------------
(***************************************************************************)
(* Values of the constants for TLC: one state per issue, two states with    *)
(* two issues, and a node that lacks an annotation.                         *)
(***************************************************************************)
EXTENDS BetterNode

MCNodes == {1, 2, 3}

Healthy ==
  [mac |-> TRUE, serverID |-> TRUE, ready |-> "True", network |-> FALSE,
   unschedulable |-> FALSE, pid |-> FALSE, memory |-> FALSE, disk |-> FALSE]

MCNodeStates ==
  {Healthy,
   [Healthy EXCEPT !.network = TRUE],
   [Healthy EXCEPT !.ready = "False"],
   [Healthy EXCEPT !.ready = "Unknown"],
   [Healthy EXCEPT !.ready = "Absent"],
   [Healthy EXCEPT !.unschedulable = TRUE],
   [Healthy EXCEPT !.pid = TRUE],
   [Healthy EXCEPT !.memory = TRUE],
   [Healthy EXCEPT !.disk = TRUE],
   [Healthy EXCEPT !.memory = TRUE, !.disk = TRUE],
   [Healthy EXCEPT !.ready = "False", !.pid = TRUE],
   [Healthy EXCEPT !.mac = FALSE],
   [Healthy EXCEPT !.serverID = FALSE, !.network = TRUE]}
=============================================================================
