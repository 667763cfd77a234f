---------------------------- MODULE MCProbeGate ----------------------------
(***************************************************************************)
(* Values of the constants for TLC: a probe of each kind, the two of a      *)
(* phase with different thresholds.                                         *)
(***************************************************************************)
EXTENDS ProbeGate

MCProbes == {1, 2, 3}
MCProbePhase == <<"PreRoute", "Continuous", "PostRoute">>
MCSuccessThreshold == <<2, 2, 1>>
MCFailureThreshold == <<2, 3, 2>>

\* The pre-route and the continuous probe disagree, the other two agree.
MCSuggests ==
  <<[kind |-> "Any", quorum |-> 0], [kind |-> "Quorum", quorum |-> 2],
    [kind |-> "Quorum", quorum |-> 2]>>

\* Every kind of composition, and a quorum larger than any gate.
MCWritten ==
  [kind : {"", "All", "Any"}, quorum : {0}] \cup [kind : {"Quorum"}, quorum : {0, 2, 3}]
=============================================================================
