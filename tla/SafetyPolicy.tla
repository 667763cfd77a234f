---------------------------- MODULE SafetyPolicy ----------------------------
(***************************************************************************)
(* The guards of provider_safety.go and selection_policy.go, on a status    *)
(* whose timestamps are timers (see FailoverState).                         *)
(***************************************************************************)
EXTENDS FailoverState, NodeScoring

\* Mutant: the persisted attempt is not consulted.
providerMutationGate_Open(s) == TRUE

\* The persisted cooldown of the last attempted mutation has run out.
providerMutationGate(s) == s.attempted # "running"

\* Mutant: the expected change is not accepted either.
validateProviderFence_Strict(s, observedOwner, expectedOwner) ==
  s.observed \in {None, observedOwner}

\* Only the change towards expectedOwner is accepted; observed may be "".
validateProviderFence(s, observedOwner, expectedOwner) ==
  s.observed \in {None, observedOwner} \/ observedOwner = expectedOwner

validateProviderRecoveryFence(s, observedOwner, expectedOwner) ==
  s.observed \in {None, observedOwner} \/ observedOwner = expectedOwner

\* stabilizationWindow + minHealthyWindow have passed since CandidateSince.
candidateReadyForHandoff(s, candidate) ==
  nodeAcceptable(candidate) /\ s.candidateSince = "elapsed"

\* A node's server id, or "" when the node is absent or not annotated.
serverIDForNode(nodes, name) ==
  IF name \in DOMAIN nodes /\ nodes[name].serverID THEN name ELSE None

\* The node annotated with a server id, or nil.
nodeForServerID(nodes, server) ==
  IF server \in DOMAIN nodes /\ nodes[server].serverID THEN server ELSE None
=============================================================================
