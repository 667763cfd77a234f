--------------------------- MODULE FailoverState ---------------------------
(***************************************************************************)
(* The persisted state machine of api/v1/failoverip_state.go: the status    *)
(* of a FailoverIp, its legal phase changes and the check that every        *)
(* reconcile runs on a status it has read.                                  *)
(*                                                                         *)
(* A node and the provider server it runs on share one name.  Node names    *)
(* are numbers, so that the comparison of names in node_scoring.go is <.    *)
(* A timestamp of the status is modelled by what its readers ask of it:     *)
(* "unset" (nil), "running" (its delay has not passed yet), "elapsed".      *)
(***************************************************************************)
EXTENDS Naturals, FiniteSets

CONSTANTS
  Nodes,               \* the node names, a set of numbers
  None,                \* "" or nil
  Unrouted,            \* server id 0: the address is routed nowhere
  Foreign,             \* a server that is no node of the cluster
  Tokens,              \* values of the foip.noshoes.xyz/reconcile annotation
  FailureThreshold,    \* failureThreshold(spec)
  RecoveryThreshold,   \* recoveryThreshold(spec)
  CleanupMaxAttempts   \* cleanupMaxAttempts(spec)

ASSUME NodesAssumption ==
  /\ Nodes \subseteq Nat
  /\ None \notin Nodes \cup {Unrouted, Foreign}
  /\ Unrouted \notin Nodes
  /\ Foreign \notin Nodes
  /\ Unrouted # Foreign

ASSUME TokensAssumption == None \notin Tokens

\* selection_policy.go replaces every value that is not positive by a default.
ASSUME ThresholdsAssumption ==
  /\ FailureThreshold \in Nat \ {0}
  /\ RecoveryThreshold \in Nat \ {0}
  /\ CleanupMaxAttempts \in Nat \ {0}

Servers == Nodes \cup {Unrouted, Foreign}

Phases ==
  {"Idle", "Selecting", "Stabilizing", "PreparingTarget", "TargetPrepared",
   "RoutingProvider", "VerifyingProvider", "VerifyingTraffic", "Committing",
   "CleaningStaleOwners", "Succeeded", "Degraded", "Blocked"}

Halted == {"Blocked", "Degraded"}

TimerStates == {"unset", "running", "elapsed"}

\* Which error path stopped the transition: the part of LastError and of the
\* Blocked and Degraded conditions that the properties tell apart.
HaltReasons ==
  {"InvalidSpec", "InvalidStatus", "ProviderOwnershipChanged", "Recovery",
   "CleanupTimeout", "UnexpectedPhase"}

ASSUME PhaseAssumption == None \notin Phases \cup HaltReasons

StatusType ==
  [started : BOOLEAN,                    \* TransitionID # ""
   phase : Phases \cup {None},
   source : Nodes \cup {None},           \* SourceNode
   target : Nodes \cup {None},           \* TargetNode
   observed : Servers \cup {None},       \* ProviderObservedOwner
   owners : SUBSET Nodes,                \* LocalOwners
   attempted : TimerStates,              \* LastAttemptedProviderMutationAt
   candidateSince : TimerStates,
   failures : 0 .. FailureThreshold - 1, \* CandidateFailureCount
   recoveries : 0 .. RecoveryThreshold - 1, \* CandidateRecoveryCount
   cleanups : 0 .. CleanupMaxAttempts,   \* CleanupAttempts
   nextCleanup : TimerStates,            \* NextCleanupAt
   token : Tokens \cup {None},           \* ManualReconcileToken
   halt : HaltReasons \cup {None}]

EmptyStatus ==
  [started |-> FALSE, phase |-> None, source |-> None, target |-> None,
   observed |-> None, owners |-> {}, attempted |-> "unset",
   candidateSince |-> "unset", failures |-> 0, recoveries |-> 0,
   cleanups |-> 0, nextCleanup |-> "unset", token |-> None, halt |-> None]

legalPhaseTransitions ==
  [Idle |-> {"Selecting"},
   Selecting |-> {"Stabilizing", "Blocked"},
   Stabilizing |-> {"PreparingTarget", "Selecting", "Blocked"},
   PreparingTarget |-> {"TargetPrepared", "Blocked"},
   TargetPrepared |-> {"RoutingProvider", "Blocked"},
   RoutingProvider |-> {"VerifyingProvider", "Degraded", "Blocked"},
   VerifyingProvider |-> {"VerifyingTraffic", "Degraded", "Blocked"},
   VerifyingTraffic |-> {"Committing", "Degraded", "Blocked"},
   Committing |-> {"CleaningStaleOwners", "Degraded", "Blocked"},
   CleaningStaleOwners |-> {"Succeeded", "Degraded", "Blocked"},
   Succeeded |-> {"Selecting"},
   Degraded |-> {"Selecting", "Blocked"},
   Blocked |-> {"Selecting"}]

CanTransition(from, to) ==
  from \in DOMAIN legalPhaseTransitions /\ to \in legalPhaseTransitions[from]

\* Mutant: source and target may be equal in every phase.
ValidateStatus_AnySource(s) ==
  \/ s.phase = None
  \/ /\ s.started
     /\ s.phase \in DOMAIN legalPhaseTransitions
     /\ s.phase = "Succeeded" => s.owners = {s.target}

ValidateStatus(s) ==
  \/ s.phase = None
  \/ /\ s.started
     /\ s.phase \in DOMAIN legalPhaseTransitions
     /\ \/ s.target = None
        \/ s.target # s.source
        \/ s.phase \in {"Committing", "CleaningStaleOwners", "Succeeded", "Idle"}
     /\ s.phase = "Succeeded" => s.owners = {s.target}

StartTransition(s) == [s EXCEPT !.started = TRUE, !.phase = "Selecting"]

\* The status AdvanceTransition leaves; callers guard it with CanTransition,
\* whose failure ends the reconcile with an error and no write.
AdvanceTransition(s, to) == [s EXCEPT !.phase = to, !.halt = None]

Stopped(s, phase, reason) == [s EXCEPT !.phase = phase, !.halt = reason]
=============================================================================
