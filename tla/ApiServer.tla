----------------------------- MODULE ApiServer -----------------------------
(***************************************************************************)
(* The Kubernetes API objects that the two controllers share: one           *)
(* FailoverIp (its status, its reconcile annotation, whether its spec is    *)
(* valid) and the nodes.  Writes of the status subresource are merge        *)
(* patches without optimistic locking: a patch carries the fields that      *)
(* differ between the writer's base and its new copy, and a list field is   *)
(* replaced as a whole.                                                     *)
(***************************************************************************)
EXTENDS SafetyPolicy

CONSTANTS
  NodeStates,      \* the states a node may be in, a subset of NodeState
  InitialNodes,    \* the initial values of nodes
  UnstableNodes,   \* the nodes that may change
  SpecMayChange    \* the user may make the spec invalid and valid again

ASSUME ApiServerAssumption ==
  /\ NodeStates \subseteq NodeState
  /\ InitialNodes \subseteq [Nodes -> NodeStates]
  /\ UnstableNodes \subseteq Nodes
  /\ SpecMayChange \in BOOLEAN

VARIABLES
  status,      \* the stored FailoverIpStatus
  annotation,  \* the reconcile annotation
  specValid,   \* ValidateFailoverIpSpec accepts the spec
  nodes        \* the stored nodes

apiVars == <<status, annotation, specValid, nodes>>

ApiTypeOK ==
  /\ status \in StatusType
  /\ annotation \in Tokens \cup {None}
  /\ specValid \in BOOLEAN
  /\ nodes \in [Nodes -> NodeStates]

ApiInit ==
  /\ status = EmptyStatus
  /\ annotation = None
  /\ specValid = TRUE
  /\ nodes \in InitialNodes

-----------------------------------------------------------------------------

Merged(base, new, stored) == IF new # base THEN new ELSE stored

\* What the server stores after a merge patch from base to new.
MergePatch(base, new, stored) ==
  [started |-> Merged(base.started, new.started, stored.started),
   phase |-> Merged(base.phase, new.phase, stored.phase),
   source |-> Merged(base.source, new.source, stored.source),
   target |-> Merged(base.target, new.target, stored.target),
   observed |-> Merged(base.observed, new.observed, stored.observed),
   owners |-> Merged(base.owners, new.owners, stored.owners),
   attempted |-> Merged(base.attempted, new.attempted, stored.attempted),
   candidateSince |->
     Merged(base.candidateSince, new.candidateSince, stored.candidateSince),
   failures |-> Merged(base.failures, new.failures, stored.failures),
   recoveries |-> Merged(base.recoveries, new.recoveries, stored.recoveries),
   cleanups |-> Merged(base.cleanups, new.cleanups, stored.cleanups),
   nextCleanup |-> Merged(base.nextCleanup, new.nextCleanup, stored.nextCleanup),
   token |-> Merged(base.token, new.token, stored.token),
   halt |-> Merged(base.halt, new.halt, stored.halt)]

\* Status().Patch(MergeFrom(base)).
PatchStatus(base, new) ==
  /\ status' = MergePatch(base, new, status)
  /\ UNCHANGED <<annotation, specValid, nodes>>

\* Status().Update: rejected when the object changed since it was read.
UpdateStatus(read, new) ==
  /\ status = read
  /\ status' = new
  /\ UNCHANGED <<annotation, specValid, nodes>>

-----------------------------------------------------------------------------

\* A node's conditions, cordon or annotations change.
NodeChanges(n) ==
  /\ n \in UnstableNodes
  /\ \E s \in NodeStates \ {nodes[n]} : nodes' = [nodes EXCEPT ![n] = s]
  /\ UNCHANGED <<status, annotation, specValid>>

\* The user asks for a retry with a token not used before.
RequestRetry(t) ==
  /\ t \notin {annotation, status.token}
  /\ annotation' = t
  /\ UNCHANGED <<status, specValid, nodes>>

\* The user breaks or repairs the spec.
EditSpec ==
  /\ SpecMayChange
  /\ specValid' = ~specValid
  /\ UNCHANGED <<status, annotation, nodes>>
=============================================================================
