----------------------------- MODULE FoipSystem -----------------------------
(***************************************************************************)
(* The operator as deployed: the foip controller, a node agent on every     *)
(* node, the API server they share, the provider, and an environment in     *)
(* which nodes change and users act.                                        *)
(***************************************************************************)
EXTENDS FoipController, NodeAgent

VARIABLE
  steady  \* history: a stabilization window ran out since the last move

vars == <<apiVars, providerVars, controllerVars, agentVars, steady>>

TypeOK ==
  ApiTypeOK /\ ProviderTypeOK /\ ControllerTypeOK /\ AgentTypeOK /\ steady \in BOOLEAN

Init == ApiInit /\ ProviderInit /\ ControllerInit /\ AgentInit /\ steady = FALSE

ControllerStep ==
  /\ Reconciles \/ ReconcileFails \/ Recovers \/ TimePasses
  /\ UNCHANGED agentVars

AgentsStep ==
  /\ \E n \in Nodes : AgentStep(n) \/ AgentFails(n)
  /\ UNCHANGED <<providerVars, controllerVars>>

ProviderStep ==
  /\ \/ \E n \in Nodes : TaskFinishes(n) \/ TaskFails(n)
     \/ \E s \in Servers : MoveOutOfBand(s)
  /\ UNCHANGED <<apiVars, controllerVars, agentVars>>

EnvironmentStep ==
  /\ \/ \E n \in Nodes : NodeChanges(n)
     \/ \E t \in Tokens : RequestRetry(t)
     \/ EditSpec
  /\ UNCHANGED <<providerVars, controllerVars, agentVars>>

\* The target changes; the adoption of an owner found is no move.
Moves == status.target # None /\ status'.target # status.target

RecordsWindow ==
  steady' = /\ ~Moves
            /\ \/ steady
               \/ status.candidateSince = "running" /\ status'.candidateSince = "elapsed"

Next ==
  /\ ControllerStep \/ AgentsStep \/ ProviderStep \/ EnvironmentStep
  /\ RecordsWindow

Spec == Init /\ [][Next]_vars

-----------------------------------------------------------------------------
(* Fairness.                                                               *)

Fairness ==
  /\ WF_vars(Reconciles /\ UNCHANGED agentVars /\ RecordsWindow)
  /\ WF_vars(CooldownElapses /\ UNCHANGED agentVars /\ RecordsWindow)
  /\ WF_vars(WindowElapses /\ UNCHANGED agentVars /\ RecordsWindow)
  /\ WF_vars(CleanupDelayElapses /\ UNCHANGED agentVars /\ RecordsWindow)
  /\ \A n \in Nodes :
       /\ WF_vars(AgentStep(n) /\ UNCHANGED <<providerVars, controllerVars>> /\ RecordsWindow)
       /\ WF_vars(/\ TaskFinishes(n) \/ TaskFails(n)
                  /\ UNCHANGED <<apiVars, controllerVars, agentVars>> /\ RecordsWindow)

\* A step in which nothing fails and the nodes, the route and the users are
\* quiet.
CalmStep ==
  \/ (Reconciles \/ Recovers \/ TimePasses) /\ UNCHANGED agentVars
  \/ (\E n \in Nodes : AgentStep(n)) /\ UNCHANGED <<providerVars, controllerVars>>
  \/ (\E n \in Nodes : TaskFinishes(n)) /\ UNCHANGED <<apiVars, controllerVars, agentVars>>

FaultsCease == <>[][CalmStep]_vars

LiveSpec == Spec /\ Fairness /\ FaultsCease

-----------------------------------------------------------------------------
(* Properties.                                                             *)

\* At most one mutation request reaches the provider per cooldown, whatever
\* crashes, refusals and retries lie between two reconciles ("cooldown is
\* persisted across reconciles and restarts", ARCHITECTURE.md).
CooldownRespected == pc \in {"route", "rbRoute"} => ~sent

\* While a request is in flight the stored status names it: after a crash at
\* any point the next reconcile knows which owner change is its own.
RequestIsPersisted ==
  /\ pc \in {"route", "wait"} =>
       /\ status.phase = "RoutingProvider"
       /\ dest = status.target
       /\ status.attempted # "unset"
  /\ pc \in {"rbRoute", "rbWait"} =>
       /\ status.phase \notin Halted
       /\ dest = status.source
       /\ status.attempted # "unset"

\* The address is on the target's interface when the route request leaves
\* ("Never change the provider route until the target node agent confirms").
PreparedBeforeRouted == pc = "route" => dest \in ip

\* No agent takes the address from the node the provider routes it to
\* (make-before-break).
PathKept == [][\A n \in ip \ ip' : n # owner]_vars

\* The address as an observer of the network and of the status sees it.
Promise == INSTANCE Handoff WITH
  Places <- Servers,
  holders <- ip,
  route <- owner,
  requests <- tasks,
  announced <- IF status.phase = "Succeeded" THEN status.target ELSE None

\* The operator implements Handoff: the provider is asked only for a node that
\* holds the address, no agent drops it where it is or will be routed to, and
\* success is stored only for the node that is routed to and holds it.
ImplementsHandoff == Promise!Spec

\* The ownership fence stops a transition only for a change it did not make.
FenceBlocksOnlyForeignMoves ==
  status.halt = "ProviderOwnershipChanged" => moved

\* Ownership is committed to the target only when the provider routes to it.
CommitFollowsRoute ==
  (status.phase = "CleaningStaleOwners" /\ status.source = status.target /\ ~moved)
    => owner = status.target

\* No step enters a working phase except along legalPhaseTransitions, so that
\* no safety gate is skipped, restarts included.
GatesNotSkipped ==
  [][status'.phase \notin Halted \cup {status.phase} =>
       status.phase = None \/ CanTransition(status.phase, status'.phase)]_vars

\* A halted transition goes on only for a token it has not consumed.
HaltIsSticky ==
  [][status.phase \in Halted /\ status'.phase \notin Halted =>
       /\ status'.token = annotation
       /\ status'.token # status.token]_vars

\* No handoff is under way: the target has been committed to.
Committed == status.target # None /\ status.source = status.target

\* A handoff is over: after its commit it succeeded or was stopped.
Over == Committed /\ status.phase \in Halted \cup {"Succeeded", "Selecting"}

\* It is the last one: whatever happens to nodes, tokens, spec and route, no other
\* target is chosen, and what is stopped is not resumed.  The status of a new
\* selection is invalid, and validation precedes retry and selection
\* (failoverip_controller.go:128).
OverForGood ==
  [][Over => /\ Over' /\ status'.target = status.target
             /\ status.phase \in Halted => status'.phase \in Halted]_vars

\* Two moves are separated by a full stabilization window, whatever the nodes
\* do, whatever fails and however often the copies are written back.
TargetChangesAreSpaced == [][Moves => steady]_vars

\* When no agent has anything left to do, every node reported as an owner
\* holds the address.
OwnersAgree ==
  (\A n \in Nodes : agent[n].pc = "rest" /\ ~HasWork(n)) => status.owners \subseteq ip

\* A status is valid whenever it is stored.
StoredStatusValid == ValidateStatus(status)

\* A transition is never stopped for a phase the reconcile does not handle.
NoUnexpectedPhase == status.halt # "UnexpectedPhase"

\* The target has moved once more after the route to the one before it was
\* confirmed: the phase is kept, and every reconcile returns for a route that
\* only RoutingProvider would request (failoverip_controller.go:386).
Stranded ==
  /\ status.phase \in {"VerifyingProvider", "VerifyingTraffic", "Committing", "CleaningStaleOwners"}
  /\ owner # status.target

\* Every handoff that is started ends, unless it is stranded for ever: whatever
\* conflicts, crashes and late tasks delay it, nothing else keeps it from a
\* success, a block or the end of its cleanup budget.
HandoffEnds ==
  status.phase = "PreparingTarget" ~>
    (status.phase \in Halted \cup {"Succeeded"} \/ []Stranded)

\* After success the address disappears from every other node.
SingleHolder == status.phase = "Succeeded" ~> ip = {status.target}

-----------------------------------------------------------------------------
(* The inductive invariant behind CooldownRespected and                    *)
(* RequestIsPersisted.                                                     *)

\* The controller's copy is the stored status, but for the list of owners
\* that agents may have written since it was read.
CopyIsCurrent ==
  pc # "idle" => mem = [status EXCEPT !.owners = mem.owners]

\* So is the base of the last patch of a rollback, but for the attempt.
BaseIsCurrent ==
  pc \in {"rbRoute", "rbWait"} =>
    base = [status EXCEPT !.owners = base.owners, !.attempted = base.attempted]

\* A reconcile past its first checks works on a started, unhalted transition,
\* and the request it sends names a node.
ReconcileIsWorking ==
  /\ pc # "idle" => status.started /\ status.phase \notin Halted
  /\ pc \notin {"idle", "decide"} => dest \in Nodes
  /\ status.started \/ status.phase = None

\* A request sent in the current cooldown is covered by the stored timestamp.
SentIsPersisted ==
  /\ sent => status.attempted = "running"
  /\ pc \in {"route", "rbRoute"} => status.attempted = "running" /\ ~sent

\* The cleanup budget is exhausted only where no cleanup can start.
CleanupBudget ==
  status.cleanups = CleanupMaxAttempts =>
    status.phase \in Halted \cup {"Selecting", "Stabilizing"}

Inv ==
  /\ TypeOK
  /\ CopyIsCurrent
  /\ BaseIsCurrent
  /\ ReconcileIsWorking
  /\ SentIsPersisted
  /\ CleanupBudget
  /\ RequestIsPersisted

\* A window that has run out has run out since the last move.
WindowIsCounted == status.candidateSince = "elapsed" => steady

\* A handoff that knows where it comes from knows where it goes.
SourceHasTarget == status.source # None => status.target # None

\* A selection after a commit is not worked on.
SelectionRests == status.phase = "Selecting" /\ Committed => pc = "idle"
=============================================================================
