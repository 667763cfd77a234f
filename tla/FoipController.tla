--------------------------- MODULE FoipController ---------------------------
(***************************************************************************)
(* The foip controller: FailoverIpReconciler.Reconcile and                  *)
(* recoverPostRouteFailure.  Leader election leaves one instance of it.     *)
(*                                                                         *)
(* A reconcile reads the FailoverIp, the provider and the nodes, and then   *)
(* takes at most one decision; everything it keeps between reconciles is    *)
(* in the status.  It is split where another actor can change what it has   *)
(* read: after the reads (pc = "decide"), around the provider call          *)
(* ("route", "wait") and around the rollback call ("rbRoute", "rbWait").    *)
(* The decisions before the provider is read touch no field that another    *)
(* actor writes, and are taken in the step that reads the status.           *)
(***************************************************************************)
EXTENDS ApiServer, Provider

CONSTANTS
  PoliciesInUse,   \* what spec.recoveryPolicy may be; users may change it
  ProbesMayFail    \* FALSE: spec.probes is empty or every probe passes

RecoveryPolicies ==
  {"HoldDualOwnership", "RollbackProvider", "CommitDegraded", "ManualIntervention"}

ASSUME ControllerAssumption ==
  /\ PoliciesInUse \subseteq RecoveryPolicies
  /\ ProbesMayFail \in BOOLEAN

VARIABLES
  pc,    \* where the reconcile is
  mem,   \* foip.Status, the copy the reconcile works on
  base,  \* patchBase of recoverPostRouteFailure
  seen,  \* currentServerID, the provider owner this reconcile has read
  dest   \* the server id of the route request in flight

controllerVars == <<pc, mem, base, seen, dest>>

ControllerTypeOK ==
  /\ pc \in {"idle", "decide", "route", "wait", "rbRoute", "rbWait"}
  /\ mem \in StatusType
  /\ base \in StatusType
  /\ seen \in Servers \cup {None}
  /\ dest \in Nodes \cup {None}

ControllerInit ==
  /\ pc = "idle"
  /\ mem = EmptyStatus
  /\ base = EmptyStatus
  /\ seen = None
  /\ dest = None

\* The reconcile returns; its copies are garbage.
Return ==
  /\ pc' = "idle"
  /\ mem' = EmptyStatus
  /\ base' = EmptyStatus
  /\ seen' = None
  /\ dest' = None

\* One patch of the copy, and the reconcile returns.
PatchAndReturn(old, new) ==
  /\ PatchStatus(old, new)
  /\ Return
  /\ UNCHANGED providerVars

\* The process dies, the context is cancelled, or a read or a write fails:
\* nothing of the reconcile survives.
Abandon ==
  /\ pc # "idle"
  /\ Return
  /\ UNCHANGED <<apiVars, providerVars>>

-----------------------------------------------------------------------------
(* Decisions on the status alone.                                          *)

Starts ==
  /\ pc = "idle"
  /\ ~status.started
  /\ PatchAndReturn(status, StartTransition(status))

persistInvalidSpec ==
  /\ pc = "idle"
  /\ status.started
  /\ ~specValid
  /\ PatchAndReturn(status, Stopped(status, "Blocked", "InvalidSpec"))

BlocksInvalidStatus ==
  /\ pc = "idle"
  /\ status.started /\ specValid
  /\ ~ValidateStatus(status)
  /\ PatchAndReturn(status, Stopped(status, "Blocked", "InvalidStatus"))

\* The status is usable; only the provider and the nodes remain to be read.
Resumable ==
  status.started /\ specValid /\ ValidateStatus(status)

\* Mutant: a token counts again after it was consumed.
RetryRequested_Again(s) == annotation # None

RetryRequested(s) == annotation # None /\ annotation # s.token

ManualRetry ==
  /\ pc = "idle"
  /\ Resumable
  /\ status.phase \in Halted
  /\ RetryRequested(status)
  /\ CanTransition(status.phase, "Selecting")
  /\ PatchAndReturn(status,
       [AdvanceTransition(status, "Selecting") EXCEPT
          !.token = annotation, !.candidateSince = "unset"])

StaysHalted ==
  /\ pc = "idle"
  /\ Resumable
  /\ status.phase \in Halted
  /\ ~RetryRequested(status)
  /\ UNCHANGED <<apiVars, providerVars, controllerVars>>

-----------------------------------------------------------------------------
(* FindFailoverIP, the ownership fence, and adoption of the owner found.   *)

ReadsProvider ==
  /\ pc = "idle"
  /\ Resumable
  /\ status.phase \notin Halted
  /\ SlowTasks \/ tasks = {}

FenceAccepts ==
  validateProviderFence(status, owner, serverIDForNode(nodes, status.target))

BlocksOwnershipChange ==
  /\ ReadsProvider
  /\ ~FenceAccepts
  /\ PatchAndReturn(status, Stopped(status, "Blocked", "ProviderOwnershipChanged"))

Adopted(s) ==
  [s EXCEPT !.observed = owner,
            !.target = IF @ = None THEN nodeForServerID(nodes, owner) ELSE @]

Observes ==
  /\ ReadsProvider
  /\ FenceAccepts
  /\ IF Adopted(status) = status
       THEN UNCHANGED apiVars
       ELSE PatchStatus(status, Adopted(status))
  /\ pc' = "decide"
  /\ mem' = Adopted(status)
  /\ seen' = owner
  /\ UNCHANGED <<base, dest, providerVars>>

-----------------------------------------------------------------------------
(* Selection of a target.                                                  *)

Better(b) == isBetterNode(nodes, mem.target, b)

NoBetter == noBetterNode(nodes, mem.target)

CandidateRecovers ==
  /\ pc = "decide"
  /\ NoBetter
  /\ mem.phase = "Stabilizing"
  /\ mem.candidateSince # "unset"
  /\ IF mem.recoveries + 1 < RecoveryThreshold
       THEN PatchAndReturn(mem, [mem EXCEPT !.recoveries = @ + 1])
       ELSE /\ CanTransition(mem.phase, "Selecting")
            /\ PatchAndReturn(mem,
                 [AdvanceTransition(mem, "Selecting") EXCEPT
                    !.candidateSince = "unset", !.failures = 0, !.recoveries = 0])

\* A strictly healthier candidate than the target exists.
Prefers(b) == pc = "decide" /\ b # mem.target /\ Better(b)

Reselects(b) ==
  /\ mem.phase \in {"Succeeded", "Degraded"}
  /\ Prefers(b)
  /\ CanTransition(mem.phase, "Selecting")
  /\ PatchAndReturn(mem,
       [AdvanceTransition(mem, "Selecting") EXCEPT !.candidateSince = "unset"])

CountsFailure(b) ==
  /\ mem.phase \notin {"Succeeded", "Degraded"}
  /\ Prefers(b)
  /\ mem.failures + 1 < FailureThreshold
  /\ PatchAndReturn(mem, [mem EXCEPT !.failures = @ + 1])

\* The failure threshold is reached.  The incremented count itself is not
\* patched: the base of the next patch is copied after the increment.
PastFailureThreshold(b) ==
  /\ mem.phase \notin {"Succeeded", "Degraded"}
  /\ Prefers(b)
  /\ mem.failures + 1 >= FailureThreshold

OpensWindow(b) ==
  /\ PastFailureThreshold(b)
  /\ mem.candidateSince = "unset"
  /\ LET opened == [mem EXCEPT !.candidateSince = "running"]
     IN PatchAndReturn(mem,
          IF mem.phase = "Selecting"
            THEN AdvanceTransition(opened, "Stabilizing")
            ELSE opened)

WaitsForWindow(b) ==
  /\ PastFailureThreshold(b)
  /\ mem.candidateSince # "unset"
  /\ ~candidateReadyForHandoff(mem, nodes[b])

\* Mutant: the candidate timer survives the selection it allowed.
SelectsTarget_TimerKept(b) ==
  /\ PastFailureThreshold(b)
  /\ mem.candidateSince # "unset"
  /\ candidateReadyForHandoff(mem, nodes[b])
  /\ LET selected ==
           [mem EXCEPT !.source = mem.target, !.target = b, !.owners = {},
                       !.cleanups = 0, !.nextCleanup = "unset", !.failures = 0,
                       !.recoveries = 0]
     IN PatchAndReturn(mem,
          IF mem.phase = "Stabilizing"
            THEN AdvanceTransition(selected, "PreparingTarget")
            ELSE selected)

\* Mutant: a new target restarts the preparation from whatever phase.
SelectsTarget_Restarts(b) ==
  /\ PastFailureThreshold(b)
  /\ mem.candidateSince # "unset"
  /\ candidateReadyForHandoff(mem, nodes[b])
  /\ PatchAndReturn(mem,
       [mem EXCEPT !.phase = "PreparingTarget", !.source = mem.target, !.target = b,
                   !.owners = {}, !.cleanups = 0, !.nextCleanup = "unset",
                   !.candidateSince = "unset", !.failures = 0, !.recoveries = 0])

SelectsTarget(b) ==
  /\ PastFailureThreshold(b)
  /\ mem.candidateSince # "unset"
  /\ candidateReadyForHandoff(mem, nodes[b])
  /\ LET selected ==
           [mem EXCEPT !.source = mem.target, !.target = b, !.owners = {},
                       !.cleanups = 0, !.nextCleanup = "unset",
                       !.candidateSince = "unset", !.failures = 0,
                       !.recoveries = 0]
     IN PatchAndReturn([mem EXCEPT !.failures = @ + 1],
          IF mem.phase = "Stabilizing"
            THEN AdvanceTransition(selected, "PreparingTarget")
            ELSE selected)

-----------------------------------------------------------------------------
(* The handoff to the target.                                              *)

\* No better node, and no candidate to give up.
Keeps ==
  /\ pc = "decide"
  /\ \A b \in Nodes : ~Prefers(b)
  /\ ~(NoBetter /\ mem.phase = "Stabilizing" /\ mem.candidateSince # "unset")

HasHandoff ==
  /\ mem.target # None
  /\ mem.phase # "Succeeded"
  /\ Keeps

\* Mutant: the agent's report is not awaited.
LocallyPrepared_Unreported ==
  HasHandoff /\ nodes[mem.target].serverID

\* The target node has a server id and its agent reports the address.
LocallyPrepared ==
  /\ mem.target \in mem.owners
  /\ nodes[mem.target].serverID
  /\ HasHandoff

\* A patch that only moves the phase.
AdvancesTo(to) ==
  /\ CanTransition(mem.phase, to)
  /\ PatchAndReturn(mem, AdvanceTransition(mem, to))

TargetPrepares ==
  /\ mem.phase = "PreparingTarget"
  /\ LocallyPrepared
  /\ AdvancesTo("TargetPrepared")

PreRouteProbeFails ==
  /\ mem.phase \in {"TargetPrepared", "RoutingProvider"}
  /\ LocallyPrepared
  /\ ProbesMayFail
  /\ Return
  /\ UNCHANGED <<apiVars, providerVars>>

StartsRouting ==
  /\ mem.phase = "TargetPrepared"
  /\ LocallyPrepared
  /\ AdvancesTo("RoutingProvider")

MustRoute ==
  /\ mem.phase = "RoutingProvider"
  /\ LocallyPrepared
  /\ seen # mem.target

DefersToCooldown ==
  /\ MustRoute
  /\ ~providerMutationGate(mem)
  /\ Return
  /\ UNCHANGED <<apiVars, providerVars>>

\* Mutant: the request leaves without a persisted attempt.
PersistsAttempt_Unwritten ==
  /\ MustRoute
  /\ providerMutationGate(mem)
  /\ pc' = "route"
  /\ dest' = mem.target
  /\ UNCHANGED <<apiVars, mem, base, seen, providerVars>>

\* The attempt is persisted before the request is sent.
PersistsAttempt ==
  /\ MustRoute
  /\ providerMutationGate(mem)
  /\ LET attempt == [mem EXCEPT !.attempted = "running"]
     IN /\ PatchStatus(mem, attempt)
        /\ mem' = MergePatch(mem, attempt, status)
  /\ pc' = "route"
  /\ dest' = mem.target
  /\ UNCHANGED <<base, seen, providerVars>>

RouteAccepted ==
  /\ pc = "route"
  /\ AcceptRoute(dest)
  /\ pc' = "wait"
  /\ UNCHANGED <<apiVars, mem, base, seen, dest>>

\* RouteFailoverIP fails: the request is refused, its answer is lost, or the
\* task cannot be followed to its end.
RouteFails ==
  /\ \/ pc = "route" /\ (RefuseRoute \/ AcceptRoute(dest))
     \/ pc = "wait" /\ UNCHANGED providerVars
  /\ Return
  /\ UNCHANGED apiVars


\* The task has ended, the provider reports the target, and the status is
\* written with optimistic locking.
RouteConfirmed ==
  /\ pc = "wait"
  /\ dest \notin tasks
  /\ owner = dest
  /\ CanTransition(mem.phase, "VerifyingProvider")
  /\ UpdateStatus(mem,
       AdvanceTransition([mem EXCEPT !.observed = dest], "VerifyingProvider"))
  /\ Return
  /\ UNCHANGED providerVars

\* The task has ended without the provider reporting the target, or the
\* status changed since it was read and the update is rejected.
RouteUnconfirmed ==
  /\ pc = "wait"
  /\ dest \notin tasks
  /\ owner # dest \/ status # mem
  /\ Return
  /\ UNCHANGED <<apiVars, providerVars>>

AlreadyRouted ==
  /\ mem.phase = "RoutingProvider"
  /\ LocallyPrepared
  /\ seen = mem.target
  /\ UpdateStatus(mem, AdvanceTransition(mem, "VerifyingProvider"))
  /\ Return
  /\ UNCHANGED providerVars

UpdateConflicts ==
  /\ mem.phase = "RoutingProvider"
  /\ LocallyPrepared
  /\ seen = mem.target
  /\ status # mem
  /\ Return
  /\ UNCHANGED <<apiVars, providerVars>>

ProviderVerified ==
  /\ mem.phase = "VerifyingProvider"
  /\ LocallyPrepared
  /\ seen = mem.target
  /\ AdvancesTo("VerifyingTraffic")

-----------------------------------------------------------------------------
(* After the route: traffic, commit and cleanup.                           *)

\* Mutant: the provider's owner is not checked again before the commit.
AfterRoute_OwnerUnchecked ==
  /\ LocallyPrepared
  /\ mem.phase \notin {"PreparingTarget", "TargetPrepared", "RoutingProvider",
                       "VerifyingProvider"}

\* The post-route probes run in every later phase the code reaches this way,
\* Selecting included.
AfterRoute ==
  /\ LocallyPrepared
  /\ seen = mem.target
  /\ mem.phase \notin {"PreparingTarget", "TargetPrepared", "RoutingProvider",
                       "VerifyingProvider"}

\* The post-route probes pass, or they fail and CommitDegraded goes on (its
\* patch of conditions is left out).
TrafficVerified ==
  /\ mem.phase = "VerifyingTraffic"
  /\ AfterRoute
  /\ AdvancesTo("Committing")

Commits ==
  /\ mem.phase = "Committing"
  /\ AfterRoute
  /\ CanTransition(mem.phase, "CleaningStaleOwners")
  /\ PatchAndReturn(mem,
       AdvanceTransition([mem EXCEPT !.source = mem.target], "CleaningStaleOwners"))

CleanupDue ==
  /\ mem.phase = "CleaningStaleOwners"
  /\ AfterRoute
  /\ mem.nextCleanup # "running"

\* Mutant: the attempt is not counted.
CleanupPending_Uncounted ==
  /\ CleanupDue
  /\ mem.owners # {mem.target}
  /\ PatchAndReturn(mem, [mem EXCEPT !.nextCleanup = "running"])

\* Mutant: the budget does not end the cleanup.
CleanupPending_Unbounded ==
  /\ CleanupDue
  /\ mem.owners # {mem.target}
  /\ PatchAndReturn(mem, [mem EXCEPT !.cleanups = @ + 1, !.nextCleanup = "running"])

CleanupPending ==
  /\ CleanupDue
  /\ mem.owners # {mem.target}
  /\ LET counted == [mem EXCEPT !.cleanups = @ + 1]
     IN PatchAndReturn(mem,
          IF counted.cleanups >= CleanupMaxAttempts
            THEN Stopped(counted, "Degraded", "CleanupTimeout")
            ELSE [counted EXCEPT !.nextCleanup = "running"])

Succeeds ==
  /\ CleanupDue
  /\ mem.owners = {mem.target}
  /\ AdvancesTo("Succeeded")

\* No branch of the reconcile handles the phase.
BlocksUnexpectedPhase ==
  /\ mem.phase \notin {"VerifyingTraffic", "Committing", "CleaningStaleOwners"}
  /\ AfterRoute
  /\ PatchAndReturn(mem, Stopped(mem, "Blocked", "UnexpectedPhase"))

\* The early returns of a reconcile that changes nothing.
Waits ==
  /\ \/ \E b \in Nodes : WaitsForWindow(b)
     \/ Keeps /\ (mem.target = None \/ mem.phase = "Succeeded")
     \/ HasHandoff /\ ~LocallyPrepared
     \/ /\ LocallyPrepared
        /\ seen # mem.target
        /\ mem.phase \notin {"PreparingTarget", "TargetPrepared", "RoutingProvider"}
     \/ AfterRoute /\ mem.phase = "CleaningStaleOwners" /\ mem.nextCleanup = "running"
  /\ Return
  /\ UNCHANGED <<apiVars, providerVars>>

-----------------------------------------------------------------------------
(* recoverPostRouteFailure.                                                *)

PostRouteProbeFails(policy) ==
  /\ AfterRoute
  /\ ProbesMayFail
  /\ policy \in PoliciesInUse

persistRecoveryState(old, new, phase) ==
  PatchAndReturn(old, Stopped(new, phase, "Recovery"))

HoldsDualOwnership ==
  /\ PostRouteProbeFails("HoldDualOwnership")
  /\ persistRecoveryState(mem, mem, "Degraded")

RequiresManualIntervention ==
  /\ PostRouteProbeFails("ManualIntervention")
  /\ persistRecoveryState(mem, mem, "Blocked")

\* The source can be rolled back to: it is set, annotated, and the provider's
\* owner is the one recorded or already the source.
RollbackPossible ==
  /\ mem.source # None
  /\ nodes[mem.source].serverID
  /\ validateProviderRecoveryFence(mem, owner, mem.source)

\* Also taken when the provider cannot be read.
RollbackUnavailable ==
  /\ PostRouteProbeFails("RollbackProvider")
  /\ persistRecoveryState(mem, mem, "Blocked")

RollbackAlreadyConverged ==
  /\ PostRouteProbeFails("RollbackProvider")
  /\ RollbackPossible
  /\ owner = mem.source
  /\ persistRecoveryState(mem, [mem EXCEPT !.observed = owner], "Degraded")

MustRollBack ==
  /\ PostRouteProbeFails("RollbackProvider")
  /\ RollbackPossible
  /\ owner # mem.source

DefersRollback ==
  /\ MustRollBack
  /\ ~providerMutationGate(mem)
  /\ Return
  /\ UNCHANGED <<apiVars, providerVars>>

\* patchBase stays the copy from before this patch, and the last patch of the
\* rollback is computed from it.
PersistsRollbackAttempt ==
  /\ MustRollBack
  /\ providerMutationGate(mem)
  /\ LET attempt == [mem EXCEPT !.attempted = "running"]
     IN /\ PatchStatus(mem, attempt)
        /\ mem' = MergePatch(mem, attempt, status)
  /\ base' = mem
  /\ pc' = "rbRoute"
  /\ dest' = mem.source
  /\ UNCHANGED <<seen, providerVars>>

RollbackAccepted ==
  /\ pc = "rbRoute"
  /\ AcceptRoute(dest)
  /\ pc' = "rbWait"
  /\ UNCHANGED <<apiVars, mem, base, seen, dest>>

\* The request fails, or the route is not the source's when it is read back.
RollbackFails ==
  /\ \/ pc = "rbRoute" /\ (RefuseRoute \/ AcceptRoute(dest))
     \/ pc = "rbWait" /\ UNCHANGED providerVars
  /\ PatchStatus(base, Stopped(mem, "Blocked", "Recovery"))
  /\ Return

RollbackConfirmed ==
  /\ pc = "rbWait"
  /\ dest \notin tasks
  /\ owner = dest
  /\ persistRecoveryState(base, [mem EXCEPT !.observed = dest], "Degraded")

-----------------------------------------------------------------------------
(* Time passes.  A copy of a timestamp ages with the stored one.           *)

AgeAttempted(s) ==
  [s EXCEPT !.attempted = IF @ = "running" THEN "elapsed" ELSE @]

AgeCandidateSince(s) ==
  [s EXCEPT !.candidateSince = IF @ = "running" THEN "elapsed" ELSE @]

AgeNextCleanup(s) ==
  [s EXCEPT !.nextCleanup = IF @ = "running" THEN "elapsed" ELSE @]

\* The cooldown is longer than the step from the persisted attempt to the
\* request it announces.
CooldownElapses ==
  /\ status.attempted = "running"
  /\ pc \notin {"route", "rbRoute"}
  /\ status' = AgeAttempted(status)
  /\ mem' = AgeAttempted(mem)
  /\ base' = AgeAttempted(base)
  /\ sent' = FALSE
  /\ UNCHANGED <<annotation, specValid, nodes, owner, tasks, moved, pc, seen, dest>>

WindowElapses ==
  /\ status.candidateSince = "running"
  /\ status' = AgeCandidateSince(status)
  /\ mem' = AgeCandidateSince(mem)
  /\ base' = AgeCandidateSince(base)
  /\ UNCHANGED <<annotation, specValid, nodes, providerVars, pc, seen, dest>>

CleanupDelayElapses ==
  /\ status.nextCleanup = "running"
  /\ status' = AgeNextCleanup(status)
  /\ mem' = AgeNextCleanup(mem)
  /\ base' = AgeNextCleanup(base)
  /\ UNCHANGED <<annotation, specValid, nodes, providerVars, pc, seen, dest>>

-----------------------------------------------------------------------------

\* A reconcile in progress, with the provider answering.
Reconciles ==
  \/ Starts
  \/ persistInvalidSpec
  \/ BlocksInvalidStatus
  \/ ManualRetry
  \/ StaysHalted
  \/ BlocksOwnershipChange
  \/ Observes
  \/ CandidateRecovers
  \/ \E b \in Nodes : Reselects(b) \/ CountsFailure(b) \/ OpensWindow(b) \/ SelectsTarget(b)
  \/ TargetPrepares
  \/ StartsRouting
  \/ DefersToCooldown
  \/ PersistsAttempt
  \/ RouteAccepted
  \/ RouteConfirmed
  \/ RouteUnconfirmed
  \/ AlreadyRouted
  \/ UpdateConflicts
  \/ ProviderVerified
  \/ TrafficVerified
  \/ Commits
  \/ CleanupPending
  \/ Succeeds
  \/ BlocksUnexpectedPhase
  \/ Waits

\* A probe, the provider or the process fails.
ReconcileFails ==
  \/ PreRouteProbeFails
  \/ RouteFails
  \/ Abandon

Recovers ==
  \/ HoldsDualOwnership
  \/ RequiresManualIntervention
  \/ RollbackUnavailable
  \/ RollbackAlreadyConverged
  \/ DefersRollback
  \/ PersistsRollbackAttempt
  \/ RollbackAccepted
  \/ RollbackFails
  \/ RollbackConfirmed

TimePasses ==
  \/ CooldownElapses
  \/ WindowElapses
  \/ CleanupDelayElapses
=============================================================================
