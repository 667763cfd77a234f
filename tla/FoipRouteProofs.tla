--------------------------- MODULE FoipRouteProofs ---------------------------
(***************************************************************************)
(* Proofs about the assignment and the route of FoipSystem: the owner that  *)
(* a commit and the ownership fence speak of is the one the provider has.   *)
(* The steps of the system are first reduced to what they do to the         *)
(* assignment (source, target, observed owner), to the phase and to the     *)
(* route; the invariants are then proved about these few events.            *)
(***************************************************************************)
EXTENDS FoipSystemProofs

USE NodesAssumption

Fenced == "ProviderOwnershipChanged"

SameAssignment ==
  /\ status'.source = status.source
  /\ status'.target = status.target
  /\ status'.observed = status.observed

SameRoute == owner' = owner /\ tasks' = tasks /\ moved' = moved

\* Nothing that the events below speak of changes.
Stands ==
  /\ SameAssignment /\ SameRoute /\ UNCHANGED agentVars
  /\ status'.phase = status.phase /\ status'.halt = status.halt
  /\ status'.owners = status.owners /\ mem'.owners = mem.owners
  /\ pc' = pc /\ seen' = seen /\ dest' = dest

\* The phases a reconcile may leave when it ends without touching the
\* assignment; a commit and a success are events of their own.
LeavesPhase(to) ==
  \/ to = status.phase
  \/ /\ pc = "idle"
     /\ \/ to \in Halted
        \/ status.phase = None /\ to = "Selecting"
        \/ /\ status.phase \in Halted /\ to = "Selecting"
           /\ annotation # None /\ ValidateStatus(status)
  \/ /\ pc = "decide"
     /\ \/ to \in Halted
        \/ CanTransition(status.phase, to) /\ to \notin {"CleaningStaleOwners", "Succeeded"}

\* A reconcile ends and the assignment stays; the fence stops it only when it
\* has read an owner it does not expect.
Ends ==
  /\ SameAssignment /\ SameRoute /\ UNCHANGED agentVars
  /\ pc' = "idle" /\ dest' = None
  /\ status'.owners = status.owners
  /\ LeavesPhase(status'.phase)
  /\ status'.halt = Fenced => status.halt = Fenced \/ (ReadsProvider /\ ~FenceAccepts)

\* Observes.
Learns ==
  /\ ReadsProvider /\ SameRoute /\ UNCHANGED agentVars
  /\ ValidateStatus(status)
  /\ status'.source = status.source
  /\ status'.target = IF status.target = None THEN nodeForServerID(nodes, owner)
                      ELSE status.target
  /\ status'.observed = owner
  /\ status'.phase = status.phase /\ status'.halt = status.halt
  /\ status'.owners = status.owners
  /\ pc' = "decide" /\ seen' = owner /\ mem'.owners = status.owners /\ dest' = dest

\* SelectsTarget.
Retargets(b) ==
  /\ pc = "decide" /\ SameRoute /\ UNCHANGED agentVars
  /\ b # status.target
  /\ status'.source = status.target /\ status'.target = b
  /\ status'.observed = status.observed
  /\ status.phase # "Succeeded"
  /\ \/ status'.phase = status.phase
     \/ status.phase = "Stabilizing" /\ status'.phase = "PreparingTarget"
  /\ status'.halt = Fenced => status.halt = Fenced
  /\ status'.owners \in {{}, status.owners}
  /\ pc' = "idle" /\ dest' = None

\* PersistsAttempt.
SetsOut ==
  /\ pc = "decide" /\ SameAssignment /\ SameRoute /\ UNCHANGED agentVars
  /\ status.phase = "RoutingProvider"
  /\ status.target \in mem.owners
  /\ status'.phase = status.phase /\ status'.halt = status.halt
  /\ status'.owners = status.owners
  /\ pc' = "route" /\ dest' = status.target /\ seen' = seen

\* The request reaches the provider, whether or not anybody waits for it.
Asks ==
  /\ pc = "route" /\ SameAssignment /\ UNCHANGED agentVars
  /\ AcceptRoute(dest)
  /\ status'.phase = status.phase /\ status'.halt = status.halt
  /\ status'.owners = status.owners
  /\ \/ pc' = "wait" /\ dest' = dest
     \/ pc' = "idle" /\ dest' = None

\* RouteConfirmed.
Confirms ==
  /\ pc = "wait" /\ SameRoute /\ UNCHANGED agentVars
  /\ dest \notin tasks /\ owner = dest
  /\ status'.source = status.source /\ status'.target = status.target
  /\ status'.observed = owner
  /\ status'.phase = "VerifyingProvider" /\ status'.halt = None
  /\ status'.owners = status.owners
  /\ pc' = "idle" /\ dest' = None

\* Commits.
Settles ==
  /\ pc = "decide" /\ SameRoute /\ UNCHANGED agentVars
  /\ seen = status.target /\ status.target \in mem.owners
  /\ status.phase = "Committing"
  /\ status'.source = status.target /\ status'.target = status.target
  /\ status'.observed = status.observed
  /\ status'.phase = "CleaningStaleOwners" /\ status'.halt = None
  /\ status'.owners = status.owners
  /\ pc' = "idle" /\ dest' = None

\* Succeeds.
Finishes ==
  /\ pc = "decide" /\ SameAssignment /\ SameRoute /\ UNCHANGED agentVars
  /\ seen = status.target /\ mem.owners = {status.target}
  /\ status.phase = "CleaningStaleOwners"
  /\ status'.phase = "Succeeded" /\ status'.halt = None
  /\ status'.owners = status.owners
  /\ pc' = "idle" /\ dest' = None

\* A rollback sets out, asks, or ends.
RollsBack ==
  /\ UNCHANGED agentVars
  /\ status'.source = status.source /\ status'.target = status.target
  /\ owner' = owner /\ moved' = moved
  /\ \/ pc \in {"rbRoute", "rbWait"} \/ "RollbackProvider" \in PoliciesInUse
  /\ \/ /\ pc = "decide" /\ pc' = "rbRoute"
        /\ seen = status.target /\ owner # status.source
        /\ seen' = seen /\ SameRoute
        /\ status'.phase = status.phase /\ status'.halt = status.halt
     \/ /\ pc = "rbRoute" /\ pc' = "rbWait"
        /\ status'.phase = status.phase /\ status'.halt = status.halt
     \/ /\ pc' = "idle" /\ status'.phase \in Halted /\ status'.halt = "Recovery"

Event ==
  \/ Stands \/ Ends \/ Learns \/ \E b \in Nodes : Retargets(b)
  \/ SetsOut \/ Asks \/ Confirms \/ Settles \/ Finishes \/ RollsBack
  \/ AgentsStep \/ ProviderStep

-----------------------------------------------------------------------------

\* A patch writes the fields in which the copy differs from its base, and
\* leaves the list of owners alone when they do not differ in it.
LEMMA PatchWrites ==
  ASSUME NEW b, NEW n, PatchStatus(b, n)
  PROVE  /\ b.phase = status.phase => status'.phase = n.phase
         /\ b.source = status.source => status'.source = n.source
         /\ b.target = status.target => status'.target = n.target
         /\ b.observed = status.observed => status'.observed = n.observed
         /\ b.halt = status.halt => status'.halt = n.halt
         /\ b.owners = n.owners => status'.owners = status.owners
         /\ status'.owners \in {n.owners, status.owners}
BY DEF PatchStatus, MergePatch, Merged

\* While a reconcile runs, its copy and the base of a rollback agree with the
\* stored status on the assignment, the phase and the halt.
LEMMA CopyOfAssignment ==
  ASSUME Inv, pc # "idle"
  PROVE  /\ status \in StatusType /\ mem \in StatusType /\ base \in StatusType
         /\ mem.phase = status.phase /\ mem.halt = status.halt
         /\ mem.source = status.source /\ mem.target = status.target
         /\ mem.observed = status.observed
         /\ pc \in {"rbRoute", "rbWait"} =>
              /\ base.phase = status.phase /\ base.halt = status.halt
              /\ base.source = status.source /\ base.target = status.target
<1>1. status \in StatusType /\ mem \in StatusType /\ base \in StatusType
  BY DEF Inv, TypeOK, ApiTypeOK, ControllerTypeOK
<1>2. mem = [status EXCEPT !.owners = mem.owners]
  BY DEF Inv, CopyIsCurrent
<1>3. pc \in {"rbRoute", "rbWait"} =>
        base = [status EXCEPT !.owners = base.owners, !.attempted = base.attempted]
  BY DEF Inv, BaseIsCurrent
<1>4. /\ mem.phase = status.phase /\ mem.halt = status.halt
      /\ mem.source = status.source /\ mem.target = status.target
      /\ mem.observed = status.observed
  BY <1>1, <1>2 DEF StatusType
<1>5. pc \in {"rbRoute", "rbWait"} =>
        /\ base.phase = status.phase /\ base.halt = status.halt
        /\ base.source = status.source /\ base.target = status.target
  BY <1>1, <1>3 DEF StatusType
<1> QED
  BY <1>1, <1>4, <1>5

\* What a change of phase and a halt write.
LEMMA PhaseWrites ==
  ASSUME NEW s \in StatusType, NEW to, NEW r
  PROVE  /\ AdvanceTransition(s, to).phase = to
         /\ AdvanceTransition(s, to).halt = None
         /\ AdvanceTransition(s, to).source = s.source
         /\ AdvanceTransition(s, to).target = s.target
         /\ AdvanceTransition(s, to).observed = s.observed
         /\ AdvanceTransition(s, to).owners = s.owners
         /\ Stopped(s, to, r).phase = to
         /\ Stopped(s, to, r).halt = r
         /\ Stopped(s, to, r).source = s.source
         /\ Stopped(s, to, r).target = s.target
         /\ Stopped(s, to, r).observed = s.observed
         /\ Stopped(s, to, r).owners = s.owners
BY DEF AdvanceTransition, Stopped, StatusType


\* A reconcile that writes nothing but the phase and the halt, computed from
\* the status it has just read.
LEMMA IdleEnds ==
  ASSUME Inv, UNCHANGED agentVars, NEW n, PatchAndReturn(status, n),
         n.source = status.source, n.target = status.target,
         n.observed = status.observed, n.owners = status.owners,
         LeavesPhase(n.phase),
         n.halt = Fenced => status.halt = Fenced \/ (ReadsProvider /\ ~FenceAccepts)
  PROVE  Ends
<1>1. PatchStatus(status, n) /\ Return /\ UNCHANGED providerVars
  BY DEF PatchAndReturn
<1>2. /\ status'.phase = n.phase /\ status'.halt = n.halt
      /\ status'.source = n.source /\ status'.target = n.target
      /\ status'.observed = n.observed /\ status'.owners = status.owners
  BY <1>1, PatchWrites
<1> QED
  BY <1>1, <1>2 DEF Ends, SameAssignment, SameRoute, Return, providerVars

\* So does one that decides on its copy.
LEMMA DecisionEnds ==
  ASSUME Inv, UNCHANGED agentVars, pc # "idle", NEW n, PatchAndReturn(mem, n),
         n.source = mem.source, n.target = mem.target,
         n.observed = mem.observed, n.owners = mem.owners,
         LeavesPhase(n.phase), n.halt = Fenced => mem.halt = Fenced
  PROVE  Ends
<1>1. PatchStatus(mem, n) /\ Return /\ UNCHANGED providerVars
  BY DEF PatchAndReturn
<1>2. /\ mem.phase = status.phase /\ mem.halt = status.halt
      /\ mem.source = status.source /\ mem.target = status.target
      /\ mem.observed = status.observed
  BY CopyOfAssignment
<1>3. /\ status'.phase = n.phase /\ status'.halt = n.halt
      /\ status'.source = n.source /\ status'.target = n.target
      /\ status'.observed = n.observed /\ status'.owners = status.owners
  BY <1>1, <1>2, PatchWrites
<1> QED
  BY <1>1, <1>2, <1>3 DEF Ends, SameAssignment, SameRoute, Return, providerVars

\* So does one that writes nothing.
LEMMA ReturnEnds ==
  ASSUME UNCHANGED agentVars, UNCHANGED apiVars, SameRoute, Return
  PROVE  Ends
BY DEF Ends, SameAssignment, LeavesPhase, Return, apiVars

\* Decisions on the status alone, the fence and the adoption of the owner.
LEMMA StatusEvents ==
  ASSUME Inv, UNCHANGED agentVars,
         \/ Starts \/ persistInvalidSpec \/ BlocksInvalidStatus
         \/ ManualRetry \/ BlocksOwnershipChange \/ Observes
  PROVE  Ends \/ Learns
<1>1. status \in StatusType
  BY DEF Inv, TypeOK, ApiTypeOK
<1>2. pc = "idle"
  BY DEF Starts, persistInvalidSpec, BlocksInvalidStatus, ManualRetry,
         BlocksOwnershipChange, Observes, ReadsProvider
<1>3. "Blocked" \in Halted /\ None # Fenced
  BY PhaseAssumption DEF Halted, HaltReasons, Fenced
<1>4. CASE Starts
  <2> DEFINE n == StartTransition(status)
  <2>1. PatchAndReturn(status, n) /\ status.phase = None
    BY <1>4 DEF Starts, Inv, ReconcileIsWorking
  <2>2. /\ n.phase = "Selecting" /\ n.halt = status.halt
        /\ n.source = status.source /\ n.target = status.target
        /\ n.observed = status.observed /\ n.owners = status.owners
    BY <1>1 DEF StartTransition, StatusType
  <2> HIDE DEF n
  <2>3. LeavesPhase(n.phase)
    BY <1>2, <2>1, <2>2 DEF LeavesPhase
  <2> QED
    BY <2>1, <2>2, <2>3, IdleEnds
<1>5. CASE persistInvalidSpec \/ BlocksInvalidStatus \/ BlocksOwnershipChange
  <2>1. PICK r \in HaltReasons :
          /\ PatchAndReturn(status, Stopped(status, "Blocked", r))
          /\ r = Fenced => ReadsProvider /\ ~FenceAccepts
    BY <1>5 DEF persistInvalidSpec, BlocksInvalidStatus, BlocksOwnershipChange,
                HaltReasons, Fenced
  <2> DEFINE n == Stopped(status, "Blocked", r)
  <2>2. /\ n.phase = "Blocked" /\ n.halt = r
        /\ n.source = status.source /\ n.target = status.target
        /\ n.observed = status.observed /\ n.owners = status.owners
    BY <1>1, PhaseWrites
  <2>3. PatchAndReturn(status, n)
    BY <2>1
  <2> HIDE DEF n
  <2>4. LeavesPhase(n.phase)
    BY <1>2, <1>3, <2>2 DEF LeavesPhase
  <2> QED
    BY <2>1, <2>2, <2>3, <2>4, IdleEnds
<1>6. CASE ManualRetry
  <2> DEFINE n == [AdvanceTransition(status, "Selecting") EXCEPT
                     !.token = annotation, !.candidateSince = "unset"]
  <2>1. /\ PatchAndReturn(status, n)
        /\ status.phase \in Halted /\ annotation # None /\ ValidateStatus(status)
    BY <1>6 DEF ManualRetry, RetryRequested, Resumable
  <2>2. /\ n.phase = "Selecting" /\ n.halt = None
        /\ n.source = status.source /\ n.target = status.target
        /\ n.observed = status.observed /\ n.owners = status.owners
    BY <1>1 DEF AdvanceTransition, StatusType
  <2> HIDE DEF n
  <2>3. LeavesPhase(n.phase)
    BY <1>2, <2>1, <2>2 DEF LeavesPhase
  <2> QED
    BY <1>3, <2>1, <2>2, <2>3, IdleEnds
<1>7. CASE Observes
  <2> DEFINE n == Adopted(status)
  <2>1. /\ n.phase = status.phase /\ n.halt = status.halt
        /\ n.source = status.source /\ n.observed = owner
        /\ n.target = IF status.target = None THEN nodeForServerID(nodes, owner)
                      ELSE status.target
        /\ n.owners = status.owners
    BY <1>1 DEF Adopted, StatusType
  <2>2. /\ (n = status /\ status' = status) \/ PatchStatus(status, n)
        /\ ReadsProvider /\ pc' = "decide" /\ mem' = n /\ seen' = owner
        /\ UNCHANGED <<base, dest, providerVars>>
    BY <1>7 DEF Observes, apiVars
  <2>3. ValidateStatus(status)
    BY <2>2 DEF ReadsProvider, Resumable
  <2> HIDE DEF n
  <2>4. /\ status'.phase = n.phase /\ status'.halt = n.halt
        /\ status'.source = n.source /\ status'.target = n.target
        /\ status'.observed = n.observed /\ status'.owners = status.owners
    <3>1. CASE n = status /\ status' = status
      BY <3>1
    <3>2. CASE PatchStatus(status, n)
      BY <2>1, <3>2, PatchWrites
    <3> QED
      BY <2>2, <3>1, <3>2
  <2> QED
    BY <2>1, <2>2, <2>3, <2>4 DEF Learns, SameRoute, providerVars
<1> QED
  BY <1>4, <1>5, <1>6, <1>7

\* Counting, opening the window, and the selection.
LEMMA SelectionEvents ==
  ASSUME Inv, UNCHANGED agentVars, NEW t,
         \/ CandidateRecovers
         \/ /\ t \in Nodes
            /\ \/ Reselects(t) \/ CountsFailure(t) \/ OpensWindow(t) \/ SelectsTarget(t)
  PROVE  Ends \/ (t \in Nodes /\ Retargets(t))
<1>1. pc = "decide"
  BY DEF CandidateRecovers, Reselects, CountsFailure, OpensWindow, SelectsTarget,
         PastFailureThreshold, Prefers
<1>2. /\ mem \in StatusType
      /\ mem.phase = status.phase /\ mem.halt = status.halt
      /\ mem.source = status.source /\ mem.target = status.target
      /\ mem.observed = status.observed
  BY <1>1, CopyOfAssignment
<1>3. None # Fenced
  BY PhaseAssumption DEF HaltReasons, Fenced
<1>4. ASSUME NEW n, PatchAndReturn(mem, n), n.source = mem.source,
             n.target = mem.target, n.observed = mem.observed, n.owners = mem.owners,
             n.halt \in {mem.halt, None},
             \/ n.phase = mem.phase
             \/ n.phase \in {"Selecting", "Stabilizing"} /\ CanTransition(mem.phase, n.phase)
      PROVE  Ends
  <2>1. LeavesPhase(n.phase)
    BY <1>1, <1>2, <1>4 DEF LeavesPhase
  <2> QED
    BY <1>1, <1>3, <1>4, <2>1, DecisionEnds
<1>5. CASE CandidateRecovers
  <2>1. CASE mem.recoveries + 1 < RecoveryThreshold
    <3> DEFINE n == [mem EXCEPT !.recoveries = @ + 1]
    <3>1. PatchAndReturn(mem, n)
      BY <1>5, <2>1 DEF CandidateRecovers
    <3>2. /\ n.phase = mem.phase /\ n.halt = mem.halt /\ n.source = mem.source
          /\ n.target = mem.target /\ n.observed = mem.observed /\ n.owners = mem.owners
      BY <1>2 DEF StatusType
    <3> HIDE DEF n
    <3> QED
      BY <1>4, <3>1, <3>2
  <2>2. CASE ~(mem.recoveries + 1 < RecoveryThreshold)
    <3> DEFINE n == [AdvanceTransition(mem, "Selecting") EXCEPT
                       !.candidateSince = "unset", !.failures = 0, !.recoveries = 0]
    <3>1. PatchAndReturn(mem, n) /\ CanTransition(mem.phase, "Selecting")
      BY <1>5, <2>2 DEF CandidateRecovers
    <3>2. /\ n.phase = "Selecting" /\ n.halt = None /\ n.source = mem.source
          /\ n.target = mem.target /\ n.observed = mem.observed /\ n.owners = mem.owners
      BY <1>2 DEF AdvanceTransition, StatusType
    <3> HIDE DEF n
    <3> QED
      BY <1>4, <3>1, <3>2
  <2> QED
    BY <2>1, <2>2
<1>6. CASE Reselects(t)
  <2> DEFINE n == [AdvanceTransition(mem, "Selecting") EXCEPT !.candidateSince = "unset"]
  <2>1. PatchAndReturn(mem, n) /\ CanTransition(mem.phase, "Selecting")
    BY <1>6 DEF Reselects
  <2>2. /\ n.phase = "Selecting" /\ n.halt = None /\ n.source = mem.source
        /\ n.target = mem.target /\ n.observed = mem.observed /\ n.owners = mem.owners
    BY <1>2 DEF AdvanceTransition, StatusType
  <2> HIDE DEF n
  <2> QED
    BY <1>4, <2>1, <2>2
<1>7. CASE CountsFailure(t)
  <2> DEFINE n == [mem EXCEPT !.failures = @ + 1]
  <2>1. PatchAndReturn(mem, n)
    BY <1>7 DEF CountsFailure
  <2>2. /\ n.phase = mem.phase /\ n.halt = mem.halt /\ n.source = mem.source
        /\ n.target = mem.target /\ n.observed = mem.observed /\ n.owners = mem.owners
    BY <1>2 DEF StatusType
  <2> HIDE DEF n
  <2> QED
    BY <1>4, <2>1, <2>2
<1>8. CASE OpensWindow(t)
  <2> DEFINE opened == [mem EXCEPT !.candidateSince = "running"]
             n == IF mem.phase = "Selecting"
                    THEN AdvanceTransition(opened, "Stabilizing") ELSE opened
  <2>1. PatchAndReturn(mem, n)
    BY <1>8 DEF OpensWindow
  <2>2. /\ n.phase = IF mem.phase = "Selecting" THEN "Stabilizing" ELSE mem.phase
        /\ n.halt \in {mem.halt, None} /\ n.source = mem.source
        /\ n.target = mem.target /\ n.observed = mem.observed /\ n.owners = mem.owners
    BY <1>2 DEF AdvanceTransition, StatusType
  <2> HIDE DEF n
  <2> QED
    BY <1>4, <2>1, <2>2, TableHas
<1>9. CASE t \in Nodes /\ SelectsTarget(t)
  <2> DEFINE b == [mem EXCEPT !.failures = @ + 1]
             selected == [mem EXCEPT !.source = mem.target, !.target = t, !.owners = {},
                                     !.cleanups = 0, !.nextCleanup = "unset",
                                     !.candidateSince = "unset", !.failures = 0,
                                     !.recoveries = 0]
             n == IF mem.phase = "Stabilizing"
                    THEN AdvanceTransition(selected, "PreparingTarget") ELSE selected
  <2>1. /\ PatchAndReturn(b, n) /\ t # mem.target
        /\ mem.phase \notin {"Succeeded", "Degraded"}
    BY <1>9 DEF SelectsTarget, PastFailureThreshold, Prefers
  <2>2. /\ b.phase = mem.phase /\ b.halt = mem.halt /\ b.source = mem.source
        /\ b.target = mem.target /\ b.observed = mem.observed
    BY <1>2 DEF StatusType
  <2>3. /\ n.phase = IF mem.phase = "Stabilizing" THEN "PreparingTarget" ELSE mem.phase
        /\ n.halt \in {mem.halt, None} /\ n.source = mem.target
        /\ n.target = t /\ n.observed = mem.observed /\ n.owners = {}
    BY <1>2 DEF AdvanceTransition, StatusType
  <2> HIDE DEF b, n
  <2>4. PatchStatus(b, n) /\ Return /\ UNCHANGED providerVars
    BY <2>1 DEF PatchAndReturn
  <2>5. /\ status'.phase = n.phase /\ status'.halt = n.halt
        /\ status'.source = n.source /\ status'.target = n.target
        /\ status'.observed = n.observed /\ status'.owners \in {n.owners, status.owners}
    BY <1>2, <2>2, <2>4, PatchWrites
  <2> QED
    BY <1>1, <1>2, <1>3, <1>9, <2>1, <2>3, <2>4, <2>5
    DEF Retargets, SameRoute, Return, providerVars
<1> QED
  BY <1>5, <1>6, <1>7, <1>8, <1>9

\* The handoff to the target, without the request itself.
LEMMA HandoffEvents ==
  ASSUME Inv, UNCHANGED agentVars,
         \/ TargetPrepares \/ StartsRouting \/ ProviderVerified \/ TrafficVerified
         \/ Commits \/ CleanupPending \/ Succeeds \/ BlocksUnexpectedPhase
         \/ AlreadyRouted \/ HoldsDualOwnership \/ RequiresManualIntervention
         \/ RollbackUnavailable
  PROVE  Ends \/ Settles \/ Finishes
<1>1. pc = "decide" /\ mem.target # None
  BY DEF TargetPrepares, StartsRouting, ProviderVerified, TrafficVerified, Commits,
         CleanupPending, Succeeds, BlocksUnexpectedPhase, CleanupDue, AfterRoute,
         LocallyPrepared, HasHandoff, Keeps, AlreadyRouted, HoldsDualOwnership,
         RequiresManualIntervention, RollbackUnavailable, PostRouteProbeFails
<1>2. /\ mem \in StatusType
      /\ mem.phase = status.phase /\ mem.halt = status.halt
      /\ mem.source = status.source /\ mem.target = status.target
      /\ mem.observed = status.observed
  BY <1>1, CopyOfAssignment
<1>3. None # Fenced
  BY PhaseAssumption DEF HaltReasons, Fenced
<1>4. ASSUME NEW to, PatchAndReturn(mem, AdvanceTransition(mem, to)),
             CanTransition(mem.phase, to), to \notin {"CleaningStaleOwners", "Succeeded"}
      PROVE  Ends
  <2> DEFINE n == AdvanceTransition(mem, to)
  <2>1. /\ n.phase = to /\ n.halt = None /\ n.source = mem.source
        /\ n.target = mem.target /\ n.observed = mem.observed /\ n.owners = mem.owners
    BY <1>2, PhaseWrites
  <2>2. PatchAndReturn(mem, n)
    BY <1>4
  <2> HIDE DEF n
  <2>3. LeavesPhase(n.phase)
    BY <1>1, <1>2, <1>4, <2>1 DEF LeavesPhase
  <2> QED
    BY <1>1, <1>3, <2>1, <2>2, <2>3, DecisionEnds
<1>5. ASSUME NEW c \in StatusType, NEW to \in Halted, NEW r,
             PatchAndReturn(mem, Stopped(c, to, r)), r # Fenced,
             c.source = mem.source, c.target = mem.target,
             c.observed = mem.observed, c.owners = mem.owners
      PROVE  Ends
  <2> DEFINE n == Stopped(c, to, r)
  <2>1. /\ n.phase = to /\ n.halt = r /\ n.source = mem.source
        /\ n.target = mem.target /\ n.observed = mem.observed /\ n.owners = mem.owners
    BY <1>5, PhaseWrites
  <2>2. PatchAndReturn(mem, n)
    BY <1>5
  <2> HIDE DEF n
  <2>3. LeavesPhase(n.phase)
    BY <1>1, <1>5, <2>1 DEF LeavesPhase
  <2> QED
    BY <1>1, <1>5, <2>1, <2>2, <2>3, DecisionEnds
<1>6. CASE TargetPrepares \/ StartsRouting \/ ProviderVerified \/ TrafficVerified
  BY <1>4, <1>6 DEF TargetPrepares, StartsRouting, ProviderVerified, TrafficVerified, AdvancesTo
<1>7. CASE AlreadyRouted
  <2>1. /\ UpdateStatus(mem, AdvanceTransition(mem, "VerifyingProvider"))
        /\ Return /\ UNCHANGED providerVars /\ mem.phase = "RoutingProvider"
    BY <1>7 DEF AlreadyRouted
  <2>2. status = mem /\ status' = AdvanceTransition(mem, "VerifyingProvider")
    BY <2>1 DEF UpdateStatus
  <2>3. /\ status'.phase = "VerifyingProvider" /\ status'.halt = None
        /\ status'.source = mem.source /\ status'.target = mem.target
        /\ status'.observed = mem.observed /\ status'.owners = mem.owners
    BY <1>2, <2>2, PhaseWrites
  <2>4. LeavesPhase(status'.phase)
    BY <1>1, <1>2, <2>1, <2>3, TableHas DEF LeavesPhase
  <2> QED
    BY <1>2, <1>3, <2>1, <2>2, <2>3, <2>4
    DEF Ends, SameAssignment, SameRoute, Return, providerVars
<1>8. CASE BlocksUnexpectedPhase
  BY <1>2, <1>5, <1>8 DEF BlocksUnexpectedPhase, Halted, Fenced
<1>9. CASE HoldsDualOwnership \/ RequiresManualIntervention \/ RollbackUnavailable
  BY <1>2, <1>5, <1>9 DEF HoldsDualOwnership, RequiresManualIntervention,
                          RollbackUnavailable, persistRecoveryState, Halted, Fenced
<1>10. CASE CleanupPending
  <2> DEFINE counted == [mem EXCEPT !.cleanups = @ + 1]
             n == IF counted.cleanups >= CleanupMaxAttempts
                    THEN Stopped(counted, "Degraded", "CleanupTimeout")
                    ELSE [counted EXCEPT !.nextCleanup = "running"]
  <2>1. PatchAndReturn(mem, n)
    BY <1>10 DEF CleanupPending
  <2>2. /\ n.phase \in {mem.phase, "Degraded"} /\ n.halt \in {mem.halt, "CleanupTimeout"}
        /\ n.source = mem.source /\ n.target = mem.target
        /\ n.observed = mem.observed /\ n.owners = mem.owners
    BY <1>2 DEF Stopped, StatusType
  <2> HIDE DEF n
  <2>3. LeavesPhase(n.phase)
    BY <1>1, <1>2, <2>2 DEF LeavesPhase, Halted
  <2> QED
    BY <1>1, <2>1, <2>2, <2>3, DecisionEnds DEF Fenced
<1>11. CASE Commits
  <2> DEFINE c == [mem EXCEPT !.source = mem.target]
             n == AdvanceTransition(c, "CleaningStaleOwners")
  <2>1. /\ PatchAndReturn(mem, n) /\ mem.phase = "Committing"
        /\ seen = mem.target /\ mem.target \in mem.owners
    BY <1>11 DEF Commits, AfterRoute, LocallyPrepared
  <2>2. /\ n.phase = "CleaningStaleOwners" /\ n.halt = None /\ n.source = mem.target
        /\ n.target = mem.target /\ n.observed = mem.observed /\ n.owners = mem.owners
    BY <1>2 DEF AdvanceTransition, StatusType
  <2> HIDE DEF n
  <2>3. PatchStatus(mem, n) /\ Return /\ UNCHANGED providerVars
    BY <2>1 DEF PatchAndReturn
  <2>4. /\ status'.phase = n.phase /\ status'.halt = n.halt
        /\ status'.source = n.source /\ status'.target = n.target
        /\ status'.observed = n.observed /\ status'.owners = status.owners
    BY <1>2, <2>2, <2>3, PatchWrites
  <2> QED
    BY <1>1, <1>2, <2>1, <2>2, <2>3, <2>4 DEF Settles, SameRoute, Return, providerVars
<1>12. CASE Succeeds
  <2> DEFINE n == AdvanceTransition(mem, "Succeeded")
  <2>1. /\ PatchAndReturn(mem, n) /\ mem.phase = "CleaningStaleOwners"
        /\ seen = mem.target /\ mem.owners = {mem.target}
    BY <1>12 DEF Succeeds, CleanupDue, AfterRoute, AdvancesTo
  <2>2. /\ n.phase = "Succeeded" /\ n.halt = None /\ n.source = mem.source
        /\ n.target = mem.target /\ n.observed = mem.observed /\ n.owners = mem.owners
    BY <1>2, PhaseWrites
  <2> HIDE DEF n
  <2>3. PatchStatus(mem, n) /\ Return /\ UNCHANGED providerVars
    BY <2>1 DEF PatchAndReturn
  <2>4. /\ status'.phase = n.phase /\ status'.halt = n.halt
        /\ status'.source = n.source /\ status'.target = n.target
        /\ status'.observed = n.observed /\ status'.owners = status.owners
    BY <1>2, <2>2, <2>3, PatchWrites
  <2> QED
    BY <1>1, <1>2, <2>1, <2>2, <2>3, <2>4
    DEF Finishes, SameAssignment, SameRoute, Return, providerVars
<1> QED
  BY <1>6, <1>7, <1>8, <1>9, <1>10, <1>11, <1>12

\* The request itself, a rollback, and the reconciles that write nothing.
LEMMA RequestEvents ==
  ASSUME Inv, UNCHANGED agentVars,
         \/ PersistsAttempt \/ RouteAccepted \/ RouteFails \/ RouteConfirmed
         \/ RouteUnconfirmed \/ UpdateConflicts \/ Waits \/ DefersToCooldown
         \/ PreRouteProbeFails \/ DefersRollback \/ Abandon
  PROVE  SetsOut \/ Asks \/ Confirms \/ Ends
<1>1. CASE PersistsAttempt
  <2> DEFINE n == [mem EXCEPT !.attempted = "running"]
  <2>1. /\ PatchStatus(mem, n) /\ pc = "decide" /\ pc' = "route"
        /\ dest' = mem.target /\ UNCHANGED <<seen, providerVars>>
        /\ mem.phase = "RoutingProvider" /\ mem.target \in mem.owners
    BY <1>1 DEF PersistsAttempt, MustRoute, LocallyPrepared, HasHandoff, Keeps
  <2>2. /\ mem \in StatusType
        /\ mem.phase = status.phase /\ mem.halt = status.halt
        /\ mem.source = status.source /\ mem.target = status.target
        /\ mem.observed = status.observed
    BY <2>1, CopyOfAssignment
  <2>3. /\ n.phase = mem.phase /\ n.halt = mem.halt /\ n.source = mem.source
        /\ n.target = mem.target /\ n.observed = mem.observed /\ n.owners = mem.owners
    BY <2>2 DEF StatusType
  <2> HIDE DEF n
  <2>4. /\ status'.phase = n.phase /\ status'.halt = n.halt
        /\ status'.source = n.source /\ status'.target = n.target
        /\ status'.observed = n.observed /\ status'.owners = status.owners
    BY <2>1, <2>2, <2>3, PatchWrites
  <2> QED
    BY <2>1, <2>2, <2>3, <2>4 DEF SetsOut, SameAssignment, SameRoute, providerVars
<1>2. CASE RouteAccepted
  BY <1>2 DEF RouteAccepted, Asks, SameAssignment, apiVars
<1>3. CASE RouteFails /\ AcceptRoute(dest) /\ pc = "route"
  BY <1>3 DEF RouteFails, Return, Asks, SameAssignment, apiVars
<1>4. CASE RouteConfirmed
  <2> DEFINE c == [mem EXCEPT !.observed = dest]
  <2>1. /\ pc = "wait" /\ dest \notin tasks /\ owner = dest
        /\ status = mem /\ status' = AdvanceTransition(c, "VerifyingProvider")
        /\ Return /\ UNCHANGED providerVars
    BY <1>4 DEF RouteConfirmed, UpdateStatus
  <2>2. mem \in StatusType
    BY DEF Inv, TypeOK, ControllerTypeOK
  <2>3. /\ status'.phase = "VerifyingProvider" /\ status'.halt = None
        /\ status'.source = mem.source /\ status'.target = mem.target
        /\ status'.observed = dest /\ status'.owners = mem.owners
    BY <2>1, <2>2 DEF AdvanceTransition, StatusType
  <2> QED
    BY <2>1, <2>3 DEF Confirms, SameRoute, Return, providerVars
<1>5. CASE /\ UNCHANGED providerVars
           /\ \/ RouteFails \/ RouteUnconfirmed \/ UpdateConflicts \/ Waits
              \/ DefersToCooldown \/ PreRouteProbeFails \/ DefersRollback \/ Abandon
  <2>1. UNCHANGED apiVars /\ Return
    BY <1>5 DEF RouteFails, RouteUnconfirmed, UpdateConflicts, Waits, DefersToCooldown,
                PreRouteProbeFails, DefersRollback, Abandon
  <2>2. SameRoute
    BY <1>5 DEF SameRoute, providerVars
  <2> QED
    BY <2>1, <2>2, ReturnEnds
<1>6. CASE RouteFails /\ RefuseRoute
  BY <1>6, ReturnEnds DEF RouteFails, RefuseRoute, SameRoute
<1> QED
  BY <1>1, <1>2, <1>3, <1>4, <1>5, <1>6
  DEF RouteFails, RouteUnconfirmed, UpdateConflicts, Waits, DefersToCooldown,
      PreRouteProbeFails, DefersRollback, Abandon

\* A rollback of the route after a failed probe.
LEMMA RollbackEvents ==
  ASSUME Inv, UNCHANGED agentVars,
         \/ RollbackAlreadyConverged \/ PersistsRollbackAttempt
         \/ RollbackAccepted \/ RollbackFails \/ RollbackConfirmed
  PROVE  RollsBack
<1>1. pc # "idle"
  BY DEF RollbackAlreadyConverged, PersistsRollbackAttempt, RollbackAccepted,
         RollbackFails, RollbackConfirmed, MustRollBack, PostRouteProbeFails,
         AfterRoute, LocallyPrepared, HasHandoff, Keeps
<1>2. /\ mem \in StatusType /\ base \in StatusType
      /\ mem.phase = status.phase /\ mem.halt = status.halt
      /\ mem.source = status.source /\ mem.target = status.target
      /\ pc \in {"rbRoute", "rbWait"} =>
           /\ base.phase = status.phase /\ base.halt = status.halt
           /\ base.source = status.source /\ base.target = status.target
  BY <1>1, CopyOfAssignment
<1>3. "Degraded" \in Halted /\ "Blocked" \in Halted
  BY DEF Halted
<1>4. ASSUME NEW b, NEW n, NEW to \in Halted, PatchStatus(b, Stopped(n, to, "Recovery")),
             n \in StatusType, n.source = status.source, n.target = status.target,
             b.phase = status.phase, b.halt = status.halt,
             b.source = status.source, b.target = status.target
      PROVE  /\ status'.phase = to /\ status'.halt = "Recovery"
             /\ status'.source = status.source /\ status'.target = status.target
  <2>1. /\ Stopped(n, to, "Recovery").phase = to
        /\ Stopped(n, to, "Recovery").halt = "Recovery"
        /\ Stopped(n, to, "Recovery").source = n.source
        /\ Stopped(n, to, "Recovery").target = n.target
    BY <1>4, PhaseWrites
  <2> QED
    BY <1>4, <2>1, PatchWrites
<1>5. owner \in Servers /\ (pc \in {"rbRoute", "rbWait"} => dest \in Servers)
  BY DEF Inv, TypeOK, ProviderTypeOK, ReconcileIsWorking, Servers
<1>6. CASE RollbackAlreadyConverged
  <2> DEFINE n == [mem EXCEPT !.observed = owner]
  <2>1. /\ PatchStatus(mem, Stopped(n, "Degraded", "Recovery"))
        /\ Return /\ UNCHANGED providerVars /\ "RollbackProvider" \in PoliciesInUse
    BY <1>6 DEF RollbackAlreadyConverged, persistRecoveryState, PatchAndReturn,
                PostRouteProbeFails
  <2>2. n \in StatusType /\ n.source = mem.source /\ n.target = mem.target
    BY <1>2, <1>5 DEF StatusType
  <2> HIDE DEF n
  <2>3. /\ status'.phase = "Degraded" /\ status'.halt = "Recovery"
        /\ status'.source = status.source /\ status'.target = status.target
    BY <1>2, <1>3, <1>4, <2>1, <2>2
  <2> QED
    BY <1>3, <2>1, <2>3 DEF RollsBack, Return, providerVars
<1>7. CASE PersistsRollbackAttempt
  <2> DEFINE n == [mem EXCEPT !.attempted = "running"]
  <2>1. /\ PatchStatus(mem, n) /\ pc = "decide" /\ pc' = "rbRoute"
        /\ UNCHANGED <<seen, providerVars>> /\ "RollbackProvider" \in PoliciesInUse
        /\ seen = mem.target /\ owner # mem.source
    BY <1>7 DEF PersistsRollbackAttempt, MustRollBack, PostRouteProbeFails, AfterRoute,
                LocallyPrepared, HasHandoff, Keeps
  <2>2. /\ n.phase = mem.phase /\ n.halt = mem.halt
        /\ n.source = mem.source /\ n.target = mem.target
    BY <1>2 DEF StatusType
  <2> HIDE DEF n
  <2>3. /\ status'.phase = n.phase /\ status'.halt = n.halt
        /\ status'.source = n.source /\ status'.target = n.target
    BY <1>2, <2>1, PatchWrites
  <2> QED
    BY <1>2, <2>1, <2>2, <2>3 DEF RollsBack, SameRoute, providerVars
<1>8. CASE RollbackAccepted
  BY <1>8 DEF RollbackAccepted, AcceptRoute, RollsBack, apiVars
<1>9. CASE RollbackFails
  <2>1. /\ PatchStatus(base, Stopped(mem, "Blocked", "Recovery")) /\ Return
        /\ owner' = owner /\ moved' = moved /\ pc \in {"rbRoute", "rbWait"}
    BY <1>9 DEF RollbackFails, RefuseRoute, AcceptRoute, providerVars
  <2>2. /\ status'.phase = "Blocked" /\ status'.halt = "Recovery"
        /\ status'.source = status.source /\ status'.target = status.target
    BY <1>2, <1>3, <1>4, <2>1
  <2> QED
    BY <1>3, <2>1, <2>2 DEF RollsBack, Return
<1>10. CASE RollbackConfirmed
  <2> DEFINE n == [mem EXCEPT !.observed = dest]
  <2>1. /\ PatchStatus(base, Stopped(n, "Degraded", "Recovery"))
        /\ Return /\ UNCHANGED providerVars /\ pc = "rbWait"
    BY <1>10 DEF RollbackConfirmed, persistRecoveryState, PatchAndReturn
  <2>2. n \in StatusType /\ n.source = mem.source /\ n.target = mem.target
    BY <1>2, <1>5, <2>1 DEF StatusType
  <2> HIDE DEF n
  <2>3. /\ status'.phase = "Degraded" /\ status'.halt = "Recovery"
        /\ status'.source = status.source /\ status'.target = status.target
    BY <1>2, <1>3, <1>4, <2>1, <2>2
  <2> QED
    BY <1>3, <2>1, <2>3 DEF RollsBack, Return, providerVars
<1> QED
  BY <1>6, <1>7, <1>8, <1>9, <1>10

\* Time and users change nothing that the events speak of.
LEMMA QuietEvents ==
  ASSUME Inv, StaysHalted \/ TimePasses \/ EnvironmentStep \/ UNCHANGED vars,
         UNCHANGED agentVars
  PROVE  Stands
<1>1. status \in StatusType /\ mem \in StatusType
  BY DEF Inv, TypeOK, ApiTypeOK, ControllerTypeOK
<1>2. CASE StaysHalted \/ UNCHANGED vars
  BY <1>2 DEF StaysHalted, Stands, SameAssignment, SameRoute, vars, apiVars, providerVars,
              controllerVars
<1>3. CASE EnvironmentStep
  BY <1>3 DEF EnvironmentStep, NodeChanges, RequestRetry, EditSpec, Stands, SameAssignment,
              SameRoute, apiVars, providerVars, controllerVars
<1>4. CASE CooldownElapses
  BY <1>1, <1>4 DEF CooldownElapses, AgeAttempted, StatusType, Stands, SameAssignment, SameRoute
<1>5. CASE WindowElapses
  BY <1>1, <1>5 DEF WindowElapses, AgeCandidateSince, StatusType, Stands, SameAssignment,
                    SameRoute, providerVars
<1>6. CASE CleanupDelayElapses
  BY <1>1, <1>6 DEF CleanupDelayElapses, AgeNextCleanup, StatusType, Stands, SameAssignment,
                    SameRoute, providerVars
<1> QED
  BY <1>2, <1>3, <1>4, <1>5, <1>6 DEF TimePasses

\* Every step of the system is one of the events.
LEMMA NextEvents ==
  ASSUME Inv, [Next]_vars
  PROVE  Event
<1>1. CASE UNCHANGED vars
  BY <1>1, QuietEvents DEF Event, vars
<1>2. CASE AgentsStep \/ ProviderStep
  BY <1>2 DEF Event
<1>3. CASE EnvironmentStep
  BY <1>3, QuietEvents DEF Event, EnvironmentStep
<1>4. CASE ControllerStep
  <2>1. UNCHANGED agentVars
    BY <1>4 DEF ControllerStep
  <2>2. CASE TimePasses
    BY <2>1, <2>2, QuietEvents DEF Event
  <2>3. CASE ReconcileFails
    BY <2>1, <2>3, RequestEvents DEF ReconcileFails, Event
  <2>4. CASE Recovers
    BY <2>1, <2>4, HandoffEvents, RollbackEvents, RequestEvents DEF Recovers, Event
  <2>5. CASE Reconciles
    <3>1. CASE \/ Starts \/ persistInvalidSpec \/ BlocksInvalidStatus
               \/ ManualRetry \/ BlocksOwnershipChange \/ Observes
      BY <2>1, <3>1, StatusEvents DEF Event
    <3>2. CASE StaysHalted
      BY <2>1, <3>2, QuietEvents DEF Event
    <3>3. ASSUME NEW b \in Nodes,
                 Reselects(b) \/ CountsFailure(b) \/ OpensWindow(b) \/ SelectsTarget(b)
          PROVE  Event
      BY <2>1, <3>3, SelectionEvents DEF Event
    <3>4. CASE CandidateRecovers
      <4>1. Ends \/ (None \in Nodes /\ Retargets(None))
        BY <2>1, <3>4, SelectionEvents
      <4> QED
        BY <4>1 DEF Event
    <3>5. CASE \/ TargetPrepares \/ StartsRouting \/ ProviderVerified
               \/ TrafficVerified \/ Commits \/ CleanupPending \/ Succeeds
               \/ BlocksUnexpectedPhase \/ AlreadyRouted
      BY <2>1, <3>5, HandoffEvents DEF Event
    <3>6. CASE \/ PersistsAttempt \/ RouteAccepted \/ RouteConfirmed \/ RouteUnconfirmed
               \/ UpdateConflicts \/ Waits \/ DefersToCooldown
      BY <2>1, <3>6, RequestEvents DEF Event
    <3> QED
      BY <2>5, <3>1, <3>2, <3>3, <3>4, <3>5, <3>6 DEF Reconciles
  <2> QED
    BY <1>4, <2>2, <2>3, <2>4, <2>5 DEF ControllerStep
<1> QED
  BY <1>1, <1>2, <1>3, <1>4 DEF Next

\* An agent writes the list of owners and nothing else of the status.
LEMMA AgentsWriteOwners ==
  ASSUME Inv, AgentsStep
  PROVE  /\ SameAssignment /\ SameRoute
         /\ status'.phase = status.phase /\ status'.halt = status.halt
         /\ pc' = pc /\ mem' = mem /\ seen' = seen /\ dest' = dest
<1> PICK k \in Nodes : AgentStep(k) \/ AgentFails(k)
  BY DEF AgentsStep
<1>1. status \in StatusType
  BY DEF Inv, TypeOK, ApiTypeOK
<1>2. CASE AgentReports(k)
  <2> DEFINE b == [status EXCEPT !.owners = agent[k].owners]
             n == [status EXCEPT !.owners = ReportedOwners(k)]
  <2>1. PatchStatus(b, n)
    BY <1>2 DEF AgentReports
  <2>2. /\ b.phase = status.phase /\ b.halt = status.halt /\ b.source = status.source
        /\ b.target = status.target /\ b.observed = status.observed
        /\ n.phase = status.phase /\ n.halt = status.halt /\ n.source = status.source
        /\ n.target = status.target /\ n.observed = status.observed
    BY <1>1 DEF StatusType
  <2> HIDE DEF b, n
  <2> QED
    BY <2>1, <2>2, PatchWrites
    DEF AgentsStep, SameAssignment, SameRoute, providerVars, controllerVars
<1>3. CASE UNCHANGED apiVars
  BY <1>3 DEF AgentsStep, SameAssignment, SameRoute, apiVars, providerVars, controllerVars
<1> QED
  BY <1>2, <1>3 DEF AgentStep, AgentReads, ensureIPAssigned, ensureIPRemoved, AgentFails

\* What the provider does on its own.
LEMMA ProviderMoves ==
  ASSUME ProviderStep
  PROVE  /\ status' = status /\ UNCHANGED controllerVars /\ UNCHANGED agentVars
         /\ nodes' = nodes
         /\ \/ /\ moved' = moved /\ tasks' \subseteq tasks
               /\ owner' = owner \/ owner' \in tasks
            \/ OutOfBandMoves /\ moved' /\ tasks' = tasks
BY DEF ProviderStep, TaskFinishes, TaskFails, MoveOutOfBand, apiVars

-----------------------------------------------------------------------------
(* A handoff that is over.                                                 *)

\* A source is only recorded together with a target.
LEMMA SourceStep ==
  ASSUME Inv, SourceHasTarget, [Next]_vars
  PROVE  SourceHasTarget'
<1>1. Event
  BY NextEvents
<1>2. CASE \/ Stands \/ Ends \/ SetsOut \/ Asks \/ Confirms \/ Finishes \/ RollsBack
           \/ AgentsStep \/ ProviderStep
  <2>1. status'.source = status.source /\ status'.target = status.target
    BY <1>2, AgentsWriteOwners, ProviderMoves
    DEF Stands, Ends, SetsOut, Asks, Confirms, Finishes, RollsBack, SameAssignment
  <2> QED
    BY <2>1 DEF SourceHasTarget
<1>3. CASE Learns
  BY <1>3 DEF Learns, SourceHasTarget
<1>4. CASE Settles \/ \E b \in Nodes : Retargets(b)
  BY <1>4 DEF Settles, Retargets, SourceHasTarget
<1> QED
  BY <1>1, <1>2, <1>3, <1>4 DEF Event

\* A reconcile gets past its first checks only with a valid status, and one that
\* commits or selects ends with it.
LEMMA SelectionRestsStep ==
  ASSUME Inv, SourceHasTarget, SelectionRests, [Next]_vars
  PROVE  SelectionRests'
<1>1. Event
  BY NextEvents
<1>2. CASE Ends \/ Confirms \/ Settles \/ Finishes \/ \E b \in Nodes : Retargets(b)
  <2>1. pc' = "idle"
    BY <1>2 DEF Ends, Confirms, Settles, Finishes, Retargets
  <2> QED
    BY <2>1 DEF SelectionRests
<1>3. CASE Learns
  <2>1. ASSUME status.phase = "Selecting" PROVE ~Committed'
    <3>1. CASE status.target = None
      BY <1>3, <3>1 DEF Learns, SourceHasTarget, Committed
    <3>2. CASE status.target # None
      BY <1>3, <2>1, <3>2, PhaseAssumption DEF Learns, ValidateStatus, Committed, Phases
    <3> QED
      BY <3>1, <3>2
  <2> QED
    BY <1>3, <2>1 DEF Learns, SelectionRests
<1>4. CASE SetsOut \/ Asks
  <2>1. status'.phase = "RoutingProvider"
    BY <1>4 DEF SetsOut, Asks, Inv, RequestIsPersisted
  <2> QED
    BY <2>1 DEF SelectionRests
<1>5. CASE Stands
  BY <1>5 DEF Stands, SameAssignment, SelectionRests, Committed
<1>6. CASE RollsBack
  BY <1>6 DEF RollsBack, SelectionRests, Committed
<1>7. CASE AgentsStep \/ ProviderStep
  <2>1. /\ status'.source = status.source /\ status'.target = status.target
        /\ status'.phase = status.phase /\ pc' = pc
    BY <1>7, AgentsWriteOwners, ProviderMoves DEF SameAssignment, controllerVars
  <2> QED
    BY <2>1 DEF SelectionRests, Committed
<1> QED
  BY <1>1, <1>2, <1>3, <1>4, <1>5, <1>6, <1>7 DEF Event

\* From a success only an invalid selection or a halt follows, and from a halt
\* nothing.
LEMMA OverStep ==
  ASSUME Inv, SelectionRests, [Next]_vars, Over
  PROVE  /\ Over' /\ status'.target = status.target
         /\ status.phase \in Halted => status'.phase \in Halted
<1>1. Event
  BY NextEvents
<1>2. /\ status.phase # "Succeeded" => pc = "idle" /\ ~ValidateStatus(status)
      /\ status.phase # None
  BY PhaseAssumption
  DEF Over, Committed, SelectionRests, Inv, ReconcileIsWorking, ValidateStatus, Halted, Phases
<1>3. pc \notin {"route", "wait"}
  BY DEF Over, Halted, Inv, RequestIsPersisted
<1>4. CASE Stands \/ AgentsStep \/ ProviderStep
  <2>1. /\ status'.source = status.source /\ status'.target = status.target
        /\ status'.phase = status.phase
    BY <1>4, AgentsWriteOwners, ProviderMoves DEF Stands, SameAssignment
  <2> QED
    BY <2>1 DEF Over, Committed
<1>5. CASE Ends
  <2>1. CASE status.phase = "Succeeded"
    <3>1. status'.phase \in Halted \cup {"Succeeded", "Selecting"} /\ status.phase \notin Halted
      BY <1>5, <2>1 DEF Ends, LeavesPhase, Halted, CanTransition, legalPhaseTransitions
    <3> QED
      BY <1>5, <3>1 DEF Ends, SameAssignment, Over, Committed
  <2>2. CASE status.phase # "Succeeded"
    <3>1. status'.phase = status.phase \/ status'.phase \in Halted
      BY <1>2, <1>5, <2>2 DEF Ends, LeavesPhase
    <3> QED
      BY <1>5, <3>1 DEF Ends, SameAssignment, Over, Committed
  <2> QED
    BY <2>1, <2>2
<1>6. CASE Learns
  BY <1>6 DEF Learns, ReadsProvider, Over, Committed
<1>7. CASE RollsBack
  <2>1. /\ status'.source = status.source /\ status'.target = status.target
        /\ status'.phase = status.phase \/ status'.phase \in Halted
    BY <1>7 DEF RollsBack
  <2> QED
    BY <2>1 DEF Over, Committed
<1>8. ASSUME \/ SetsOut \/ Asks \/ Confirms \/ Settles \/ Finishes
             \/ \E b \in Nodes : Retargets(b)
      PROVE  FALSE
  BY <1>2, <1>3, <1>8 DEF SetsOut, Asks, Confirms, Settles, Finishes, Retargets
<1> QED
  BY <1>1, <1>4, <1>5, <1>6, <1>7, <1>8 DEF Event

\* A handoff that has succeeded, or was stopped after its commit, is the last
\* one of its FailoverIp, whatever the users, the nodes, the agents and the
\* provider do (the validation that every reconcile begins with,
\* failoverip_controller.go).
THEOREM NoSecondHandoff == Spec => OverForGood
<1>1. Init => SourceHasTarget /\ SelectionRests
  BY DEF Init, ApiInit, ControllerInit, EmptyStatus, SourceHasTarget, SelectionRests
<1>2. Inv /\ SourceHasTarget /\ SelectionRests /\ [Next]_vars =>
        SourceHasTarget' /\ SelectionRests'
  BY SourceStep, SelectionRestsStep
<1>3. Inv /\ SelectionRests /\ [Next]_vars =>
        [Over => /\ Over' /\ status'.target = status.target
                 /\ status.phase \in Halted => status'.phase \in Halted]_vars
  BY OverStep
<1> QED
  BY <1>1, <1>2, <1>3, Invariant, PTL DEF Spec, OverForGood

-----------------------------------------------------------------------------
(* The owner a decision rests on, and the commit.                          *)

\* Until a reconcile sends its request no task is under way, and the owner it
\* has read is the provider's, unless somebody else has moved the address.
RouteIsKnown ==
  pc \in {"decide", "route", "rbRoute"} => tasks = {} /\ (moved \/ owner = seen)

\* After a commit the provider routes to the target, and no task and no
\* rollback can take the route away.
CommitIsFinal ==
  status.phase = "CleaningStaleOwners" =>
    /\ status.target # None
    /\ status.source = status.target /\ ~moved =>
         owner = status.target /\ tasks = {} /\ pc \notin {"rbRoute", "rbWait"}

RouteInv == Inv /\ RouteIsKnown /\ CommitIsFinal

\* A reconcile reads the provider only while no task is under way, and every
\* event that starts a task ends what was decided before it.
LEMMA KnownRouteStep ==
  ASSUME ~SlowTasks, Inv, RouteIsKnown, [Next]_vars
  PROVE  RouteIsKnown'
<1>1. Event
  BY NextEvents
<1>2. CASE AgentsStep
  BY <1>2, AgentsWriteOwners DEF SameRoute, RouteIsKnown
<1>3. CASE ProviderStep
  BY <1>3, ProviderMoves DEF controllerVars, RouteIsKnown
<1>4. CASE Learns
  BY <1>4 DEF Learns, ReadsProvider, SameRoute, RouteIsKnown
<1>5. CASE Stands \/ SetsOut
  BY <1>5 DEF Stands, SetsOut, SameRoute, RouteIsKnown
<1>6. CASE RollsBack
  BY <1>6 DEF RollsBack, SameRoute, RouteIsKnown
<1>7. CASE Ends \/ Asks \/ Confirms \/ Settles \/ Finishes \/ \E b \in Nodes : Retargets(b)
  <2>1. pc' \in {"idle", "wait"}
    BY <1>7 DEF Ends, Asks, Confirms, Settles, Finishes, Retargets
  <2> QED
    BY <2>1 DEF RouteIsKnown
<1> QED
  BY <1>1, <1>2, <1>3, <1>4, <1>5, <1>6, <1>7 DEF Event

\* The commit records the owner that was read, and a phase of cleaning that
\* goes on with source and target equal is the one that commit entered.
LEMMA CommitStep ==
  ASSUME ~SlowTasks, RouteInv, [Next]_vars
  PROVE  CommitIsFinal'
<1>1. Event
  BY NextEvents DEF RouteInv
<1>2. CASE AgentsStep
  BY <1>2, AgentsWriteOwners DEF RouteInv, SameRoute, SameAssignment, CommitIsFinal
<1>3. CASE ProviderStep
  BY <1>3, ProviderMoves DEF RouteInv, controllerVars, CommitIsFinal
<1>4. CASE Stands
  BY <1>4 DEF RouteInv, Stands, SameRoute, SameAssignment, CommitIsFinal
<1>5. CASE Ends
  <2>1. status'.phase = "CleaningStaleOwners" => status.phase = "CleaningStaleOwners"
    BY <1>5 DEF Ends, LeavesPhase, Halted
  <2> QED
    BY <1>5, <2>1 DEF RouteInv, Ends, SameRoute, SameAssignment, CommitIsFinal
<1>6. CASE Learns
  BY <1>6 DEF RouteInv, Learns, SameRoute, CommitIsFinal
<1>7. ASSUME NEW b \in Nodes, Retargets(b) PROVE CommitIsFinal'
  BY <1>7 DEF Retargets, CommitIsFinal
<1>8. CASE SetsOut \/ Asks \/ Confirms \/ Finishes
  <2>1. pc = "route" => status.phase = "RoutingProvider"
    BY DEF RouteInv, Inv, RequestIsPersisted
  <2>2. status'.phase # "CleaningStaleOwners"
    BY <1>8, <2>1 DEF SetsOut, Asks, Confirms, Finishes
  <2> QED
    BY <2>2 DEF CommitIsFinal
<1>9. CASE Settles
  <2>1. status.target # None
    BY <1>9 DEF Settles, RouteInv, Inv, TypeOK, ControllerTypeOK, StatusType
  <2>2. tasks = {} /\ (moved \/ owner = status.target)
    BY <1>9 DEF Settles, RouteInv, RouteIsKnown
  <2> QED
    BY <1>9, <2>1, <2>2 DEF Settles, SameRoute, CommitIsFinal
<1>10. CASE RollsBack
  <2>1. CASE status'.phase \in Halted
    BY <2>1 DEF Halted, CommitIsFinal
  <2>2. CASE pc = "decide" /\ status'.phase = status.phase
    <3>1. /\ status'.source = status.source /\ status'.target = status.target
          /\ owner' = owner /\ moved' = moved
          /\ seen = status.target /\ owner # status.source
      <4>1. "decide" \notin {"idle", "rbRoute", "rbWait"} /\ status.phase \notin Halted
        BY <2>2 DEF RouteInv, Inv, ReconcileIsWorking
      <4> QED
        BY <1>10, <2>2, <4>1 DEF RollsBack
    <3>2. status.source = status.target => moved
      BY <2>2, <3>1 DEF RouteInv, RouteIsKnown
    <3> QED
      BY <2>2, <3>1, <3>2 DEF RouteInv, CommitIsFinal
  <2>3. CASE pc = "rbRoute" /\ status'.phase = status.phase
    BY <1>10, <2>3 DEF RollsBack, RouteInv, CommitIsFinal
  <2> QED
    BY <1>10, <2>1, <2>2, <2>3 DEF RollsBack
<1> QED
  BY <1>1, <1>2, <1>3, <1>4, <1>5, <1>6, <1>7, <1>8, <1>9, <1>10 DEF Event

\* When no task outlives the reconcile that started it, ownership is committed
\* only to the node that the provider routes to, for any number of nodes and
\* whatever policy, failure or retry there is (the check of the owner before
\* the commit, failoverip_controller.go).
THEOREM CommitHolds ==
  ASSUME ~SlowTasks
  PROVE  Spec => []CommitFollowsRoute
<1>1. Init => RouteIsKnown /\ CommitIsFinal
  BY PhaseAssumption
  DEF Init, ControllerInit, ApiInit, EmptyStatus, RouteIsKnown, CommitIsFinal, Phases
<1>2. RouteInv /\ [Next]_vars => RouteIsKnown' /\ CommitIsFinal'
  BY KnownRouteStep, CommitStep DEF RouteInv
<1>3. RouteInv => CommitFollowsRoute
  BY DEF RouteInv, CommitIsFinal, CommitFollowsRoute
<1> QED
  BY <1>1, <1>2, <1>3, Invariant, PTL DEF Spec, RouteInv

-----------------------------------------------------------------------------
(* The ownership fence.                                                    *)

\* Unless somebody else has moved the address, the recorded owner is the
\* provider's or the provider has followed a request for the target.
RecordIsOurs ==
  ~moved =>
    /\ status.halt # Fenced
    /\ pc \notin {"rbRoute", "rbWait"}
    /\ tasks \subseteq {status.target}
    /\ status.observed \in {None, owner} \/ owner = status.target
    /\ pc \in {"decide", "route"} => status.observed = owner

\* Without a rollback the only requests are for the target, and the target
\* changes only when none is under way and the recorded owner is current.
LEMMA RecordStep ==
  ASSUME ~SlowTasks, "RollbackProvider" \notin PoliciesInUse,
         \A s \in NodeStates : s.serverID,
         Inv, RouteIsKnown, RecordIsOurs, [Next]_vars
  PROVE  RecordIsOurs'
<1>1. Event
  BY NextEvents
<1>2. None # Fenced
  BY PhaseAssumption DEF HaltReasons, Fenced
<1>3. CASE AgentsStep
  BY <1>3, AgentsWriteOwners DEF SameRoute, SameAssignment, RecordIsOurs
<1>4. CASE ProviderStep
  BY <1>4, ProviderMoves DEF controllerVars, RecordIsOurs, RouteIsKnown
<1>5. CASE Stands
  BY <1>5 DEF Stands, SameRoute, SameAssignment, RecordIsOurs
<1>6. CASE Ends
  <2>1. ASSUME ~moved, ReadsProvider, ~FenceAccepts PROVE FALSE
    <3>1. owner = status.target /\ owner # serverIDForNode(nodes, status.target)
      BY <2>1 DEF RecordIsOurs, FenceAccepts, validateProviderFence
    <3>2. owner \in Servers /\ status.target \in Nodes \cup {None}
          /\ nodes \in [Nodes -> NodeStates]
      BY DEF Inv, TypeOK, ApiTypeOK, ProviderTypeOK, StatusType
    <3>3. owner \in Nodes
      BY <3>1, <3>2 DEF Servers
    <3> QED
      BY <3>1, <3>2, <3>3 DEF serverIDForNode
  <2> QED
    BY <1>6, <2>1 DEF Ends, SameRoute, SameAssignment, RecordIsOurs
<1>7. CASE Learns
  BY <1>7 DEF Learns, ReadsProvider, SameRoute, RecordIsOurs
<1>8. ASSUME NEW b \in Nodes, Retargets(b) PROVE RecordIsOurs'
  BY <1>8 DEF Retargets, SameRoute, RecordIsOurs, RouteIsKnown
<1>9. CASE SetsOut
  BY <1>9 DEF SetsOut, SameRoute, SameAssignment, RecordIsOurs
<1>10. CASE Asks
  <2>1. dest = status.target
    BY <1>10 DEF Asks, Inv, RequestIsPersisted
  <2> QED
    BY <1>10, <2>1 DEF Asks, AcceptRoute, SameAssignment, RecordIsOurs
<1>11. CASE Confirms
  BY <1>2, <1>11 DEF Confirms, SameRoute, RecordIsOurs
<1>12. CASE Settles
  BY <1>2, <1>12 DEF Settles, SameRoute, RecordIsOurs
<1>13. CASE Finishes
  BY <1>2, <1>13 DEF Finishes, SameRoute, SameAssignment, RecordIsOurs
<1>14. CASE RollsBack
  BY <1>14 DEF RollsBack, RecordIsOurs
<1> QED
  BY <1>1, <1>3, <1>4, <1>5, <1>6, <1>7, <1>8, <1>9, <1>10, <1>11, <1>12, <1>13, <1>14
  DEF Event

\* When no task outlives its reconcile, no route is rolled back and every node
\* keeps its server id, the fence stops a transition only for a change that
\* the operator did not make: its own requests, confirmed or not, crashed on or
\* not, pass (validateProviderFence, provider_safety.go).
THEOREM FenceHolds ==
  ASSUME ~SlowTasks, "RollbackProvider" \notin PoliciesInUse,
         \A s \in NodeStates : s.serverID
  PROVE  Spec => []FenceBlocksOnlyForeignMoves
<1>1. Init => RouteIsKnown /\ RecordIsOurs
  BY PhaseAssumption DEF Init, ControllerInit, ApiInit, ProviderInit, EmptyStatus, RouteIsKnown,
     RecordIsOurs, HaltReasons, Fenced
<1>2. Inv /\ RouteIsKnown /\ RecordIsOurs /\ [Next]_vars => RouteIsKnown' /\ RecordIsOurs'
  BY KnownRouteStep, RecordStep
<1>3. RecordIsOurs => FenceBlocksOnlyForeignMoves
  BY DEF RecordIsOurs, FenceBlocksOnlyForeignMoves, Fenced
<1> QED
  BY <1>1, <1>2, <1>3, Invariant, PTL DEF Spec
=============================================================================
