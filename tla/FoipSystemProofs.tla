-------------------------- MODULE FoipSystemProofs --------------------------
(***************************************************************************)
(* Proofs about FoipSystem, for every set of nodes, every recovery policy   *)
(* and every value of the other constants.                                  *)
(***************************************************************************)
EXTENDS FoipSystem, TLAPS

USE NodesAssumption, ThresholdsAssumption

\* What every step of the system satisfies besides preserving Inv: the step
\* formulas of GatesNotSkipped and HaltIsSticky.
GateStep ==
  status'.phase \notin Halted \cup {status.phase} =>
    status.phase = None \/ CanTransition(status.phase, status'.phase)

HaltStep ==
  status.phase \in Halted /\ status'.phase \notin Halted =>
    /\ status'.token = annotation
    /\ status'.token # status.token

\* The status after a merge patch is well typed when the patched copy is
\* (Status().Patch).
LEMMA MergeType ==
  ASSUME NEW b, NEW n \in StatusType, NEW s \in StatusType
  PROVE  MergePatch(b, n, s) \in StatusType
BY DEF MergePatch, Merged, StatusType

\* The phase changes that the reconcile relies on without asking are in the
\* table of legal ones.
LEMMA TableHas ==
  /\ CanTransition("Selecting", "Stabilizing")
  /\ CanTransition("Stabilizing", "PreparingTarget")
  /\ CanTransition("RoutingProvider", "VerifyingProvider")
BY DEF CanTransition, legalPhaseTransitions

\* The initial state satisfies the invariant: a FailoverIp without status, no
\* reconcile running.
LEMMA InitInv == Init => Inv
<1> SUFFICES ASSUME Init PROVE Inv
  OBVIOUS
<1> USE DEF Init, ApiInit, ProviderInit, ControllerInit, AgentInit
<1>1. EmptyStatus \in StatusType
  BY DEF EmptyStatus, StatusType, TimerStates, Phases, HaltReasons
<1>2. TypeOK
  BY <1>1, ApiServerAssumption, ProviderAssumption
  DEF TypeOK, ApiTypeOK, ProviderTypeOK, ControllerTypeOK, AgentTypeOK, AgentState, AtRest
<1>3. CopyIsCurrent /\ BaseIsCurrent /\ ReconcileIsWorking /\ SentIsPersisted
  BY DEF CopyIsCurrent, BaseIsCurrent, ReconcileIsWorking, SentIsPersisted, EmptyStatus
<1>4. CleanupBudget /\ RequestIsPersisted
  BY DEF CleanupBudget, RequestIsPersisted, EmptyStatus
<1> QED
  BY <1>2, <1>3, <1>4 DEF Inv

\* The history of windows is a Boolean after every step.
LEMMA WindowType == RecordsWindow => steady' \in BOOLEAN
BY DEF RecordsWindow

\* A patch that ends the reconcile preserves the invariant when the copy it
\* writes keeps the persisted attempt and the cleanup budget.
LEMMA PatchPreserves ==
  ASSUME Inv, RecordsWindow, UNCHANGED agentVars,
         NEW b, NEW n \in StatusType,
         PatchStatus(b, n), Return,
         ProviderTypeOK', sent' => status.attempted = "running",
         b.phase = status.phase, b.cleanups = status.cleanups,
         b.started = status.started, n.attempted = status.attempted,
         n.started \/ n.phase = None,
         n.cleanups = CleanupMaxAttempts =>
           n.phase \in Halted \cup {"Selecting", "Stabilizing"}
  PROVE  Inv' /\ status'.phase = n.phase
<1>1. status' \in StatusType
  BY MergeType DEF Inv, TypeOK, ApiTypeOK, PatchStatus
<1>2. /\ status'.phase = n.phase /\ status'.cleanups = n.cleanups
      /\ status'.started = n.started /\ status'.attempted = status.attempted
  BY DEF PatchStatus, MergePatch, Merged
<1>3. EmptyStatus \in StatusType
  BY DEF EmptyStatus, StatusType, TimerStates, Phases, HaltReasons
<1>4. TypeOK'
  BY <1>1, <1>3, WindowType
  DEF Inv, TypeOK, ApiTypeOK, ControllerTypeOK, AgentTypeOK, agentVars, PatchStatus, Return
<1>5. pc' = "idle"
  BY DEF Return
<1>6. (CopyIsCurrent /\ BaseIsCurrent /\ ReconcileIsWorking /\ SentIsPersisted)'
  BY <1>2, <1>5
  DEF CopyIsCurrent, BaseIsCurrent, ReconcileIsWorking, SentIsPersisted
<1>7. CleanupBudget' /\ RequestIsPersisted'
  BY <1>2, <1>5 DEF CleanupBudget, RequestIsPersisted
<1> QED
  BY <1>2, <1>4, <1>6, <1>7 DEF Inv

\* While a reconcile runs, its copy has the stored value of every field that
\* only the controller writes.
LEMMA CopyFields ==
  ASSUME Inv, pc # "idle"
  PROVE  /\ mem \in StatusType
         /\ mem.started /\ mem.phase \notin Halted
         /\ mem.started = status.started /\ mem.phase = status.phase
         /\ mem.source = status.source /\ mem.target = status.target
         /\ mem.attempted = status.attempted /\ mem.cleanups = status.cleanups
         /\ mem.token = status.token
<1>1. status \in StatusType /\ mem \in StatusType
  BY DEF Inv, TypeOK, ApiTypeOK, ControllerTypeOK
<1>2. mem = [status EXCEPT !.owners = mem.owners]
  BY DEF Inv, CopyIsCurrent
<1>3. status.started /\ status.phase \notin Halted
  BY DEF Inv, ReconcileIsWorking
<1> QED
  BY <1>1, <1>2, <1>3 DEF StatusType

\* A patch that ends a reconcile after the provider was read preserves the
\* invariant and both step formulas, for a copy that differs from the one
\* read by a legal phase change or a halt.
LEMMA DecisionPreserves ==
  ASSUME Inv, RecordsWindow, UNCHANGED agentVars, pc # "idle",
         NEW b, NEW n \in StatusType, PatchAndReturn(b, n),
         b.phase = mem.phase, b.cleanups = mem.cleanups, b.started = mem.started,
         n.attempted = mem.attempted, n.started = mem.started,
         n.cleanups = CleanupMaxAttempts =>
           n.phase \in Halted \cup {"Selecting", "Stabilizing"},
         n.phase \in Halted \cup {mem.phase} \/ CanTransition(mem.phase, n.phase)
  PROVE  Inv' /\ GateStep /\ HaltStep
<1>1. PatchStatus(b, n) /\ Return /\ UNCHANGED providerVars
  BY DEF PatchAndReturn
<1>2. ProviderTypeOK' /\ (sent' => status.attempted = "running")
  BY <1>1 DEF Inv, TypeOK, ProviderTypeOK, SentIsPersisted, providerVars
<1>3. /\ b.phase = status.phase /\ b.cleanups = status.cleanups
      /\ b.started = status.started /\ n.attempted = status.attempted
      /\ n.started /\ mem.phase = status.phase /\ status.phase \notin Halted
  BY CopyFields
<1>4. Inv' /\ status'.phase = n.phase
  BY <1>1, <1>2, <1>3, PatchPreserves
<1> QED
  BY <1>3, <1>4 DEF GateStep, HaltStep

\* A reconcile that ends without a write preserves the invariant.
LEMMA ReturnPreserves ==
  ASSUME Inv, RecordsWindow, UNCHANGED agentVars, UNCHANGED apiVars, Return,
         ProviderTypeOK', sent' => status.attempted = "running"
  PROVE  Inv' /\ GateStep /\ HaltStep
<1>1. EmptyStatus \in StatusType
  BY DEF EmptyStatus, StatusType, TimerStates, Phases, HaltReasons
<1>2. TypeOK'
  BY <1>1, WindowType
  DEF Inv, TypeOK, ApiTypeOK, ControllerTypeOK, AgentTypeOK, agentVars, apiVars, Return
<1>3. pc' = "idle" /\ status' = status
  BY DEF Return, apiVars
<1>4. (CopyIsCurrent /\ BaseIsCurrent /\ ReconcileIsWorking /\ SentIsPersisted)'
  BY <1>3
  DEF Inv, CopyIsCurrent, BaseIsCurrent, ReconcileIsWorking, SentIsPersisted
<1>5. CleanupBudget' /\ RequestIsPersisted'
  BY <1>3 DEF Inv, CleanupBudget, RequestIsPersisted
<1> QED
  BY <1>2, <1>3, <1>4, <1>5 DEF Inv, GateStep, HaltStep

-----------------------------------------------------------------------------

\* Decisions taken on the status alone, the fence and the adoption of the
\* provider's owner.
LEMMA StatusStep ==
  ASSUME Inv, RecordsWindow, UNCHANGED agentVars,
         \/ Starts \/ persistInvalidSpec \/ BlocksInvalidStatus
         \/ ManualRetry \/ BlocksOwnershipChange
  PROVE  Inv' /\ GateStep /\ HaltStep
<1>1. status \in StatusType /\ annotation \in Tokens \cup {None}
  BY DEF Inv, TypeOK, ApiTypeOK
<1>2. ASSUME NEW n \in StatusType, PatchAndReturn(status, n),
             n.attempted = status.attempted, n.started \/ n.phase = None,
             n.phase \in Halted \cup {"Selecting", "Stabilizing"}
      PROVE  Inv' /\ status'.phase = n.phase
  <2>1. PatchStatus(status, n) /\ Return /\ UNCHANGED providerVars
    BY <1>2 DEF PatchAndReturn
  <2>2. ProviderTypeOK' /\ (sent' => status.attempted = "running")
    BY <2>1 DEF Inv, TypeOK, ProviderTypeOK, SentIsPersisted, providerVars
  <2> QED
    BY <1>2, <2>1, <2>2, PatchPreserves
<1>3. ASSUME NEW r \in HaltReasons, status.started,
             PatchAndReturn(status, Stopped(status, "Blocked", r))
      PROVE  Inv' /\ GateStep /\ HaltStep
  <2>1. /\ Stopped(status, "Blocked", r) \in StatusType
        /\ Stopped(status, "Blocked", r).attempted = status.attempted
        /\ Stopped(status, "Blocked", r).started
        /\ Stopped(status, "Blocked", r).phase = "Blocked"
    BY <1>1, <1>3 DEF Stopped, StatusType, Phases
  <2>2. Inv' /\ status'.phase = "Blocked"
    BY <1>2, <1>3, <2>1 DEF Halted
  <2> QED
    BY <2>2 DEF GateStep, HaltStep, Halted
<1>4. CASE Starts
  <2> DEFINE n == StartTransition(status)
  <2>1. /\ n \in StatusType /\ n.attempted = status.attempted /\ n.started
        /\ n.phase = "Selecting"
    BY <1>1 DEF StartTransition, StatusType, Phases
  <2>2. PatchAndReturn(status, n) /\ status.phase = None
    BY <1>4 DEF Starts, Inv, ReconcileIsWorking
  <2> HIDE DEF n
  <2>3. Inv' /\ status'.phase = "Selecting"
    BY <1>2, <2>1, <2>2
  <2>4. None \notin Halted
    BY PhaseAssumption DEF Halted, Phases
  <2> QED
    BY <2>2, <2>3, <2>4 DEF GateStep, HaltStep
<1>5. CASE persistInvalidSpec
  BY <1>3, <1>5 DEF persistInvalidSpec, HaltReasons
<1>6. CASE BlocksInvalidStatus
  BY <1>3, <1>6 DEF BlocksInvalidStatus, HaltReasons
<1>7. CASE BlocksOwnershipChange
  BY <1>3, <1>7 DEF BlocksOwnershipChange, ReadsProvider, Resumable, HaltReasons
<1>8. CASE ManualRetry
  <2> DEFINE n == [AdvanceTransition(status, "Selecting") EXCEPT
                     !.token = annotation, !.candidateSince = "unset"]
  <2>1. PatchAndReturn(status, n) /\ status.started /\ annotation # status.token
    BY <1>8 DEF ManualRetry, Resumable, RetryRequested
  <2>2. /\ n \in StatusType /\ n.attempted = status.attempted /\ n.started
        /\ n.phase = "Selecting" /\ n.token = annotation
    <3> DEFINE a == AdvanceTransition(status, "Selecting")
    <3>1. /\ a \in StatusType /\ a.attempted = status.attempted
          /\ a.started = status.started /\ a.phase = "Selecting"
      BY <1>1 DEF AdvanceTransition, StatusType, Phases
    <3>2. annotation \in Tokens \cup {None} /\ "unset" \in TimerStates
      BY DEF Inv, TypeOK, ApiTypeOK, TimerStates
    <3>3. n = [a EXCEPT !.token = annotation, !.candidateSince = "unset"]
      OBVIOUS
    <3> HIDE DEF a, n
    <3> QED
      BY <2>1, <3>1, <3>2, <3>3 DEF StatusType
  <2>3. CanTransition(status.phase, "Selecting")
    BY <1>8 DEF ManualRetry
  <2> HIDE DEF n
  <2>4. Inv' /\ status'.phase = "Selecting"
    BY <1>2, <2>1, <2>2
  <2>5. status'.token = annotation
    BY <2>1, <2>2 DEF PatchAndReturn, PatchStatus, MergePatch, Merged
  <2> QED
    BY <2>1, <2>3, <2>4, <2>5 DEF GateStep, HaltStep
<1> QED
  BY <1>4, <1>5, <1>6, <1>7, <1>8

-----------------------------------------------------------------------------

\* Observes: the copy becomes the stored status.
LEMMA ObserveStep ==
  ASSUME Inv, RecordsWindow, UNCHANGED agentVars, Observes
  PROVE  Inv' /\ GateStep /\ HaltStep
<1> DEFINE n == Adopted(status)
<1>1. /\ status \in StatusType /\ owner \in Servers
      /\ status.started /\ status.phase \notin Halted
  BY DEF Inv, TypeOK, ApiTypeOK, ProviderTypeOK, Observes, ReadsProvider, Resumable
<1>2. nodeForServerID(nodes, owner) \in Nodes \cup {None}
  BY DEF nodeForServerID, Inv, TypeOK, ApiTypeOK
<1>3. /\ n \in StatusType /\ n.started /\ n.phase = status.phase
      /\ n.attempted = status.attempted /\ n.cleanups = status.cleanups
      /\ n.token = status.token
  <2>1. PICK t \in Nodes \cup {None} : n = [status EXCEPT !.observed = owner, !.target = t]
    <3>1. status.target \in Nodes \cup {None}
      BY <1>1 DEF StatusType
    <3> QED
      BY <1>2, <3>1 DEF Adopted
  <2> HIDE DEF n
  <2> QED
    BY <1>1, <2>1 DEF StatusType
<1>4. n = MergePatch(status, n, status)
  BY <1>1, <1>3 DEF MergePatch, Merged, StatusType
<1>5. status' = n
  BY <1>4 DEF Observes, PatchStatus, apiVars
<1>6. pc' = "decide" /\ mem' = n
  BY DEF Observes
<1> HIDE DEF n
<1>7. /\ annotation' = annotation /\ specValid' = specValid /\ nodes' = nodes
      /\ base' = base /\ dest' = dest /\ seen' = owner
      /\ owner' = owner /\ tasks' = tasks /\ sent' = sent /\ moved' = moved
      /\ ip' = ip /\ agent' = agent
  BY DEF Observes, PatchStatus, apiVars, providerVars, agentVars
<1>8. TypeOK'
  BY <1>3, <1>5, <1>6, <1>7, WindowType
  DEF Inv, TypeOK, ApiTypeOK, ProviderTypeOK, ControllerTypeOK, AgentTypeOK
<1>9. CopyIsCurrent' /\ BaseIsCurrent'
  BY <1>3, <1>5, <1>6 DEF CopyIsCurrent, BaseIsCurrent, StatusType
<1>10. ReconcileIsWorking' /\ SentIsPersisted' /\ CleanupBudget' /\ RequestIsPersisted'
  BY <1>1, <1>3, <1>5, <1>6, <1>7
  DEF Inv, ReconcileIsWorking, SentIsPersisted, CleanupBudget, RequestIsPersisted
<1> QED
  BY <1>1, <1>3, <1>5, <1>8, <1>9, <1>10 DEF Inv, GateStep, HaltStep

\* A copy that only moves to another phase along the table is well typed.
LEMMA AdvanceType ==
  ASSUME NEW s \in StatusType, NEW to \in Phases
  PROVE  /\ AdvanceTransition(s, to) \in StatusType
         /\ AdvanceTransition(s, to).phase = to
         /\ AdvanceTransition(s, to).attempted = s.attempted
         /\ AdvanceTransition(s, to).started = s.started
         /\ AdvanceTransition(s, to).cleanups = s.cleanups
BY DEF AdvanceTransition, StatusType

\* So is a copy that is stopped.
LEMMA StoppedType ==
  ASSUME NEW s \in StatusType, NEW p \in Halted, NEW r \in HaltReasons
  PROVE  /\ Stopped(s, p, r) \in StatusType
         /\ Stopped(s, p, r).phase = p
         /\ Stopped(s, p, r).attempted = s.attempted
         /\ Stopped(s, p, r).started = s.started
         /\ Stopped(s, p, r).cleanups = s.cleanups
<1>1. p \in Phases
  BY DEF Halted, Phases
<1> QED
  BY <1>1 DEF Stopped, StatusType

\* So is a copy whose candidate is forgotten.
LEMMA ForgetType ==
  ASSUME NEW s \in StatusType
  PROVE  LET n == [s EXCEPT !.candidateSince = "unset", !.failures = 0, !.recoveries = 0]
         IN /\ n \in StatusType
            /\ n.phase = s.phase /\ n.attempted = s.attempted
            /\ n.started = s.started /\ n.cleanups = s.cleanups
<1>1. 0 \in 0 .. FailureThreshold - 1 /\ 0 \in 0 .. RecoveryThreshold - 1
  OBVIOUS
<1> QED
  BY <1>1 DEF StatusType, TimerStates

\* So is a copy for which a target is selected.
LEMMA SelectedType ==
  ASSUME NEW s \in StatusType, NEW t \in Nodes
  PROVE  LET n == [s EXCEPT !.source = s.target, !.target = t, !.owners = {},
                            !.cleanups = 0, !.nextCleanup = "unset",
                            !.candidateSince = "unset", !.failures = 0,
                            !.recoveries = 0]
         IN /\ n \in StatusType
            /\ n.phase = s.phase /\ n.attempted = s.attempted
            /\ n.started = s.started /\ n.cleanups = 0
<1>1. /\ 0 \in 0 .. FailureThreshold - 1 /\ 0 \in 0 .. RecoveryThreshold - 1
      /\ 0 \in 0 .. CleanupMaxAttempts
  OBVIOUS
<1> QED
  BY <1>1 DEF StatusType, TimerStates

\* Counting, stabilization and the choice of a target.
LEMMA SelectionStep ==
  ASSUME Inv, RecordsWindow, UNCHANGED agentVars, NEW t,
         \/ CandidateRecovers
         \/ Reselects(t) \/ CountsFailure(t) \/ OpensWindow(t)
         \/ t \in Nodes /\ SelectsTarget(t)
  PROVE  Inv' /\ GateStep /\ HaltStep
<1>1. pc = "decide"
  BY DEF CandidateRecovers, Reselects, CountsFailure, OpensWindow, SelectsTarget,
         PastFailureThreshold, Prefers
<1>2. mem \in StatusType /\ mem.phase \notin Halted
  BY <1>1, CopyFields
<1>3. mem.cleanups = CleanupMaxAttempts => mem.phase \in {"Selecting", "Stabilizing"}
  BY <1>1, CopyFields DEF Inv, CleanupBudget
<1>4. CASE CandidateRecovers
  <2>1. CASE mem.recoveries + 1 < RecoveryThreshold
    <3> DEFINE n == [mem EXCEPT !.recoveries = @ + 1]
    <3>1. PatchAndReturn(mem, n)
      BY <1>4, <2>1 DEF CandidateRecovers
    <3>2. /\ n \in StatusType /\ n.phase = mem.phase /\ n.attempted = mem.attempted
          /\ n.started = mem.started /\ n.cleanups = mem.cleanups
      BY <1>2, <2>1 DEF StatusType
    <3> HIDE DEF n
    <3> QED
      BY <1>1, <1>3, <3>1, <3>2, DecisionPreserves
  <2>2. CASE ~(mem.recoveries + 1 < RecoveryThreshold)
    <3> DEFINE n == [AdvanceTransition(mem, "Selecting") EXCEPT
                       !.candidateSince = "unset", !.failures = 0, !.recoveries = 0]
    <3>1. PatchAndReturn(mem, n) /\ CanTransition(mem.phase, "Selecting")
      BY <1>4, <2>2 DEF CandidateRecovers
    <3>2. /\ n \in StatusType /\ n.phase = "Selecting" /\ n.attempted = mem.attempted
          /\ n.started = mem.started
      <4>1. "Selecting" \in Phases
        BY DEF Phases
      <4> DEFINE a == AdvanceTransition(mem, "Selecting")
      <4>2. /\ a \in StatusType /\ a.phase = "Selecting"
            /\ a.attempted = mem.attempted /\ a.started = mem.started
        BY <1>2, <4>1, AdvanceType
      <4>3. n = [a EXCEPT !.candidateSince = "unset", !.failures = 0, !.recoveries = 0]
        OBVIOUS
      <4> HIDE DEF a, n
      <4> QED
        BY <4>2, <4>3, ForgetType
    <3> HIDE DEF n
    <3> QED
      BY <1>1, <3>1, <3>2, DecisionPreserves
  <2> QED
    BY <2>1, <2>2
<1>5. CASE Reselects(t)
  <2> DEFINE n == [AdvanceTransition(mem, "Selecting") EXCEPT !.candidateSince = "unset"]
  <2>1. PatchAndReturn(mem, n) /\ CanTransition(mem.phase, "Selecting")
    BY <1>5 DEF Reselects
  <2>2. /\ n \in StatusType /\ n.phase = "Selecting" /\ n.attempted = mem.attempted
        /\ n.started = mem.started
    BY <1>2 DEF StatusType, AdvanceTransition, Phases, TimerStates
  <2> HIDE DEF n
  <2> QED
    BY <1>1, <2>1, <2>2, DecisionPreserves
<1>6. CASE CountsFailure(t)
  <2> DEFINE n == [mem EXCEPT !.failures = @ + 1]
  <2>1. PatchAndReturn(mem, n) /\ mem.failures + 1 < FailureThreshold
    BY <1>6 DEF CountsFailure
  <2>2. /\ n \in StatusType /\ n.phase = mem.phase /\ n.attempted = mem.attempted
        /\ n.started = mem.started /\ n.cleanups = mem.cleanups
    BY <1>2, <2>1 DEF StatusType
  <2> HIDE DEF n
  <2> QED
    BY <1>1, <1>3, <2>1, <2>2, DecisionPreserves
<1>7. CASE OpensWindow(t)
  <2> DEFINE o == [mem EXCEPT !.candidateSince = "running"]
             n == IF mem.phase = "Selecting"
                    THEN AdvanceTransition(o, "Stabilizing") ELSE o
  <2>1. PatchAndReturn(mem, n)
    BY <1>7 DEF OpensWindow
  <2>2. /\ n \in StatusType /\ n.attempted = mem.attempted
        /\ n.started = mem.started /\ n.cleanups = mem.cleanups
        /\ n.phase = IF mem.phase = "Selecting" THEN "Stabilizing" ELSE mem.phase
    <3>1. /\ o \in StatusType /\ o.attempted = mem.attempted /\ o.phase = mem.phase
          /\ o.started = mem.started /\ o.cleanups = mem.cleanups
      BY <1>2 DEF StatusType, TimerStates
    <3> HIDE DEF o
    <3> QED
      BY <3>1, AdvanceType DEF Phases
  <2> HIDE DEF n
  <2> QED
    BY <1>1, <1>3, <2>1, <2>2, DecisionPreserves, TableHas
<1>8. CASE t \in Nodes /\ SelectsTarget(t)
  <2> DEFINE b == [mem EXCEPT !.failures = @ + 1]
             o == [mem EXCEPT !.source = mem.target, !.target = t, !.owners = {},
                              !.cleanups = 0, !.nextCleanup = "unset",
                              !.candidateSince = "unset", !.failures = 0,
                              !.recoveries = 0]
             n == IF mem.phase = "Stabilizing"
                    THEN AdvanceTransition(o, "PreparingTarget") ELSE o
  <2>1. PatchAndReturn(b, n)
    BY <1>8 DEF SelectsTarget
  <2>2. /\ n \in StatusType /\ n.attempted = mem.attempted
        /\ n.started = mem.started /\ n.cleanups = 0
        /\ n.phase = IF mem.phase = "Stabilizing" THEN "PreparingTarget" ELSE mem.phase
    <3>1. /\ o \in StatusType
          /\ o.phase = mem.phase /\ o.attempted = mem.attempted
          /\ o.started = mem.started /\ o.cleanups = 0
      BY <1>2, <1>8, SelectedType
    <3>2. "PreparingTarget" \in Phases
      BY DEF Phases
    <3> HIDE DEF o
    <3> QED
      BY <3>1, <3>2, AdvanceType
  <2>3. b.phase = mem.phase /\ b.cleanups = mem.cleanups /\ b.started = mem.started
    BY <1>2 DEF StatusType
  <2>4. CleanupMaxAttempts # 0
    OBVIOUS
  <2> HIDE DEF n, b
  <2> QED
    BY <1>1, <2>1, <2>2, <2>3, <2>4, DecisionPreserves, TableHas
<1> QED
  BY <1>4, <1>5, <1>6, <1>7, <1>8

-----------------------------------------------------------------------------

\* The patches of the handoff, from the prepared target to success.
LEMMA HandoffStep ==
  ASSUME Inv, RecordsWindow, UNCHANGED agentVars,
         \/ TargetPrepares \/ StartsRouting \/ ProviderVerified \/ TrafficVerified
         \/ Commits \/ CleanupPending \/ Succeeds \/ BlocksUnexpectedPhase
  PROVE  Inv' /\ GateStep /\ HaltStep
<1>1. pc = "decide"
  BY DEF TargetPrepares, StartsRouting, ProviderVerified, TrafficVerified, Commits,
         CleanupPending, Succeeds, BlocksUnexpectedPhase, CleanupDue, AfterRoute,
         LocallyPrepared, HasHandoff, Keeps
<1>2. mem \in StatusType
  BY <1>1, CopyFields
<1>3. mem.cleanups = CleanupMaxAttempts => mem.phase \in {"Selecting", "Stabilizing"}
  BY <1>1, CopyFields DEF Inv, CleanupBudget
<1>4. ASSUME NEW to \in Phases, AdvancesTo(to),
             mem.phase \notin {"Selecting", "Stabilizing"}
      PROVE  Inv' /\ GateStep /\ HaltStep
  <2> DEFINE n == AdvanceTransition(mem, to)
  <2>1. PatchAndReturn(mem, n) /\ CanTransition(mem.phase, to)
    BY <1>4 DEF AdvancesTo
  <2>2. /\ n \in StatusType /\ n.phase = to /\ n.attempted = mem.attempted
        /\ n.started = mem.started /\ n.cleanups = mem.cleanups
    BY <1>2, AdvanceType
  <2> HIDE DEF n
  <2> QED
    BY <1>1, <1>3, <1>4, <2>1, <2>2, DecisionPreserves
<1>5. CASE TargetPrepares
  BY <1>4, <1>5 DEF TargetPrepares, Phases
<1>6. CASE StartsRouting
  BY <1>4, <1>6 DEF StartsRouting, Phases
<1>7. CASE ProviderVerified
  BY <1>4, <1>7 DEF ProviderVerified, Phases
<1>8. CASE TrafficVerified
  BY <1>4, <1>8 DEF TrafficVerified, Phases
<1>9. CASE Succeeds
  BY <1>4, <1>9 DEF Succeeds, CleanupDue, Phases
<1>10. CASE Commits
  <2> DEFINE o == [mem EXCEPT !.source = mem.target]
             n == AdvanceTransition(o, "CleaningStaleOwners")
  <2>1. /\ PatchAndReturn(mem, n) /\ CanTransition(mem.phase, "CleaningStaleOwners")
        /\ mem.phase = "Committing"
    BY <1>10 DEF Commits
  <2>2. /\ o \in StatusType /\ o.attempted = mem.attempted
        /\ o.started = mem.started /\ o.cleanups = mem.cleanups
    BY <1>2 DEF StatusType
  <2>3. "CleaningStaleOwners" \in Phases
    BY DEF Phases
  <2> HIDE DEF o
  <2>4. /\ n \in StatusType /\ n.phase = "CleaningStaleOwners"
        /\ n.attempted = mem.attempted
        /\ n.started = mem.started /\ n.cleanups = mem.cleanups
    BY <2>2, <2>3, AdvanceType
  <2> HIDE DEF n
  <2> QED
    BY <1>1, <1>3, <2>1, <2>4, DecisionPreserves
<1>11. CASE CleanupPending
  <2> DEFINE c == [mem EXCEPT !.cleanups = @ + 1]
             n == IF c.cleanups >= CleanupMaxAttempts
                    THEN Stopped(c, "Degraded", "CleanupTimeout")
                    ELSE [c EXCEPT !.nextCleanup = "running"]
  <2>1. PatchAndReturn(mem, n) /\ mem.phase = "CleaningStaleOwners"
    BY <1>11 DEF CleanupPending, CleanupDue
  <2>2. mem.cleanups \in 0 .. CleanupMaxAttempts - 1
    BY <1>2, <1>3, <2>1 DEF StatusType
  <2>3. /\ c \in StatusType /\ c.phase = mem.phase /\ c.attempted = mem.attempted
        /\ c.started = mem.started /\ c.cleanups = mem.cleanups + 1
    BY <1>2, <2>2 DEF StatusType
  <2> HIDE DEF c
  <2>4. CASE c.cleanups >= CleanupMaxAttempts
    <3>1. n = Stopped(c, "Degraded", "CleanupTimeout")
      BY <2>4
    <3>2. "Degraded" \in Halted /\ "CleanupTimeout" \in HaltReasons
      BY DEF Halted, HaltReasons
    <3>3. /\ n \in StatusType /\ n.phase = "Degraded" /\ n.attempted = mem.attempted
          /\ n.started = mem.started
      <4> HIDE DEF n
      <4> QED
        BY <2>3, <3>1, <3>2, StoppedType
    <3> HIDE DEF n
    <3> QED
      BY <1>1, <2>1, <3>2, <3>3, DecisionPreserves
  <2>5. CASE ~(c.cleanups >= CleanupMaxAttempts)
    <3>1. n = [c EXCEPT !.nextCleanup = "running"]
      BY <2>5
    <3>2. /\ n \in StatusType /\ n.phase = mem.phase /\ n.attempted = mem.attempted
          /\ n.started = mem.started /\ n.cleanups # CleanupMaxAttempts
      BY <2>3, <2>5, <3>1 DEF StatusType, TimerStates
    <3> HIDE DEF n
    <3> QED
      BY <1>1, <2>1, <3>2, DecisionPreserves
  <2> QED
    BY <2>4, <2>5
<1>12. CASE BlocksUnexpectedPhase
  <2> DEFINE n == Stopped(mem, "Blocked", "UnexpectedPhase")
  <2>1. PatchAndReturn(mem, n)
    BY <1>12 DEF BlocksUnexpectedPhase
  <2>2. "Blocked" \in Halted /\ "UnexpectedPhase" \in HaltReasons
    BY DEF Halted, HaltReasons
  <2>3. /\ n \in StatusType /\ n.phase = "Blocked" /\ n.attempted = mem.attempted
        /\ n.started = mem.started
    BY <1>2, <2>2, StoppedType
  <2> HIDE DEF n
  <2> QED
    BY <1>1, <2>1, <2>2, <2>3, DecisionPreserves
<1> QED
  BY <1>5, <1>6, <1>7, <1>8, <1>9, <1>10, <1>11, <1>12

\* The status written with optimistic locking once the route is the target's.
LEMMA VerifyStep ==
  ASSUME Inv, RecordsWindow, UNCHANGED agentVars, RouteConfirmed \/ AlreadyRouted
  PROVE  Inv' /\ GateStep /\ HaltStep
<1>1. pc # "idle"
  BY DEF RouteConfirmed, AlreadyRouted, LocallyPrepared, HasHandoff, Keeps
<1>2. mem \in StatusType /\ mem.phase = status.phase /\ dest \in Nodes \cup {None}
  BY <1>1, CopyFields DEF Inv, TypeOK, ControllerTypeOK
<1>3. mem.phase = "RoutingProvider"
  BY <1>2 DEF RouteConfirmed, AlreadyRouted, Inv, RequestIsPersisted
<1>4. PICK o \in StatusType :
        /\ UpdateStatus(mem, AdvanceTransition(o, "VerifyingProvider"))
        /\ o.attempted = mem.attempted /\ o.started = mem.started
        /\ o.cleanups = mem.cleanups
  <2>1. CASE AlreadyRouted
    BY <1>2, <2>1 DEF AlreadyRouted
  <2>2. CASE RouteConfirmed
    <3> DEFINE o == [mem EXCEPT !.observed = dest]
    <3>1. /\ o \in StatusType /\ o.attempted = mem.attempted
          /\ o.started = mem.started /\ o.cleanups = mem.cleanups
      BY <1>2 DEF StatusType, Servers
    <3> QED
      BY <2>2, <3>1 DEF RouteConfirmed
  <2> QED
    BY <2>1, <2>2
<1> DEFINE n == AdvanceTransition(o, "VerifyingProvider")
<1>5. "VerifyingProvider" \in Phases
  BY DEF Phases
<1>6. /\ n \in StatusType /\ n.phase = "VerifyingProvider"
      /\ n.attempted = mem.attempted /\ n.started = mem.started
      /\ n.cleanups = mem.cleanups
  BY <1>4, <1>5, AdvanceType
<1>7. UpdateStatus(mem, n)
  BY <1>4
<1> HIDE DEF n
<1>8. n = MergePatch(mem, n, mem)
  BY <1>2, <1>6 DEF MergePatch, Merged, StatusType
<1>9. PatchAndReturn(mem, n)
  BY <1>7, <1>8 DEF UpdateStatus, PatchStatus, PatchAndReturn, RouteConfirmed, AlreadyRouted
<1>10. mem.cleanups # CleanupMaxAttempts
  BY <1>1, <1>3, CopyFields DEF Inv, CleanupBudget, Halted
<1> QED
  BY <1>1, <1>3, <1>6, <1>9, <1>10, DecisionPreserves, TableHas

-----------------------------------------------------------------------------

\* What recoverPostRouteFailure writes.
LEMMA RecoveryStep ==
  ASSUME Inv, RecordsWindow, UNCHANGED agentVars,
         \/ HoldsDualOwnership \/ RequiresManualIntervention \/ RollbackUnavailable
         \/ RollbackAlreadyConverged \/ RollbackConfirmed \/ RollbackFails
  PROVE  Inv' /\ GateStep /\ HaltStep
<1>1. pc # "idle"
  BY DEF HoldsDualOwnership, RequiresManualIntervention, RollbackUnavailable,
         RollbackAlreadyConverged, RollbackConfirmed, RollbackFails,
         PostRouteProbeFails, AfterRoute, LocallyPrepared, HasHandoff, Keeps
<1>2. /\ mem \in StatusType /\ status \in StatusType /\ base \in StatusType
      /\ owner \in Servers /\ dest \in Nodes \cup {None}
  BY <1>1, CopyFields
  DEF Inv, TypeOK, ApiTypeOK, ControllerTypeOK, ProviderTypeOK
<1>3. ASSUME pc \in {"rbRoute", "rbWait"}
      PROVE  /\ base.phase = mem.phase /\ base.cleanups = mem.cleanups
             /\ base.started = mem.started
  <2>1. base = [status EXCEPT !.owners = base.owners, !.attempted = base.attempted]
    BY <1>3 DEF Inv, BaseIsCurrent
  <2> QED
    BY <1>1, <1>2, <2>1, CopyFields DEF StatusType
<1>4. "Recovery" \in HaltReasons
  BY DEF HaltReasons
<1>5. ASSUME NEW b, NEW o \in StatusType, NEW p \in Halted,
             persistRecoveryState(b, o, p),
             o.attempted = mem.attempted, o.started = mem.started,
             b.phase = mem.phase, b.cleanups = mem.cleanups, b.started = mem.started
      PROVE  Inv' /\ GateStep /\ HaltStep
  <2> DEFINE n == Stopped(o, p, "Recovery")
  <2>1. PatchAndReturn(b, n)
    BY <1>5 DEF persistRecoveryState
  <2>2. /\ n \in StatusType /\ n.phase = p /\ n.attempted = mem.attempted
        /\ n.started = mem.started
    BY <1>4, <1>5, StoppedType
  <2> HIDE DEF n
  <2> QED
    BY <1>1, <1>5, <2>1, <2>2, DecisionPreserves
<1>6. CASE HoldsDualOwnership \/ RequiresManualIntervention \/ RollbackUnavailable
  BY <1>2, <1>5, <1>6
  DEF HoldsDualOwnership, RequiresManualIntervention, RollbackUnavailable, Halted
<1>7. CASE RollbackAlreadyConverged
  <2> DEFINE o == [mem EXCEPT !.observed = owner]
  <2>1. o \in StatusType /\ o.attempted = mem.attempted /\ o.started = mem.started
    BY <1>2 DEF StatusType
  <2>2. persistRecoveryState(mem, o, "Degraded") /\ "Degraded" \in Halted
    BY <1>7 DEF RollbackAlreadyConverged, Halted
  <2> HIDE DEF o
  <2> QED
    BY <1>5, <2>1, <2>2
<1>8. CASE RollbackConfirmed
  <2> DEFINE o == [mem EXCEPT !.observed = dest]
  <2>1. o \in StatusType /\ o.attempted = mem.attempted /\ o.started = mem.started
    BY <1>2 DEF StatusType, Servers
  <2>2. persistRecoveryState(base, o, "Degraded") /\ "Degraded" \in Halted
    BY <1>8 DEF RollbackConfirmed, Halted
  <2> HIDE DEF o
  <2> QED
    BY <1>3, <1>5, <1>8, <2>1, <2>2 DEF RollbackConfirmed
<1>9. CASE RollbackFails
  <2> DEFINE n == Stopped(mem, "Blocked", "Recovery")
  <2>1. PatchStatus(base, n) /\ Return /\ pc \in {"rbRoute", "rbWait"}
    BY <1>9 DEF RollbackFails
  <2>2. "Blocked" \in Halted
    BY DEF Halted
  <2>3. /\ n \in StatusType /\ n.phase = "Blocked" /\ n.attempted = mem.attempted
        /\ n.started = mem.started
    BY <1>2, <1>4, <2>2, StoppedType
  <2> HIDE DEF n
  <2>4. ProviderTypeOK' /\ (sent' => status.attempted = "running")
    <3>1. dest \in Nodes
      BY <2>1 DEF Inv, ReconcileIsWorking
    <3>2. CASE pc = "rbRoute" /\ (RefuseRoute \/ AcceptRoute(dest))
      BY <3>1, <3>2
      DEF Inv, TypeOK, ProviderTypeOK, SentIsPersisted, RefuseRoute, AcceptRoute
    <3>3. CASE UNCHANGED providerVars
      BY <3>3 DEF Inv, TypeOK, ProviderTypeOK, SentIsPersisted, providerVars
    <3> QED
      BY <1>9, <3>2, <3>3 DEF RollbackFails
  <2>5. /\ base.phase = status.phase /\ base.cleanups = status.cleanups
        /\ base.started = status.started /\ n.attempted = status.attempted /\ n.started
    BY <1>1, <1>3, <2>1, <2>3, CopyFields
  <2>6. Inv' /\ status'.phase = "Blocked"
    BY <2>1, <2>2, <2>3, <2>4, <2>5, PatchPreserves
  <2> QED
    BY <2>2, <2>6 DEF GateStep, HaltStep
<1> QED
  BY <1>6, <1>7, <1>8, <1>9

\* A reconcile that ends without writing the status.
LEMMA ReturnStep ==
  ASSUME Inv, RecordsWindow, UNCHANGED agentVars,
         \/ PreRouteProbeFails \/ DefersToCooldown \/ RouteFails \/ RouteUnconfirmed
         \/ UpdateConflicts \/ Waits \/ DefersRollback \/ Abandon
  PROVE  Inv' /\ GateStep /\ HaltStep
<1>1. Return /\ UNCHANGED apiVars
  BY DEF PreRouteProbeFails, DefersToCooldown, RouteFails, RouteUnconfirmed,
         UpdateConflicts, Waits, DefersRollback, Abandon
<1>2. ProviderTypeOK' /\ (sent' => status.attempted = "running")
  <2>1. CASE UNCHANGED providerVars
    BY <2>1 DEF Inv, TypeOK, ProviderTypeOK, SentIsPersisted, providerVars
  <2>2. CASE pc = "route" /\ (RefuseRoute \/ AcceptRoute(dest))
    BY <2>2
    DEF Inv, TypeOK, ProviderTypeOK, SentIsPersisted, ReconcileIsWorking,
        RefuseRoute, AcceptRoute
  <2> QED
    BY <2>1, <2>2
    DEF PreRouteProbeFails, DefersToCooldown, RouteFails, RouteUnconfirmed,
        UpdateConflicts, Waits, DefersRollback, Abandon
<1> QED
  BY <1>1, <1>2, ReturnPreserves

-----------------------------------------------------------------------------

\* The attempt is persisted, and the request that follows it is the first of
\* its cooldown: the gate saw the timestamp that the status still has.
LEMMA AttemptStep ==
  ASSUME Inv, RecordsWindow, UNCHANGED agentVars,
         PersistsAttempt \/ PersistsRollbackAttempt
  PROVE  Inv' /\ GateStep /\ HaltStep
<1>1. pc = "decide"
  BY DEF PersistsAttempt, PersistsRollbackAttempt, MustRoute, MustRollBack,
         PostRouteProbeFails, AfterRoute, LocallyPrepared, HasHandoff, Keeps
<1>2. status \in StatusType /\ mem \in StatusType
  BY DEF Inv, TypeOK, ApiTypeOK, ControllerTypeOK
<1>3. mem = [status EXCEPT !.owners = mem.owners]
  BY <1>1 DEF Inv, CopyIsCurrent
<1>4. /\ mem.phase \notin Halted /\ mem.started /\ mem.attempted = status.attempted
      /\ mem.source = status.source /\ mem.target = status.target
      /\ mem.phase = status.phase /\ mem.started = status.started
  BY <1>1, CopyFields
<1> DEFINE a == [mem EXCEPT !.attempted = "running"]
<1>5. /\ PatchStatus(mem, a) /\ mem' = MergePatch(mem, a, status)
      /\ providerMutationGate(mem) /\ UNCHANGED <<seen, providerVars>>
  BY DEF PersistsAttempt, PersistsRollbackAttempt
<1>6. MergePatch(mem, a, status) = [status EXCEPT !.attempted = "running"]
  <2> DEFINE m == MergePatch(mem, a, status)
             r == [status EXCEPT !.attempted = "running"]
  <2>1. a \in StatusType
    BY <1>2 DEF StatusType, TimerStates
  <2>2. m \in StatusType /\ r \in StatusType
    BY <1>2, <2>1, MergeType DEF StatusType, TimerStates
  <2>3. /\ m.started = r.started /\ m.phase = r.phase /\ m.source = r.source
        /\ m.target = r.target /\ m.observed = r.observed /\ m.owners = r.owners
        /\ m.attempted = r.attempted /\ m.candidateSince = r.candidateSince
        /\ m.failures = r.failures /\ m.recoveries = r.recoveries
        /\ m.cleanups = r.cleanups /\ m.nextCleanup = r.nextCleanup
        /\ m.token = r.token /\ m.halt = r.halt
    BY <1>2, <1>4 DEF MergePatch, Merged, StatusType
  <2> HIDE DEF m, r
  <2>4. m = r
    BY <2>2, <2>3 DEF StatusType
  <2> QED
    BY <2>4 DEF m, r
<1>7. status' = [status EXCEPT !.attempted = "running"] /\ mem' = status'
  BY <1>5, <1>6 DEF PatchStatus
<1> HIDE DEF a
<1>8. /\ status' \in StatusType /\ status'.attempted = "running"
      /\ status'.phase = status.phase /\ status'.started = status.started
      /\ status'.source = status.source /\ status'.target = status.target
      /\ status'.cleanups = status.cleanups /\ status'.token = status.token
  BY <1>2, <1>7 DEF StatusType, TimerStates
<1>9. ~sent
  BY <1>4, <1>5 DEF Inv, SentIsPersisted, providerMutationGate
<1>10. /\ annotation' = annotation /\ specValid' = specValid /\ nodes' = nodes
       /\ owner' = owner /\ tasks' = tasks /\ sent' = sent /\ moved' = moved
       /\ seen' = seen /\ ip' = ip /\ agent' = agent
  BY <1>5 DEF PatchStatus, providerVars, agentVars
<1>11. CASE PersistsAttempt
  <2>1. /\ pc' = "route" /\ dest' = mem.target /\ base' = base
        /\ mem.phase = "RoutingProvider" /\ mem.target \in Nodes
    BY <1>2, <1>11 DEF PersistsAttempt, MustRoute, LocallyPrepared, HasHandoff, StatusType
  <2>2. TypeOK'
    BY <1>2, <1>7, <1>8, <1>10, <2>1, WindowType
    DEF Inv, TypeOK, ApiTypeOK, ProviderTypeOK, ControllerTypeOK, AgentTypeOK
  <2>3. CopyIsCurrent' /\ BaseIsCurrent'
    BY <1>7, <1>8, <2>1 DEF CopyIsCurrent, BaseIsCurrent, StatusType
  <2>4. ReconcileIsWorking' /\ SentIsPersisted'
    BY <1>4, <1>8, <1>9, <1>10, <2>1 DEF Inv, ReconcileIsWorking, SentIsPersisted
  <2>5. CleanupBudget' /\ RequestIsPersisted'
    BY <1>4, <1>8, <2>1 DEF Inv, CleanupBudget, RequestIsPersisted
  <2> QED
    BY <1>8, <2>2, <2>3, <2>4, <2>5 DEF Inv, GateStep, HaltStep
<1>12. CASE PersistsRollbackAttempt
  <2>1. pc' = "rbRoute" /\ dest' = mem.source /\ base' = mem /\ mem.source \in Nodes
    BY <1>2, <1>12
    DEF PersistsRollbackAttempt, MustRollBack, RollbackPossible, StatusType
  <2>2. TypeOK'
    BY <1>2, <1>7, <1>8, <1>10, <2>1, WindowType
    DEF Inv, TypeOK, ApiTypeOK, ProviderTypeOK, ControllerTypeOK, AgentTypeOK
  <2>3. CopyIsCurrent'
    BY <1>7, <1>8, <2>1 DEF CopyIsCurrent, StatusType
  <2>4. BaseIsCurrent'
    BY <1>2, <1>3, <1>7, <2>1 DEF BaseIsCurrent, StatusType
  <2>5. ReconcileIsWorking' /\ SentIsPersisted'
    BY <1>4, <1>8, <1>9, <1>10, <2>1 DEF Inv, ReconcileIsWorking, SentIsPersisted
  <2>6. CleanupBudget' /\ RequestIsPersisted'
    BY <1>4, <1>8, <2>1 DEF Inv, CleanupBudget, RequestIsPersisted
  <2> QED
    BY <1>8, <2>2, <2>3, <2>4, <2>5, <2>6 DEF Inv, GateStep, HaltStep
<1> QED
  BY <1>11, <1>12

\* The provider accepts the request.
LEMMA AcceptedStep ==
  ASSUME Inv, RecordsWindow, UNCHANGED agentVars, RouteAccepted \/ RollbackAccepted
  PROVE  Inv' /\ GateStep /\ HaltStep
<1>1. /\ AcceptRoute(dest) /\ UNCHANGED <<apiVars, mem, base, seen, dest>>
      /\ \/ pc = "route" /\ pc' = "wait"
         \/ pc = "rbRoute" /\ pc' = "rbWait"
  BY DEF RouteAccepted, RollbackAccepted
<1>2. dest \in Nodes /\ status.attempted = "running"
  BY <1>1 DEF Inv, ReconcileIsWorking, SentIsPersisted
<1>3. TypeOK'
  BY <1>1, <1>2, WindowType
  DEF Inv, TypeOK, ApiTypeOK, ProviderTypeOK, ControllerTypeOK, AgentTypeOK,
      AcceptRoute, apiVars, agentVars
<1>4. status' = status /\ mem' = mem /\ base' = base /\ dest' = dest
  BY <1>1 DEF apiVars
<1>5. CopyIsCurrent' /\ BaseIsCurrent' /\ ReconcileIsWorking' /\ SentIsPersisted'
  BY <1>1, <1>2, <1>4
  DEF Inv, CopyIsCurrent, BaseIsCurrent, ReconcileIsWorking, SentIsPersisted
<1>6. CleanupBudget' /\ RequestIsPersisted'
  BY <1>1, <1>4 DEF Inv, CleanupBudget, RequestIsPersisted
<1> QED
  BY <1>3, <1>4, <1>5, <1>6 DEF Inv, GateStep, HaltStep

\* Time passes for the stored status and its copies alike.
LEMMA TimeStep ==
  ASSUME Inv, RecordsWindow, UNCHANGED agentVars, TimePasses
  PROVE  Inv' /\ GateStep /\ HaltStep
<1>1. status \in StatusType /\ mem \in StatusType /\ base \in StatusType
  BY DEF Inv, TypeOK, ApiTypeOK, ControllerTypeOK
<1>2. /\ status' \in StatusType /\ mem' \in StatusType /\ base' \in StatusType
      /\ status'.phase = status.phase /\ status'.started = status.started
      /\ status'.source = status.source /\ status'.target = status.target
      /\ status'.cleanups = status.cleanups /\ status'.token = status.token
      /\ status.attempted # "unset" => status'.attempted # "unset"
  <2>1. CASE CooldownElapses
    BY <1>1, <2>1 DEF CooldownElapses, AgeAttempted, StatusType, TimerStates
  <2>2. CASE WindowElapses
    BY <1>1, <2>2 DEF WindowElapses, AgeCandidateSince, StatusType, TimerStates
  <2>3. CASE CleanupDelayElapses
    BY <1>1, <2>3 DEF CleanupDelayElapses, AgeNextCleanup, StatusType, TimerStates
  <2> QED
    BY <2>1, <2>2, <2>3 DEF TimePasses
<1>3. /\ annotation' = annotation /\ specValid' = specValid /\ nodes' = nodes
      /\ owner' = owner /\ tasks' = tasks /\ moved' = moved
      /\ pc' = pc /\ seen' = seen /\ dest' = dest /\ ip' = ip /\ agent' = agent
  BY DEF TimePasses, CooldownElapses, WindowElapses, CleanupDelayElapses,
         providerVars, agentVars
<1>4. SentIsPersisted' /\ sent' \in BOOLEAN
  <2>1. CASE CooldownElapses
    BY <1>3, <2>1 DEF CooldownElapses, SentIsPersisted
  <2>2. CASE WindowElapses
    <3>1. status'.attempted = status.attempted /\ sent' = sent
      BY <1>1, <2>2 DEF WindowElapses, AgeCandidateSince, StatusType, providerVars
    <3> QED
      BY <1>3, <3>1 DEF Inv, TypeOK, ProviderTypeOK, SentIsPersisted
  <2>3. CASE CleanupDelayElapses
    <3>1. status'.attempted = status.attempted /\ sent' = sent
      BY <1>1, <2>3 DEF CleanupDelayElapses, AgeNextCleanup, StatusType, providerVars
    <3> QED
      BY <1>3, <3>1 DEF Inv, TypeOK, ProviderTypeOK, SentIsPersisted
  <2> QED
    BY <2>1, <2>2, <2>3 DEF TimePasses
<1>5. TypeOK'
  BY <1>2, <1>3, <1>4, WindowType
  DEF Inv, TypeOK, ApiTypeOK, ProviderTypeOK, ControllerTypeOK, AgentTypeOK
<1>6. CopyIsCurrent'
  <2> SUFFICES ASSUME pc # "idle"
               PROVE  mem' = [status' EXCEPT !.owners = mem'.owners]
    BY <1>3 DEF CopyIsCurrent
  <2>1. mem = [status EXCEPT !.owners = mem.owners]
    BY DEF Inv, CopyIsCurrent
  <2>2. CASE CooldownElapses
    BY <1>1, <2>1, <2>2 DEF CooldownElapses, AgeAttempted, StatusType
  <2>3. CASE WindowElapses
    BY <1>1, <2>1, <2>3 DEF WindowElapses, AgeCandidateSince, StatusType
  <2>4. CASE CleanupDelayElapses
    BY <1>1, <2>1, <2>4 DEF CleanupDelayElapses, AgeNextCleanup, StatusType
  <2> QED
    BY <2>2, <2>3, <2>4 DEF TimePasses
<1>7. BaseIsCurrent'
  <2> SUFFICES ASSUME pc \in {"rbRoute", "rbWait"}
               PROVE  base' = [status' EXCEPT !.owners = base'.owners,
                                              !.attempted = base'.attempted]
    BY <1>3 DEF BaseIsCurrent
  <2>1. base = [status EXCEPT !.owners = base.owners, !.attempted = base.attempted]
    BY DEF Inv, BaseIsCurrent
  <2>2. CASE CooldownElapses
    BY <1>1, <2>1, <2>2 DEF CooldownElapses, AgeAttempted, StatusType
  <2>3. CASE WindowElapses
    BY <1>1, <2>1, <2>3 DEF WindowElapses, AgeCandidateSince, StatusType
  <2>4. CASE CleanupDelayElapses
    BY <1>1, <2>1, <2>4 DEF CleanupDelayElapses, AgeNextCleanup, StatusType
  <2> QED
    BY <2>2, <2>3, <2>4 DEF TimePasses
<1>8. ReconcileIsWorking' /\ CleanupBudget' /\ RequestIsPersisted'
  BY <1>2, <1>3 DEF Inv, ReconcileIsWorking, CleanupBudget, RequestIsPersisted
<1> QED
  BY <1>2, <1>4, <1>5, <1>6, <1>7, <1>8 DEF Inv, GateStep, HaltStep

\* A step of another actor that leaves the status and the reconcile alone.
LEMMA OtherPreserves ==
  ASSUME Inv, TypeOK', status' = status, UNCHANGED controllerVars, sent' = sent
  PROVE  Inv' /\ GateStep /\ HaltStep
<1>1. /\ pc' = pc /\ mem' = mem /\ base' = base /\ dest' = dest
  BY DEF controllerVars
<1>2. CopyIsCurrent' /\ BaseIsCurrent' /\ ReconcileIsWorking' /\ SentIsPersisted'
  BY <1>1 DEF Inv, CopyIsCurrent, BaseIsCurrent, ReconcileIsWorking, SentIsPersisted
<1>3. CleanupBudget' /\ RequestIsPersisted'
  BY <1>1 DEF Inv, CleanupBudget, RequestIsPersisted
<1> QED
  BY <1>2, <1>3 DEF Inv, GateStep, HaltStep

\* A node agent's step.  Its report changes the list of owners only, which is
\* the one field in which the copy may differ from the stored status.
LEMMA AgentsPreserve ==
  ASSUME Inv, RecordsWindow, AgentsStep
  PROVE  Inv' /\ GateStep /\ HaltStep
<1> PICK k \in Nodes : AgentStep(k) \/ AgentFails(k)
  BY DEF AgentsStep
<1>1. /\ UNCHANGED <<providerVars, controllerVars>> /\ steady' \in BOOLEAN
      /\ agent[k] \in AgentState /\ ip \subseteq Nodes /\ status \in StatusType
  BY WindowType DEF AgentsStep, Inv, TypeOK, AgentTypeOK, ApiTypeOK
<1>2. agent[k].owners \subseteq Nodes
  BY <1>1 DEF AgentState
<1>3. AgentTypeOK'
  <2>1. AtRest \in AgentState
    BY DEF AtRest, AgentState
  <2>2. ASSUME NEW r \in AgentState, agent' = [agent EXCEPT ![k] = r]
        PROVE  agent' \in [Nodes -> AgentState]
    BY <2>2 DEF Inv, TypeOK, AgentTypeOK
  <2>3. CASE AgentReads(k)
    <3>1. [pc |-> "apply", owns |-> shouldOwn(k), owners |-> status.owners] \in AgentState
      BY <1>1 DEF shouldOwn, AgentState, StatusType
    <3> QED
      BY <1>1, <2>2, <2>3, <3>1 DEF AgentReads, AgentTypeOK
  <2>4. [agent[k] EXCEPT !.pc = "report"] \in AgentState
    BY <1>1 DEF AgentState
  <2>5. ASSUME NEW o, ThenReports(k, o)
        PROVE  agent' \in [Nodes -> AgentState]
    BY <2>1, <2>4, <2>5 DEF ThenReports, Inv, TypeOK, AgentTypeOK
  <2>6. CASE ensureIPAssigned(k)
    BY <1>1, <2>5, <2>6 DEF ensureIPAssigned, AgentTypeOK
  <2>7. CASE ensureIPRemoved(k)
    BY <1>1, <2>5, <2>7 DEF ensureIPRemoved, AgentTypeOK
  <2>8. CASE AgentReports(k) \/ AgentFails(k)
    BY <1>1, <2>1, <2>2, <2>8 DEF AgentReports, AgentFails, AgentTypeOK
  <2> QED
    BY <2>3, <2>6, <2>7, <2>8 DEF AgentStep
<1>4. CASE AgentReports(k)
  <2> DEFINE o == Merged(agent[k].owners, ReportedOwners(k), status.owners)
  <2>1. o \subseteq Nodes
    BY <1>1, <1>2 DEF Merged, ReportedOwners, StatusType
  <2>2. status' = [status EXCEPT !.owners = o]
    <3>1. MergePatch([status EXCEPT !.owners = agent[k].owners],
                     [status EXCEPT !.owners = ReportedOwners(k)], status)
            = [status EXCEPT !.owners = o]
      BY <1>1 DEF MergePatch, Merged, StatusType
    <3> QED
      BY <1>4, <3>1 DEF AgentReports, PatchStatus
  <2>3. UNCHANGED <<annotation, specValid, nodes>>
    BY <1>4 DEF AgentReports, PatchStatus
  <2> HIDE DEF o
  <2>4. /\ status' \in StatusType /\ status'.attempted = status.attempted
        /\ status'.phase = status.phase /\ status'.started = status.started
        /\ status'.source = status.source /\ status'.target = status.target
        /\ status'.cleanups = status.cleanups
    BY <1>1, <2>1, <2>2 DEF StatusType
  <2>5. TypeOK'
    BY <1>1, <1>3, <2>3, <2>4
    DEF Inv, TypeOK, ApiTypeOK, ProviderTypeOK, ControllerTypeOK, providerVars,
        controllerVars
  <2>6. /\ pc' = pc /\ mem' = mem /\ base' = base /\ dest' = dest /\ sent' = sent
    BY <1>1 DEF controllerVars, providerVars
  <2>7. CopyIsCurrent' /\ BaseIsCurrent'
    BY <1>1, <2>2, <2>6 DEF Inv, CopyIsCurrent, BaseIsCurrent, StatusType
  <2>8. ReconcileIsWorking' /\ SentIsPersisted' /\ CleanupBudget' /\ RequestIsPersisted'
    BY <2>4, <2>6
    DEF Inv, ReconcileIsWorking, SentIsPersisted, CleanupBudget, RequestIsPersisted
  <2> QED
    BY <2>4, <2>5, <2>7, <2>8 DEF Inv, GateStep, HaltStep
<1>5. CASE ~AgentReports(k)
  <2>1. UNCHANGED apiVars
    BY <1>5 DEF AgentStep, AgentReads, ensureIPAssigned, ensureIPRemoved, AgentFails
  <2>2. TypeOK' /\ status' = status /\ sent' = sent
    BY <1>1, <1>3, <2>1
    DEF Inv, TypeOK, ApiTypeOK, ProviderTypeOK, ControllerTypeOK, providerVars,
        controllerVars, apiVars
  <2> QED
    BY <1>1, <2>2, OtherPreserves
<1> QED
  BY <1>4, <1>5

\* Steps of the provider and of the environment.
LEMMA OthersPreserve ==
  ASSUME Inv, RecordsWindow, ProviderStep \/ EnvironmentStep
  PROVE  Inv' /\ GateStep /\ HaltStep
<1>1. steady' \in BOOLEAN
  BY WindowType
<1>2. CASE ProviderStep
  <2>1. /\ UNCHANGED <<apiVars, controllerVars, agentVars>> /\ sent' = sent
        /\ ProviderTypeOK'
    BY <1>2
    DEF ProviderStep, TaskFinishes, TaskFails, MoveOutOfBand, Inv, TypeOK,
        ProviderTypeOK, Servers
  <2>2. TypeOK' /\ status' = status
    BY <1>1, <2>1
    DEF Inv, TypeOK, ApiTypeOK, ControllerTypeOK, AgentTypeOK, apiVars, controllerVars,
        agentVars
  <2> QED
    BY <2>1, <2>2, OtherPreserves
<1>3. CASE EnvironmentStep
  <2>1. /\ UNCHANGED <<providerVars, controllerVars, agentVars>> /\ status' = status
        /\ ApiTypeOK'
    BY <1>3
    DEF EnvironmentStep, NodeChanges, RequestRetry, EditSpec, Inv, TypeOK, ApiTypeOK
  <2>2. TypeOK' /\ sent' = sent
    BY <1>1, <2>1
    DEF Inv, TypeOK, ProviderTypeOK, ControllerTypeOK, AgentTypeOK, providerVars,
        controllerVars, agentVars
  <2> QED
    BY <2>1, <2>2, OtherPreserves
<1> QED
  BY <1>2, <1>3

-----------------------------------------------------------------------------

\* Every step of the system preserves the invariant, follows the table of
\* phases and leaves a halted transition halted.
LEMMA NextPreserves ==
  ASSUME Inv, [Next]_vars
  PROVE  Inv' /\ GateStep /\ HaltStep
<1>1. CASE UNCHANGED vars
  <2>1. TypeOK'
    BY <1>1
    DEF Inv, TypeOK, ApiTypeOK, ProviderTypeOK, ControllerTypeOK, AgentTypeOK,
        vars, apiVars, providerVars, controllerVars, agentVars
  <2> QED
    BY <1>1, <2>1, OtherPreserves DEF vars, apiVars, providerVars
<1>2. CASE AgentsStep /\ RecordsWindow
  BY <1>2, AgentsPreserve
<1>3. CASE (ProviderStep \/ EnvironmentStep) /\ RecordsWindow
  BY <1>3, OthersPreserve
<1>4. CASE ControllerStep /\ RecordsWindow
  <2> USE <1>4
  <2>1. UNCHANGED agentVars
    BY DEF ControllerStep
  <2>2. CASE TimePasses
    BY <2>1, <2>2, TimeStep
  <2>3. CASE ReconcileFails
    BY <2>1, <2>3, ReturnStep DEF ReconcileFails
  <2>4. CASE Recovers
    BY <2>1, <2>4, RecoveryStep, ReturnStep, AttemptStep, AcceptedStep DEF Recovers
  <2>5. CASE Reconciles
    <3>1. CASE \/ Starts \/ persistInvalidSpec \/ BlocksInvalidStatus
               \/ ManualRetry \/ BlocksOwnershipChange
      BY <2>1, <3>1, StatusStep
    <3>2. CASE StaysHalted
      <4>1. UNCHANGED <<apiVars, providerVars, controllerVars>>
        BY <3>2 DEF StaysHalted
      <4>2. TypeOK' /\ status' = status /\ sent' = sent
        BY <2>1, <4>1, WindowType
        DEF Inv, TypeOK, ApiTypeOK, ProviderTypeOK, ControllerTypeOK, AgentTypeOK,
            apiVars, providerVars, controllerVars, agentVars
      <4> QED
        BY <4>1, <4>2, OtherPreserves
    <3>3. CASE Observes
      BY <2>1, <3>3, ObserveStep
    <3>4. CASE \/ CandidateRecovers
               \/ \E b \in Nodes : \/ Reselects(b) \/ CountsFailure(b)
                                    \/ OpensWindow(b) \/ SelectsTarget(b)
      BY <2>1, <3>4, SelectionStep
    <3>5. CASE \/ TargetPrepares \/ StartsRouting \/ ProviderVerified
               \/ TrafficVerified \/ Commits \/ CleanupPending \/ Succeeds
               \/ BlocksUnexpectedPhase
      BY <2>1, <3>5, HandoffStep
    <3>6. CASE RouteConfirmed \/ AlreadyRouted
      BY <2>1, <3>6, VerifyStep
    <3>7. CASE DefersToCooldown \/ RouteUnconfirmed \/ UpdateConflicts \/ Waits
      BY <2>1, <3>7, ReturnStep
    <3>8. CASE PersistsAttempt
      BY <2>1, <3>8, AttemptStep
    <3>9. CASE RouteAccepted
      BY <2>1, <3>9, AcceptedStep
    <3> QED
      BY <2>5, <3>1, <3>2, <3>3, <3>4, <3>5, <3>6, <3>7, <3>8, <3>9 DEF Reconciles
  <2> QED
    BY <2>2, <2>3, <2>4, <2>5 DEF ControllerStep
<1> QED
  BY <1>1, <1>2, <1>3, <1>4 DEF Next

\* Inv is an invariant of the system: the controller's copy of the status is
\* never stale in a field that only the controller writes, whoever else moves.
THEOREM Invariant == Spec => []Inv
<1>1. Init => Inv
  BY InitInv
<1>2. Inv /\ [Next]_vars => Inv'
  BY NextPreserves
<1> QED
  BY <1>1, <1>2, PTL DEF Spec

\* Every variable keeps its type; the counters of the status stay within
\* their thresholds and the cleanup attempts within their budget.
THEOREM TypeCorrect == Spec => []TypeOK
<1>1. Inv => TypeOK
  BY DEF Inv
<1> QED
  BY <1>1, Invariant, PTL

\* At most one mutation request per cooldown reaches the provider, routing
\* and rollback together, whatever fails or restarts.
THEOREM CooldownHolds == Spec => []CooldownRespected
<1>1. Inv => CooldownRespected
  BY DEF Inv, SentIsPersisted, CooldownRespected
<1> QED
  BY <1>1, Invariant, PTL

\* While a provider request is in flight the stored status names it.
THEOREM RequestHolds == Spec => []RequestIsPersisted
<1>1. Inv => RequestIsPersisted
  BY DEF Inv
<1> QED
  BY <1>1, Invariant, PTL

\* Every change to a working phase is in legalPhaseTransitions.
THEOREM GatesHold == Spec => GatesNotSkipped
<1>1. Inv /\ [Next]_vars =>
        [status'.phase \notin Halted \cup {status.phase} =>
           status.phase = None \/ CanTransition(status.phase, status'.phase)]_vars
  BY NextPreserves DEF GateStep
<1> QED
  BY <1>1, Invariant, PTL DEF Spec, GatesNotSkipped

\* A halted transition is resumed only by a token it has not consumed.
THEOREM HaltHolds == Spec => HaltIsSticky
<1>1. Inv /\ [Next]_vars =>
        [status.phase \in Halted /\ status'.phase \notin Halted =>
           /\ status'.token = annotation
           /\ status'.token # status.token]_vars
  BY NextPreserves DEF HaltStep
<1> QED
  BY <1>1, Invariant, PTL DEF Spec, HaltIsSticky

-----------------------------------------------------------------------------
(* The stabilization window.  Only a selection moves the target, and it     *)
(* closes the window it has waited for.                                     *)

Quiet ==
  status'.target = status.target /\ status'.candidateSince = status.candidateSince

WindowStep ==
  /\ Moves => status.candidateSince = "elapsed" /\ status'.candidateSince = "unset"
  /\ status'.candidateSince = "elapsed" => status.candidateSince \in {"running", "elapsed"}

\* A patch that leaves the target and the candidate timer alone moves neither.
LEMMA QuietPatch ==
  ASSUME NEW b, NEW n, PatchStatus(b, n),
         n.target = b.target, n.candidateSince = b.candidateSince
  PROVE  Quiet
BY DEF PatchStatus, MergePatch, Merged, Quiet

\* The copy has the stored target and the stored timer, and so has the base of
\* a rollback.
LEMMA CopyOfWindow ==
  ASSUME Inv, pc # "idle"
  PROVE  /\ mem \in StatusType /\ base \in StatusType /\ status \in StatusType
         /\ mem.target = status.target /\ mem.candidateSince = status.candidateSince
         /\ pc \in {"rbRoute", "rbWait"} =>
              base.target = mem.target /\ base.candidateSince = mem.candidateSince
<1>1. status \in StatusType /\ mem \in StatusType /\ base \in StatusType
  BY DEF Inv, TypeOK, ApiTypeOK, ControllerTypeOK
<1>2. mem = [status EXCEPT !.owners = mem.owners]
  BY DEF Inv, CopyIsCurrent
<1>3. pc \in {"rbRoute", "rbWait"} =>
        base = [status EXCEPT !.owners = base.owners, !.attempted = base.attempted]
  BY DEF Inv, BaseIsCurrent
<1> QED
  BY <1>1, <1>2, <1>3 DEF StatusType

\* A change of phase or a halt leaves target and timer alone.
LEMMA PhaseIsQuiet ==
  ASSUME NEW s \in StatusType
  PROVE  /\ \A to : /\ AdvanceTransition(s, to).target = s.target
                    /\ AdvanceTransition(s, to).candidateSince = s.candidateSince
         /\ \A to, r : /\ Stopped(s, to, r).target = s.target
                       /\ Stopped(s, to, r).candidateSince = s.candidateSince
BY DEF AdvanceTransition, Stopped, StatusType

\* Decisions on the status alone.
LEMMA StatusKeepsWindow ==
  ASSUME Inv, \/ Starts \/ persistInvalidSpec \/ BlocksInvalidStatus
              \/ ManualRetry \/ BlocksOwnershipChange \/ Observes
  PROVE  WindowStep
<1>1. status \in StatusType
  BY DEF Inv, TypeOK, ApiTypeOK
<1>2. CASE Starts
  <2>1. PatchStatus(status, StartTransition(status))
    BY <1>2 DEF Starts, PatchAndReturn
  <2>2. /\ StartTransition(status).target = status.target
        /\ StartTransition(status).candidateSince = status.candidateSince
    BY <1>1 DEF StartTransition, StatusType
  <2> QED
    BY <2>1, <2>2, QuietPatch DEF Quiet, WindowStep, Moves
<1>3. CASE persistInvalidSpec \/ BlocksInvalidStatus \/ BlocksOwnershipChange
  <2>1. PICK r : PatchStatus(status, Stopped(status, "Blocked", r))
    BY <1>3 DEF persistInvalidSpec, BlocksInvalidStatus, BlocksOwnershipChange, PatchAndReturn
  <2> QED
    BY <1>1, <2>1, PhaseIsQuiet, QuietPatch DEF Quiet, WindowStep, Moves
<1>4. CASE ManualRetry
  <2> DEFINE n == [AdvanceTransition(status, "Selecting") EXCEPT
                     !.token = annotation, !.candidateSince = "unset"]
  <2>1. PatchStatus(status, n)
    BY <1>4 DEF ManualRetry, PatchAndReturn
  <2>2. n.target = status.target /\ n.candidateSince = "unset"
    BY <1>1 DEF AdvanceTransition, StatusType
  <2> HIDE DEF n
  <2>3. status'.target = status.target /\ status'.candidateSince = "unset"
    BY <2>1, <2>2 DEF PatchStatus, MergePatch, Merged
  <2> QED
    BY <2>3 DEF WindowStep, Moves
<1>5. CASE Observes
  <2> DEFINE n == Adopted(status)
  <2>1. /\ n.candidateSince = status.candidateSince
        /\ status.target # None => n.target = status.target
    BY <1>1 DEF Adopted, StatusType
  <2>2. status' = status \/ PatchStatus(status, n)
    BY <1>5 DEF Observes, apiVars
  <2> HIDE DEF n
  <2>3. /\ status'.candidateSince = status.candidateSince
        /\ status.target # None => status'.target = status.target
    BY <2>1, <2>2 DEF PatchStatus, MergePatch, Merged
  <2> QED
    BY <2>3 DEF WindowStep, Moves
<1> QED
  BY <1>2, <1>3, <1>4, <1>5

\* Counting, opening the window, and the selection.
LEMMA SelectionKeepsWindow ==
  ASSUME Inv, NEW t,
         \/ CandidateRecovers
         \/ Reselects(t) \/ CountsFailure(t) \/ OpensWindow(t) \/ SelectsTarget(t)
  PROVE  WindowStep
<1>1. pc # "idle"
  BY DEF CandidateRecovers, Reselects, CountsFailure, OpensWindow, SelectsTarget,
         PastFailureThreshold, Prefers
<1>2. /\ mem \in StatusType
      /\ mem.target = status.target /\ mem.candidateSince = status.candidateSince
  BY <1>1, CopyOfWindow
<1>3. ASSUME NEW n, PatchStatus(mem, n), n.target = mem.target,
             n.candidateSince \in {mem.candidateSince, "unset", "running"}
      PROVE  WindowStep
  BY <1>2, <1>3 DEF PatchStatus, MergePatch, Merged, WindowStep, Moves
<1>4. CASE CandidateRecovers
  <2> DEFINE n == IF mem.recoveries + 1 < RecoveryThreshold
                    THEN [mem EXCEPT !.recoveries = @ + 1]
                    ELSE [AdvanceTransition(mem, "Selecting") EXCEPT
                            !.candidateSince = "unset", !.failures = 0, !.recoveries = 0]
  <2>1. PatchStatus(mem, n)
    BY <1>4 DEF CandidateRecovers, PatchAndReturn
  <2>2. n.target = mem.target /\ n.candidateSince \in {mem.candidateSince, "unset"}
    BY <1>2 DEF AdvanceTransition, StatusType
  <2> QED
    BY <1>3, <2>1, <2>2
<1>5. CASE Reselects(t)
  <2> DEFINE n == [AdvanceTransition(mem, "Selecting") EXCEPT !.candidateSince = "unset"]
  <2>1. PatchStatus(mem, n)
    BY <1>5 DEF Reselects, PatchAndReturn
  <2>2. n.target = mem.target /\ n.candidateSince = "unset"
    BY <1>2 DEF AdvanceTransition, StatusType
  <2> QED
    BY <1>3, <2>1, <2>2
<1>6. CASE CountsFailure(t)
  <2> DEFINE n == [mem EXCEPT !.failures = @ + 1]
  <2>1. PatchStatus(mem, n)
    BY <1>6 DEF CountsFailure, PatchAndReturn
  <2>2. n.target = mem.target /\ n.candidateSince = mem.candidateSince
    BY <1>2 DEF StatusType
  <2> QED
    BY <1>3, <2>1, <2>2
<1>7. CASE OpensWindow(t)
  <2> DEFINE opened == [mem EXCEPT !.candidateSince = "running"]
             n == IF mem.phase = "Selecting"
                    THEN AdvanceTransition(opened, "Stabilizing") ELSE opened
  <2>1. PatchStatus(mem, n)
    BY <1>7 DEF OpensWindow, PatchAndReturn
  <2>2. n.target = mem.target /\ n.candidateSince = "running"
    BY <1>2 DEF AdvanceTransition, StatusType
  <2> QED
    BY <1>3, <2>1, <2>2
<1>8. CASE SelectsTarget(t)
  <2> DEFINE b == [mem EXCEPT !.failures = @ + 1]
             selected == [mem EXCEPT !.source = mem.target, !.target = t, !.owners = {},
                                     !.cleanups = 0, !.nextCleanup = "unset",
                                     !.candidateSince = "unset", !.failures = 0,
                                     !.recoveries = 0]
             n == IF mem.phase = "Stabilizing"
                    THEN AdvanceTransition(selected, "PreparingTarget") ELSE selected
  <2>1. PatchStatus(b, n) /\ mem.candidateSince = "elapsed"
    BY <1>8 DEF SelectsTarget, PatchAndReturn, candidateReadyForHandoff
  <2>2. b.candidateSince = "elapsed" /\ n.candidateSince = "unset"
    BY <1>2, <2>1 DEF AdvanceTransition, StatusType
  <2> HIDE DEF b, n
  <2>3. status'.candidateSince = "unset"
    BY <2>1, <2>2 DEF PatchStatus, MergePatch, Merged
  <2> QED
    BY <1>2, <2>1, <2>3 DEF WindowStep
<1> QED
  BY <1>4, <1>5, <1>6, <1>7, <1>8

\* The rest of a handoff and its recovery only move the phase and write other
\* fields.
LEMMA HandoffKeepsWindow ==
  ASSUME Inv,
         \/ TargetPrepares \/ StartsRouting \/ ProviderVerified \/ TrafficVerified
         \/ Commits \/ CleanupPending \/ Succeeds \/ BlocksUnexpectedPhase
         \/ PersistsAttempt \/ RouteConfirmed \/ AlreadyRouted \/ Recovers
         \/ RouteAccepted
  PROVE  Quiet
<1>1. pc # "idle"
  BY DEF TargetPrepares, StartsRouting, ProviderVerified, TrafficVerified, Commits,
         CleanupPending, CleanupDue, Succeeds, BlocksUnexpectedPhase, PersistsAttempt,
         MustRoute, RouteConfirmed, AlreadyRouted, RouteAccepted, AfterRoute,
         LocallyPrepared, HasHandoff, Keeps, Recovers, HoldsDualOwnership,
         RequiresManualIntervention, RollbackUnavailable, RollbackAlreadyConverged,
         DefersRollback, PersistsRollbackAttempt, MustRollBack, PostRouteProbeFails,
         RollbackAccepted, RollbackFails, RollbackConfirmed
<1>2. /\ mem \in StatusType /\ base \in StatusType
      /\ mem.target = status.target /\ mem.candidateSince = status.candidateSince
      /\ pc \in {"rbRoute", "rbWait"} =>
           base.target = mem.target /\ base.candidateSince = mem.candidateSince
  BY <1>1, CopyOfWindow
<1> DEFINE Same(n) == n.target = mem.target /\ n.candidateSince = mem.candidateSince
<1>3. ASSUME NEW b, NEW n, PatchStatus(b, n), Same(b), Same(n) PROVE Quiet
  BY <1>3, QuietPatch
<1>4. /\ \A to : Same(AdvanceTransition(mem, to))
      /\ \A to, r : Same(Stopped(mem, to, r))
  BY <1>2, PhaseIsQuiet
<1>5. CASE TargetPrepares \/ StartsRouting \/ ProviderVerified \/ TrafficVerified \/ Succeeds
  <2>1. PICK to : PatchStatus(mem, AdvanceTransition(mem, to))
    BY <1>5 DEF TargetPrepares, StartsRouting, ProviderVerified, TrafficVerified, Succeeds,
                AdvancesTo, PatchAndReturn
  <2> QED
    BY <1>3, <1>4, <2>1
<1>6. CASE Commits
  <2> DEFINE c == [mem EXCEPT !.source = mem.target]
  <2>1. PatchStatus(mem, AdvanceTransition(c, "CleaningStaleOwners"))
    BY <1>6 DEF Commits, PatchAndReturn
  <2>2. Same(AdvanceTransition(c, "CleaningStaleOwners"))
    BY <1>2 DEF AdvanceTransition, StatusType
  <2> QED
    BY <1>3, <2>1, <2>2
<1>7. CASE CleanupPending
  <2> DEFINE counted == [mem EXCEPT !.cleanups = @ + 1]
             n == IF counted.cleanups >= CleanupMaxAttempts
                    THEN Stopped(counted, "Degraded", "CleanupTimeout")
                    ELSE [counted EXCEPT !.nextCleanup = "running"]
  <2>1. PatchStatus(mem, n)
    BY <1>7 DEF CleanupPending, PatchAndReturn
  <2>2. Same(n)
    BY <1>2 DEF Stopped, StatusType
  <2> QED
    BY <1>3, <2>1, <2>2
<1>8. CASE \/ BlocksUnexpectedPhase \/ HoldsDualOwnership \/ RequiresManualIntervention
           \/ RollbackUnavailable
  <2>1. PICK to, r : PatchStatus(mem, Stopped(mem, to, r))
    BY <1>8 DEF BlocksUnexpectedPhase, HoldsDualOwnership, RequiresManualIntervention,
                RollbackUnavailable, persistRecoveryState, PatchAndReturn
  <2> QED
    BY <1>3, <1>4, <2>1
<1>9. CASE PersistsAttempt \/ PersistsRollbackAttempt
  <2>1. PatchStatus(mem, [mem EXCEPT !.attempted = "running"])
    BY <1>9 DEF PersistsAttempt, PersistsRollbackAttempt
  <2>2. Same([mem EXCEPT !.attempted = "running"])
    BY <1>2 DEF StatusType
  <2> QED
    BY <1>3, <2>1, <2>2
<1>10. CASE RouteConfirmed \/ AlreadyRouted
  <2>1. \/ status' = AdvanceTransition([mem EXCEPT !.observed = dest], "VerifyingProvider")
        \/ status' = AdvanceTransition(mem, "VerifyingProvider")
    BY <1>10 DEF RouteConfirmed, AlreadyRouted, UpdateStatus
  <2> QED
    <3>1. /\ status'.target = mem.target
          /\ status'.candidateSince = mem.candidateSince
      BY <1>2, <2>1 DEF AdvanceTransition, StatusType
    <3> QED
      BY <1>2, <3>1 DEF Quiet
<1>11. CASE RollbackAlreadyConverged
  <2> DEFINE n == [mem EXCEPT !.observed = owner]
  <2>1. PatchStatus(mem, Stopped(n, "Degraded", "Recovery"))
    BY <1>11 DEF RollbackAlreadyConverged, persistRecoveryState, PatchAndReturn
  <2>2. Same(Stopped(n, "Degraded", "Recovery"))
    BY <1>2 DEF Stopped, StatusType
  <2> QED
    BY <1>3, <2>1, <2>2
<1>12. CASE RollbackFails
  <2>1. PatchStatus(base, Stopped(mem, "Blocked", "Recovery")) /\ Same(base)
    BY <1>2, <1>12 DEF RollbackFails
  <2> QED
    BY <1>3, <1>4, <2>1
<1>13. CASE RollbackConfirmed
  <2> DEFINE n == [mem EXCEPT !.observed = dest]
  <2>1. PatchStatus(base, Stopped(n, "Degraded", "Recovery")) /\ Same(base)
    BY <1>2, <1>13 DEF RollbackConfirmed, persistRecoveryState, PatchAndReturn
  <2>2. Same(Stopped(n, "Degraded", "Recovery"))
    BY <1>2 DEF Stopped, StatusType
  <2> QED
    BY <1>3, <2>1, <2>2
<1>14. CASE RouteAccepted \/ DefersRollback \/ RollbackAccepted
  BY <1>14 DEF RouteAccepted, DefersRollback, RollbackAccepted, apiVars, Quiet
<1> QED
  BY <1>5, <1>6, <1>7, <1>8, <1>9, <1>10, <1>11, <1>12, <1>13, <1>14 DEF Recovers

\* Every step of the system.
LEMMA NextKeepsWindow ==
  ASSUME Inv, [Next]_vars
  PROVE  WindowStep
<1>1. Quiet => WindowStep
  BY DEF Quiet, WindowStep, Moves
<1>2. CASE UNCHANGED apiVars
  BY <1>1, <1>2 DEF apiVars, Quiet
<1>3. CASE ProviderStep \/ EnvironmentStep
  BY <1>1, <1>3 DEF ProviderStep, EnvironmentStep, NodeChanges, RequestRetry, EditSpec,
                    apiVars, Quiet
<1>4. CASE AgentsStep
  <2> PICK k \in Nodes : AgentStep(k) \/ AgentFails(k)
    BY <1>4 DEF AgentsStep
  <2>1. CASE AgentReports(k)
    <3>1. status \in StatusType
      BY DEF Inv, TypeOK, ApiTypeOK
    <3>2. PatchStatus([status EXCEPT !.owners = agent[k].owners],
                      [status EXCEPT !.owners = ReportedOwners(k)])
      BY <2>1 DEF AgentReports
    <3> QED
      BY <1>1, <3>1, <3>2, QuietPatch DEF StatusType
  <2>2. CASE ~AgentReports(k)
    BY <1>2, <2>2 DEF AgentStep, AgentReads, ensureIPAssigned, ensureIPRemoved, AgentFails
  <2> QED
    BY <2>1, <2>2
<1>5. CASE TimePasses
  <2>1. status \in StatusType
    BY DEF Inv, TypeOK, ApiTypeOK
  <2> QED
    BY <1>5, <2>1 DEF TimePasses, CooldownElapses, WindowElapses, CleanupDelayElapses,
                      AgeAttempted, AgeCandidateSince, AgeNextCleanup, StatusType,
                      WindowStep, Moves
<1>6. CASE ReconcileFails
  BY <1>2, <1>6 DEF ReconcileFails, PreRouteProbeFails, RouteFails, Abandon
<1>7. CASE Recovers
  BY <1>1, <1>7, HandoffKeepsWindow
<1>8. CASE Reconciles
  <2>1. CASE \/ StaysHalted \/ DefersToCooldown \/ RouteUnconfirmed \/ UpdateConflicts \/ Waits
    BY <1>2, <2>1 DEF StaysHalted, DefersToCooldown, RouteUnconfirmed, UpdateConflicts, Waits
  <2>2. CASE \/ Starts \/ persistInvalidSpec \/ BlocksInvalidStatus \/ ManualRetry
             \/ BlocksOwnershipChange \/ Observes
    BY <2>2, StatusKeepsWindow
  <2>3. CASE \/ CandidateRecovers
             \/ \E b \in Nodes : \/ Reselects(b) \/ CountsFailure(b)
                                  \/ OpensWindow(b) \/ SelectsTarget(b)
    BY <2>3, SelectionKeepsWindow
  <2>4. CASE \/ TargetPrepares \/ StartsRouting \/ ProviderVerified \/ TrafficVerified
             \/ Commits \/ CleanupPending \/ Succeeds \/ BlocksUnexpectedPhase
             \/ PersistsAttempt \/ RouteConfirmed \/ AlreadyRouted \/ RouteAccepted
    BY <1>1, <2>4, HandoffKeepsWindow
  <2> QED
    BY <1>8, <2>1, <2>2, <2>3, <2>4 DEF Reconciles
<1>9. CASE UNCHANGED vars
  BY <1>2, <1>9 DEF vars
<1> QED
  BY <1>3, <1>4, <1>5, <1>6, <1>7, <1>8, <1>9 DEF Next, ControllerStep

\* A window that has run out has run out since the last move.
THEOREM WindowIsAlwaysCounted == Spec => []WindowIsCounted
<1>1. Init => WindowIsCounted
  BY DEF Init, ApiInit, EmptyStatus, WindowIsCounted
<1>2. ASSUME Inv, WindowIsCounted, [Next]_vars
      PROVE  WindowIsCounted'
  <2>1. WindowStep
    BY <1>2, NextKeepsWindow
  <2>2. CASE UNCHANGED vars
    BY <1>2, <2>2 DEF vars, apiVars, WindowIsCounted
  <2>3. CASE RecordsWindow
    BY <1>2, <2>1, <2>3 DEF RecordsWindow, WindowStep, WindowIsCounted
  <2> QED
    BY <1>2, <2>2, <2>3 DEF Next
<1>3. Inv /\ WindowIsCounted /\ [Next]_vars => WindowIsCounted'
  BY <1>2
<1> QED
  BY <1>1, <1>3, Invariant, PTL DEF Spec

\* Hysteresis: between two changes of target a whole stabilization window has
\* passed, for every threshold, every behaviour of the nodes and every failure.
THEOREM MovesAreSpaced == Spec => TargetChangesAreSpaced
<1>1. Inv /\ WindowIsCounted /\ [Next]_vars => [Moves => steady]_vars
  BY NextKeepsWindow DEF WindowStep, WindowIsCounted
<1> QED
  BY <1>1, Invariant, WindowIsAlwaysCounted, PTL DEF Spec, TargetChangesAreSpaced
=============================================================================
