---------------------------- MODULE TwoNodesProofs ----------------------------
(***************************************************************************)
(* The operator implements Handoff on two nodes: a proof for all thresholds *)
(* and node states, every policy but the rollback, and whatever crashes or  *)
(* fails.  The events of FoipRouteProofs stand for the steps of the         *)
(* controller.                                                             *)
(***************************************************************************)
EXTENDS TwoNodes, FoipRouteProofs

USE NodesAssumption

\* The initial state: nobody holds the address and nothing is listed.
LEMMA InitPair ==
  ASSUME Init
  PROVE  TwoNodesInv
<1> USE DEF Init, ApiInit, ProviderInit, ControllerInit, AgentInit, EmptyStatus, AtRest
<1>1. RestIsClean /\ LeaversAreUnrouted /\ RequestsAreHeld /\ ReportsAreHeld
  BY DEF RestIsClean, LeaversAreUnrouted, RequestsAreHeld, ReportsAreHeld, Leaving
<1>2. ListsAreSound
  BY DEF ListsAreSound, ListsAreTrue, BringsNotBack, ReportsNews
<1>3. FirstTargetAlone /\ SourceHasTarget /\ CommitIsSettled /\ TasksAreAwaited
  BY DEF FirstTargetAlone, SourceHasTarget, CommitIsSettled, Committed, TasksAreAwaited
<1>4. OwnerHolds /\ CleanupListsAreSound
  BY PhaseAssumption DEF OwnerHolds, CleanupListsAreSound, Phases
<1> QED
  BY <1>1, <1>2, <1>3, <1>4 DEF TwoNodesInv

-----------------------------------------------------------------------------
(* The controller.                                                         *)

\* What is true of the agents, the interfaces and the requests stays true
\* while only the controller moves, until it sets out to route.
LEMMA AgentsAreLeft ==
  ASSUME TwoNodesInv, UNCHANGED agentVars, SameRoute,
         pc' = "route" => pc = "route" /\ dest' = dest
  PROVE  (RestIsClean /\ LeaversAreUnrouted /\ RequestsAreHeld /\ ReportsAreHeld)'
BY DEF TwoNodesInv, agentVars, SameRoute, RestIsClean, LeaversAreUnrouted,
       RequestsAreHeld, ReportsAreHeld, Leaving

\* So is what is true of the lists, when no list is written.
LEMMA ListsAreLeft ==
  ASSUME ListsAreSound, UNCHANGED agentVars, status'.owners = status.owners,
         pc' = "decide" =>
           \/ mem'.owners = status.owners
           \/ pc = "decide" /\ mem'.owners = mem.owners
  PROVE  ListsAreSound'
BY DEF agentVars, ListsAreSound, ListsAreTrue, BringsNotBack, ReportsNews, Doubtful, Leaving

\* So is what is true of the first target, when the assignment stays.
LEMMA AssignmentIsLeft ==
  ASSUME TwoNodesInv, UNCHANGED agentVars, SameAssignment
  PROVE  /\ FirstTargetAlone' /\ SourceHasTarget'
         /\ Committed' <=> Committed
BY DEF TwoNodesInv, agentVars, SameAssignment, FirstTargetAlone, SourceHasTarget, Committed

\* No token exists, and so nobody has asked for a retry.
LEMMA NobodyAsks ==
  ASSUME QuietPair, Inv
  PROVE  annotation = None
BY DEF QuietPair, Inv, TypeOK, ApiTypeOK

\* A working transition is on its way.
LEMMA WorkingIsSound ==
  ASSUME TwoNodesInv,
         status.phase \in {"PreparingTarget", "TargetPrepared", "RoutingProvider",
                           "VerifyingProvider", "VerifyingTraffic", "Committing"}
  PROVE  ListsAreSound /\ ~Committed
<1>1. ~Committed
  BY DEF TwoNodesInv, CommitIsSettled, Halted
<1> QED
  BY <1>1 DEF TwoNodesInv, OnItsWay, Halted

\* A step of the controller that leaves assignment, route and lists alone.
LEMMA StandsKeepsPair ==
  ASSUME TwoNodesInv, Stands
  PROVE  TwoNodesInv'
<1> USE DEF Stands
<1>1. (RestIsClean /\ LeaversAreUnrouted /\ RequestsAreHeld /\ ReportsAreHeld)'
  BY AgentsAreLeft
<1>2. FirstTargetAlone' /\ SourceHasTarget' /\ (Committed' <=> Committed)
  BY AssignmentIsLeft
<1>3. OnItsWay' => ListsAreSound'
  BY <1>2, ListsAreLeft DEF TwoNodesInv, OnItsWay, SameAssignment, SameRoute
<1>4. (CommitIsSettled /\ OwnerHolds /\ CleanupListsAreSound /\ TasksAreAwaited)'
  BY <1>2 DEF TwoNodesInv, SameAssignment, SameRoute, agentVars, CommitIsSettled, OwnerHolds,
     CleanupListsAreSound, TasksAreAwaited, BringsNotBack, ReportsNews
<1> QED
  BY <1>1, <1>2, <1>3, <1>4 DEF TwoNodesInv

\* A reconcile that ends enters no working phase from a cleanup or a halt.
LEMMA EndsKeepsPair ==
  ASSUME QuietPair, Inv, TwoNodesInv, Ends
  PROVE  TwoNodesInv'
<1>1. pc' = "idle" /\ SameAssignment /\ SameRoute /\ UNCHANGED agentVars
      /\ status'.owners = status.owners
  BY DEF Ends
<1>2. annotation = None /\ None \notin Phases /\ (pc # "idle" => status.phase \notin Halted)
  BY NobodyAsks, PhaseAssumption DEF Inv, ReconcileIsWorking
<1>3. \/ status'.phase = status.phase
      \/ status'.phase \in Halted /\ pc \in {"idle", "decide"}
      \/ pc = "idle" /\ status.phase = None /\ status'.phase = "Selecting"
      \/ /\ pc = "decide" /\ CanTransition(status.phase, status'.phase)
         /\ status.phase \notin Halted
         /\ status'.phase \notin {"CleaningStaleOwners", "Succeeded"}
  BY <1>2 DEF Ends, LeavesPhase
<1>4. (RestIsClean /\ LeaversAreUnrouted /\ RequestsAreHeld /\ ReportsAreHeld)'
  BY <1>1, AgentsAreLeft
<1>5. FirstTargetAlone' /\ SourceHasTarget' /\ (Committed' <=> Committed)
  BY <1>1, AssignmentIsLeft
<1>6. CanTransition("CleaningStaleOwners", status'.phase) =>
        status'.phase \in Halted \cup {"Succeeded"}
  BY DEF CanTransition, legalPhaseTransitions, Halted
<1>7. CanTransition("Succeeded", status'.phase) => status'.phase = "Selecting"
  BY DEF CanTransition, legalPhaseTransitions
<1>8. OnItsWay' => ListsAreSound'
  <2> SUFFICES ASSUME OnItsWay' PROVE ListsAreSound'
    OBVIOUS
  <2>1. status'.phase \notin Halted \cup {"CleaningStaleOwners"} /\ ~Committed
    BY <1>1, <1>5 DEF OnItsWay
  <2>2. status.phase \notin Halted \cup {"CleaningStaleOwners"}
    BY <1>2, <1>3, <1>6, <2>1 DEF Halted, Phases
  <2> QED
    BY <1>1, <2>1, <2>2, ListsAreLeft DEF TwoNodesInv, OnItsWay
<1>9. CommitIsSettled'
  <2> SUFFICES ASSUME Committed PROVE CommitIsSettled'
    BY <1>5 DEF CommitIsSettled
  <2>1. /\ owner = status.target /\ tasks = {}
        /\ status.phase \in Halted \cup {"CleaningStaleOwners", "Succeeded", "Selecting"}
        /\ status.phase = "Selecting" => pc = "idle"
    BY DEF TwoNodesInv, CommitIsSettled
  <2>2. status'.phase \in Halted \cup {"CleaningStaleOwners", "Succeeded", "Selecting"}
    BY <1>3, <1>6, <1>7, <2>1
  <2> QED
    BY <1>1, <2>1, <2>2 DEF CommitIsSettled, SameAssignment, SameRoute
<1>10. (OwnerHolds /\ CleanupListsAreSound)'
  <2>1. status'.phase \in {"CleaningStaleOwners", "Succeeded"} => status'.phase = status.phase
    BY <1>3 DEF Halted
  <2> QED
    BY <1>1, <2>1 DEF TwoNodesInv, SameAssignment, SameRoute, agentVars, OwnerHolds,
       CleanupListsAreSound, BringsNotBack, ReportsNews
<1>11. TasksAreAwaited'
  <2>1. tasks # {} => pc # "decide" /\ status.phase \in Halted \cup {"RoutingProvider"}
    BY DEF TwoNodesInv, TasksAreAwaited
  <2>2. tasks # {} => status'.phase \in Halted \cup {"RoutingProvider"}
    BY <1>2, <1>3, <2>1 DEF Halted, Phases
  <2> QED
    BY <1>1, <2>2 DEF SameRoute, TasksAreAwaited
<1> QED
  BY <1>4, <1>5, <1>8, <1>9, <1>10, <1>11 DEF TwoNodesInv

\* A cleanup whose list names the target alone is sound again: the owner's
\* agent has no list from before that would bring the other node back.
LEMMA TargetAloneIsSound ==
  ASSUME QuietPair, Inv, TwoNodesInv, pc = "idle",
         status.phase = "CleaningStaleOwners", ~Committed, owner = status.target,
         status.owners = {status.target}
  PROVE  ListsAreSound
<1>1. status.source \in Nodes /\ status.target \in Nodes /\ status.source # owner
  BY DEF TwoNodesInv, OwnerHolds, SourceHasTarget, Committed, Inv, TypeOK, ApiTypeOK,
         StatusType
<1>2. \A n \in Nodes : n = owner \/ n = status.source
  BY <1>1 DEF QuietPair
<1>3. owner \in ip /\ ~Leaving(owner)
  BY <1>1 DEF TwoNodesInv, OwnerHolds, LeaversAreUnrouted
<1>4. status.source \notin agent[owner].owners
  <2>1. agent[owner].pc # "rest" => agent[owner].owns
    BY <1>3 DEF Leaving
  <2>2. agent[owner].pc = "rest" => agent[owner].owners = {}
    <3>1. agent[owner].pc = "rest" => agent[owner] = AtRest
      BY <1>1 DEF TwoNodesInv, RestIsClean
    <3> QED
      BY <3>1 DEF AtRest
  <2>3. agent[owner].owns /\ status.source \in agent[owner].owners =>
          owner \notin status.owners
    BY <1>1 DEF TwoNodesInv, CleanupListsAreSound, ReportsNews
  <2> QED
    BY <2>1, <2>2, <2>3
<1> QED
  BY <1>1, <1>2, <1>3, <1>4
  DEF ListsAreSound, ListsAreTrue, BringsNotBack, ReportsNews, Doubtful

\* The owner that the provider reports becomes the first target.
LEMMA LearnsKeepsPair ==
  ASSUME QuietPair, Inv, TwoNodesInv, Learns
  PROVE  TwoNodesInv'
<1>1. /\ pc = "idle" /\ pc' = "decide" /\ seen' = owner /\ tasks = {}
      /\ ValidateStatus(status) /\ status.phase \notin Halted
      /\ SameRoute /\ UNCHANGED agentVars
      /\ status'.source = status.source /\ status'.phase = status.phase
      /\ status'.owners = status.owners /\ mem'.owners = status.owners
      /\ status.target # None => status'.target = status.target
  BY DEF Learns, ReadsProvider, QuietPair
<1>2. (RestIsClean /\ LeaversAreUnrouted /\ RequestsAreHeld /\ ReportsAreHeld)'
  BY <1>1, AgentsAreLeft
<1>3. status.target = None => status.source = None
  BY DEF TwoNodesInv, SourceHasTarget
<1>4. Committed' <=> Committed
  BY <1>1, <1>3 DEF Committed
<1>5. FirstTargetAlone' /\ SourceHasTarget'
  <2>1. status.target = None => \A x \in Nodes : x \notin ip /\ agent[x].pc = "rest"
    BY <1>3 DEF TwoNodesInv, FirstTargetAlone
  <2> QED
    BY <1>1, <1>3, <2>1 DEF TwoNodesInv, agentVars, FirstTargetAlone, SourceHasTarget
<1>6. OnItsWay' => ListsAreSound'
  <2> SUFFICES ASSUME OnItsWay' PROVE ListsAreSound
    BY <1>1, ListsAreLeft
  <2>1. CASE status'.phase \notin Halted \cup {"CleaningStaleOwners"} /\ ~Committed'
    BY <1>1, <1>4, <2>1 DEF TwoNodesInv, OnItsWay
  <2>2. CASE /\ status'.phase = "CleaningStaleOwners" /\ ~Committed'
             /\ owner' = status'.target /\ mem'.owners = {status'.target}
    <3>1. status'.target = status.target
      BY <1>1, <1>3, <2>2 DEF TwoNodesInv, OwnerHolds
    <3> QED
      BY <1>1, <1>4, <2>2, <3>1, TargetAloneIsSound DEF SameRoute
  <2> QED
    BY <2>1, <2>2 DEF OnItsWay
<1>7. CommitIsSettled'
  <2>1. Committed => status.phase # "Selecting"
    BY <1>1, PhaseAssumption DEF ValidateStatus, Committed, Phases
  <2> QED
    BY <1>1, <1>4, <2>1 DEF TwoNodesInv, CommitIsSettled, Committed, SameRoute
<1>8. (OwnerHolds /\ CleanupListsAreSound /\ TasksAreAwaited)'
  BY <1>1 DEF TwoNodesInv, SameRoute, agentVars, OwnerHolds, CleanupListsAreSound,
     TasksAreAwaited, BringsNotBack, ReportsNews
<1> QED
  BY <1>2, <1>5, <1>6, <1>7, <1>8 DEF TwoNodesInv

\* A new target empties the list or keeps it, and the old target becomes the
\* source.
LEMMA RetargetsKeepsPair ==
  ASSUME QuietPair, Inv, TwoNodesInv, NEW b \in Nodes, Retargets(b)
  PROVE  TwoNodesInv'
<1>1. /\ pc = "decide" /\ pc' = "idle" /\ SameRoute /\ UNCHANGED agentVars
      /\ status'.source = status.target /\ status'.target = b /\ b # status.target
      /\ status.phase # "Succeeded"
      /\ \/ status'.phase = status.phase
         \/ status.phase = "Stabilizing" /\ status'.phase = "PreparingTarget"
      /\ status'.owners \in {{}, status.owners}
  BY DEF Retargets
<1>2. tasks = {} /\ status.phase \notin Halted
  BY <1>1 DEF TwoNodesInv, TasksAreAwaited, Inv, ReconcileIsWorking
<1>3. (RestIsClean /\ LeaversAreUnrouted /\ RequestsAreHeld /\ ReportsAreHeld)'
  BY <1>1, AgentsAreLeft
<1>4. ~Committed' /\ SourceHasTarget'
  BY <1>1 DEF Committed, SourceHasTarget
<1>5. FirstTargetAlone'
  BY <1>1 DEF TwoNodesInv, SourceHasTarget, FirstTargetAlone, agentVars
<1>6. OnItsWay' => ListsAreSound'
  <2> SUFFICES ASSUME OnItsWay' PROVE ListsAreSound'
    OBVIOUS
  <2>1. status.phase # "CleaningStaleOwners"
    BY <1>1 DEF OnItsWay
  <2>2. ListsAreSound
    BY <1>1, <1>2, <2>1 DEF TwoNodesInv, OnItsWay, CommitIsSettled
  <2> QED
    BY <1>1, <2>2 DEF agentVars, ListsAreSound, ListsAreTrue, BringsNotBack, ReportsNews,
       Doubtful, Leaving
<1>7. (OwnerHolds /\ CleanupListsAreSound)'
  <2>1. CASE status'.phase = "CleaningStaleOwners" /\ status.phase = "CleaningStaleOwners"
    <3>1. owner \in ip /\ status.target # None
      BY <2>1 DEF TwoNodesInv, OwnerHolds, SourceHasTarget
    <3>2. CleanupListsAreSound
      BY DEF TwoNodesInv
    <3> QED
      BY <1>1, <1>2, <2>1, <3>1, <3>2
      DEF SameRoute, agentVars, OwnerHolds, CleanupListsAreSound, BringsNotBack, ReportsNews
  <2>2. CASE status'.phase \notin {"CleaningStaleOwners", "Succeeded"}
    BY <2>2 DEF OwnerHolds, CleanupListsAreSound
  <2> QED
    BY <1>1, <2>1, <2>2
<1>8. (CommitIsSettled /\ TasksAreAwaited)'
  BY <1>1, <1>2, <1>4 DEF SameRoute, CommitIsSettled, TasksAreAwaited
<1> QED
  BY <1>3, <1>4, <1>5, <1>6, <1>7, <1>8 DEF TwoNodesInv

\* The controller sets out to route only to a node that is listed, and a
\* listed node holds the address and keeps it.
LEMMA SetsOutKeepsPair ==
  ASSUME Inv, TwoNodesInv, SetsOut
  PROVE  TwoNodesInv'
<1>1. /\ pc = "decide" /\ pc' = "route" /\ dest' = status.target /\ seen' = seen
      /\ SameAssignment /\ SameRoute /\ UNCHANGED agentVars
      /\ status.phase = "RoutingProvider" /\ status'.phase = status.phase
      /\ status'.owners = status.owners /\ status.target \in mem.owners
  BY DEF SetsOut
<1>2. ListsAreSound /\ ~Committed
  BY <1>1, WorkingIsSound
<1>3. status.target \in Nodes
  BY <1>1 DEF Inv, TypeOK, ControllerTypeOK, StatusType
<1>4. ~Doubtful(status.target)
  BY <1>1, <1>2, <1>3 DEF ListsAreSound, ListsAreTrue
<1>5. (RestIsClean /\ LeaversAreUnrouted /\ RequestsAreHeld /\ ReportsAreHeld)'
  BY <1>1, <1>4 DEF TwoNodesInv, agentVars, SameRoute, RestIsClean, LeaversAreUnrouted,
     RequestsAreHeld, ReportsAreHeld, Leaving, Doubtful
<1>6. FirstTargetAlone' /\ SourceHasTarget' /\ (Committed' <=> Committed)
  BY <1>1, AssignmentIsLeft
<1>7. ListsAreSound'
  BY <1>1, <1>2, ListsAreLeft
<1>8. (CommitIsSettled /\ OwnerHolds /\ CleanupListsAreSound)'
  BY <1>1, <1>2, <1>6 DEF CommitIsSettled, OwnerHolds, CleanupListsAreSound
<1>9. TasksAreAwaited'
  BY <1>1 DEF TwoNodesInv, TasksAreAwaited, SameRoute
<1> QED
  BY <1>5, <1>6, <1>7, <1>8, <1>9 DEF TwoNodesInv

\* The request names a node that holds the address.
LEMMA AsksKeepsPair ==
  ASSUME Inv, TwoNodesInv, Asks
  PROVE  TwoNodesInv'
<1>1. /\ pc = "route" /\ pc' \in {"wait", "idle"} /\ (pc' = "wait" => dest' = dest)
      /\ SameAssignment /\ UNCHANGED agentVars
      /\ tasks' = tasks \cup {dest} /\ owner' = owner
      /\ status'.phase = status.phase /\ status'.owners = status.owners
  BY DEF Asks, AcceptRoute
<1>2. status.phase = "RoutingProvider"
  BY <1>1 DEF Inv, RequestIsPersisted
<1>3. ListsAreSound /\ ~Committed
  BY <1>2, WorkingIsSound
<1>4. (RestIsClean /\ LeaversAreUnrouted /\ RequestsAreHeld /\ ReportsAreHeld)'
  BY <1>1 DEF TwoNodesInv, agentVars, RestIsClean, LeaversAreUnrouted,
     RequestsAreHeld, ReportsAreHeld, Leaving
<1>5. FirstTargetAlone' /\ SourceHasTarget' /\ (Committed' <=> Committed)
  BY <1>1, AssignmentIsLeft
<1>6. ListsAreSound'
  BY <1>1, <1>3, ListsAreLeft
<1>7. (CommitIsSettled /\ OwnerHolds /\ CleanupListsAreSound)'
  BY <1>1, <1>2, <1>3, <1>5 DEF CommitIsSettled, OwnerHolds, CleanupListsAreSound
<1>8. TasksAreAwaited'
  BY <1>1, <1>2 DEF TwoNodesInv, TasksAreAwaited
<1> QED
  BY <1>4, <1>5, <1>6, <1>7, <1>8 DEF TwoNodesInv

\* The route is confirmed once the task has ended.
LEMMA ConfirmsKeepsPair ==
  ASSUME Inv, TwoNodesInv, Confirms
  PROVE  TwoNodesInv'
<1>1. /\ pc = "wait" /\ pc' = "idle" /\ dest \notin tasks
      /\ SameRoute /\ UNCHANGED agentVars
      /\ status'.source = status.source /\ status'.target = status.target
      /\ status'.phase = "VerifyingProvider" /\ status'.owners = status.owners
  BY DEF Confirms
<1>2. status.phase = "RoutingProvider"
  BY <1>1 DEF Inv, RequestIsPersisted
<1>3. ListsAreSound /\ ~Committed
  BY <1>2, WorkingIsSound
<1>4. tasks = {}
  BY <1>1 DEF TwoNodesInv, TasksAreAwaited
<1>5. (RestIsClean /\ LeaversAreUnrouted /\ RequestsAreHeld /\ ReportsAreHeld)'
  BY <1>1, AgentsAreLeft
<1>6. FirstTargetAlone' /\ SourceHasTarget' /\ ~Committed'
  BY <1>1, <1>3 DEF TwoNodesInv, agentVars, FirstTargetAlone, SourceHasTarget, Committed
<1>7. ListsAreSound'
  BY <1>1, <1>3, ListsAreLeft
<1>8. (CommitIsSettled /\ OwnerHolds /\ CleanupListsAreSound /\ TasksAreAwaited)'
  BY <1>1, <1>4, <1>6
  DEF SameRoute, CommitIsSettled, OwnerHolds, CleanupListsAreSound, TasksAreAwaited
<1> QED
  BY <1>5, <1>6, <1>7, <1>8 DEF TwoNodesInv

\* The commit finds the target routed to, listed and holding the address.
LEMMA SettlesKeepsPair ==
  ASSUME Inv, TwoNodesInv, Settles
  PROVE  TwoNodesInv'
<1>1. /\ pc = "decide" /\ pc' = "idle" /\ SameRoute /\ UNCHANGED agentVars
      /\ seen = status.target /\ status.target \in mem.owners
      /\ status.phase = "Committing" /\ status'.phase = "CleaningStaleOwners"
      /\ status'.source = status.target /\ status'.target = status.target
      /\ status'.owners = status.owners
  BY DEF Settles
<1>2. ListsAreSound
  BY <1>1, WorkingIsSound
<1>3. owner = status.target /\ tasks = {}
  BY <1>1 DEF TwoNodesInv, TasksAreAwaited
<1>4. status.target \in Nodes
  BY <1>1 DEF Inv, TypeOK, ControllerTypeOK, StatusType
<1>5. owner \in ip
  BY <1>1, <1>2, <1>3, <1>4 DEF ListsAreSound, ListsAreTrue, Doubtful
<1>6. (RestIsClean /\ LeaversAreUnrouted /\ RequestsAreHeld /\ ReportsAreHeld)'
  BY <1>1, AgentsAreLeft
<1>7. FirstTargetAlone' /\ SourceHasTarget' /\ Committed' /\ ~OnItsWay'
  BY <1>1, <1>4 DEF FirstTargetAlone, SourceHasTarget, Committed, OnItsWay
<1>8. CleanupListsAreSound'
  BY <1>1, <1>2, <1>3, <1>4 DEF ListsAreSound, SameRoute, agentVars, CleanupListsAreSound,
     BringsNotBack, ReportsNews
<1>9. (CommitIsSettled /\ OwnerHolds /\ TasksAreAwaited)'
  BY <1>1, <1>3, <1>4, <1>5
  DEF SameRoute, agentVars, CommitIsSettled, OwnerHolds, TasksAreAwaited
<1> QED
  BY <1>6, <1>7, <1>8, <1>9 DEF TwoNodesInv

\* The handoff succeeds when the list names the target alone.
LEMMA FinishesKeepsPair ==
  ASSUME TwoNodesInv, Finishes
  PROVE  TwoNodesInv' /\ owner = status.target
<1>1. /\ pc = "decide" /\ pc' = "idle" /\ SameAssignment /\ SameRoute
      /\ UNCHANGED agentVars
      /\ seen = status.target /\ mem.owners = {status.target}
      /\ status.phase = "CleaningStaleOwners" /\ status'.phase = "Succeeded"
      /\ status'.owners = status.owners
  BY DEF Finishes
<1>2. owner = status.target /\ tasks = {}
  BY <1>1 DEF TwoNodesInv, TasksAreAwaited
<1>3. (RestIsClean /\ LeaversAreUnrouted /\ RequestsAreHeld /\ ReportsAreHeld)'
  BY <1>1, AgentsAreLeft
<1>4. FirstTargetAlone' /\ SourceHasTarget' /\ (Committed' <=> Committed)
  BY <1>1, AssignmentIsLeft
<1>5. OnItsWay' => ListsAreSound'
  <2>1. ~Committed => ListsAreSound
    BY <1>1, <1>2 DEF TwoNodesInv, OnItsWay
  <2> QED
    BY <1>1, <1>4, <2>1, ListsAreLeft DEF OnItsWay
<1>6. (CommitIsSettled /\ OwnerHolds /\ CleanupListsAreSound /\ TasksAreAwaited)'
  BY <1>1, <1>2, <1>4 DEF TwoNodesInv, SameAssignment, SameRoute, agentVars,
     CommitIsSettled, OwnerHolds, CleanupListsAreSound, TasksAreAwaited
<1> QED
  BY <1>2, <1>3, <1>4, <1>5, <1>6 DEF TwoNodesInv

\* Nothing is rolled back.
LEMMA NobodyRollsBack ==
  ASSUME QuietPair, TwoNodesInv, RollsBack
  PROVE  FALSE
BY DEF QuietPair, TwoNodesInv, TasksAreAwaited, RollsBack

\* A task ends at a node that holds the address, or fails.
LEMMA ProviderKeepsPair ==
  ASSUME QuietPair, Inv, TwoNodesInv, ProviderStep
  PROVE  TwoNodesInv'
<1>1. PICK k \in tasks :
        /\ tasks' = tasks \ {k} /\ owner' \in {owner, k}
        /\ UNCHANGED <<apiVars, controllerVars, agentVars>>
  BY DEF QuietPair, ProviderStep, TaskFinishes, TaskFails, MoveOutOfBand
<1>2. tasks \subseteq Nodes
  BY DEF Inv, TypeOK, ProviderTypeOK
<1>3. /\ status' = status /\ pc' = pc /\ mem' = mem /\ dest' = dest /\ seen' = seen
      /\ ip' = ip /\ agent' = agent
  BY <1>1 DEF apiVars, controllerVars, agentVars
<1>4. /\ pc \in {"idle", "wait"} /\ status.phase \in Halted \cup {"RoutingProvider"}
      /\ ~Committed
  BY <1>1 DEF TwoNodesInv, TasksAreAwaited, CommitIsSettled
<1>5. (RestIsClean /\ LeaversAreUnrouted /\ RequestsAreHeld /\ ReportsAreHeld)'
  BY <1>1, <1>2, <1>3 DEF TwoNodesInv, RestIsClean, LeaversAreUnrouted,
     RequestsAreHeld, ReportsAreHeld, Leaving
<1>6. FirstTargetAlone' /\ SourceHasTarget' /\ (Committed' <=> Committed)
  BY <1>3 DEF TwoNodesInv, FirstTargetAlone, SourceHasTarget, Committed
<1>7. OnItsWay' => ListsAreSound'
  BY <1>3, <1>4, <1>6, ListsAreLeft DEF TwoNodesInv, OnItsWay, agentVars
<1>8. (CommitIsSettled /\ OwnerHolds /\ CleanupListsAreSound)'
  BY <1>3, <1>4, <1>6 DEF CommitIsSettled, OwnerHolds, CleanupListsAreSound, Halted
<1>9. TasksAreAwaited'
  BY <1>1, <1>3, <1>4 DEF TwoNodesInv, TasksAreAwaited
<1> QED
  BY <1>5, <1>6, <1>7, <1>8, <1>9 DEF TwoNodesInv

-----------------------------------------------------------------------------
(* The agents.                                                             *)

\* An agent that goes on, or comes to rest, without writing the status.
LEMMA GoingOnKeepsPair ==
  ASSUME Inv, TwoNodesInv, NEW k \in Nodes,
         UNCHANGED <<apiVars, providerVars, controllerVars>>,
         \A x \in Nodes \ {k} : agent'[x] = agent[x],
         \/ agent'[k] = AtRest
         \/ /\ agent[k].pc # "rest" /\ agent'[k].pc = "report"
            /\ agent'[k].owns = agent[k].owns /\ agent'[k].owners = agent[k].owners,
         \/ ip' = ip
         \/ ip' = ip \cup {k} /\ agent[k].pc # "rest" /\ agent[k].owns
         \/ ip' = ip \ {k} /\ Leaving(k),
         agent'[k].pc = "report" /\ agent'[k].owns => k \in ip'
  PROVE  TwoNodesInv'
<1>1. /\ status' = status /\ owner' = owner /\ tasks' = tasks
      /\ pc' = pc /\ mem' = mem /\ dest' = dest /\ seen' = seen
  BY DEF apiVars, providerVars, controllerVars
<1>2. AtRest.pc = "rest" /\ AtRest.owns = FALSE /\ AtRest.owners = {}
  BY DEF AtRest
<1>3. \A x \in Nodes :
        /\ Leaving(x)' => Leaving(x)
        /\ agent'[x].owns => agent[x].owns
        /\ agent'[x].owners \in {{}, agent[x].owners}
        /\ agent'[x].owns => agent'[x].owners = agent[x].owners
        /\ agent'[x].pc # "rest" => agent[x].pc # "rest" /\ agent'[x].owns = agent[x].owns
  BY <1>2 DEF Leaving
<1>4. \A x \in Nodes : Doubtful(x)' => Doubtful(x)
  BY <1>3 DEF Doubtful, Leaving
<1>5. RestIsClean'
  BY <1>2 DEF TwoNodesInv, RestIsClean
<1>6. LeaversAreUnrouted' /\ RequestsAreHeld'
  BY <1>1, <1>3 DEF TwoNodesInv, LeaversAreUnrouted, RequestsAreHeld
<1>7. ReportsAreHeld'
  BY <1>2 DEF TwoNodesInv, ReportsAreHeld
<1>8. OnItsWay' => ListsAreSound'
  BY <1>1, <1>3, <1>4 DEF TwoNodesInv, OnItsWay, Committed, ListsAreSound, ListsAreTrue,
     BringsNotBack, ReportsNews
<1>9. FirstTargetAlone'
  <2> SUFFICES ASSUME status.source = None, NEW x \in Nodes
               PROVE  /\ x \in ip' => x = status.target
                      /\ agent'[x].pc # "rest" => x = status.target /\ agent'[x].owns
    BY <1>1 DEF FirstTargetAlone
  <2>1. /\ x \in ip => x = status.target
        /\ agent[x].pc # "rest" => x = status.target /\ agent[x].owns
    BY DEF TwoNodesInv, FirstTargetAlone
  <2>2. x \in ip' => x \in ip \/ agent[x].pc # "rest"
    OBVIOUS
  <2> QED
    BY <1>3, <2>1, <2>2
<1>10. OwnerHolds'
  BY <1>1 DEF TwoNodesInv, OwnerHolds, LeaversAreUnrouted
<1>11. CleanupListsAreSound'
  <2> SUFFICES ASSUME status.phase = "CleaningStaleOwners", NEW n \in Nodes \ {owner}
               PROVE  BringsNotBack(n, owner)' /\ ReportsNews(owner, n)'
    BY <1>1 DEF CleanupListsAreSound
  <2>1. owner \in Nodes
    BY DEF TwoNodesInv, OwnerHolds, Inv, TypeOK, AgentTypeOK
  <2>2. BringsNotBack(n, owner) /\ ReportsNews(owner, n)
    BY DEF TwoNodesInv, CleanupListsAreSound
  <2> QED
    BY <1>1, <1>3, <2>1, <2>2 DEF BringsNotBack, ReportsNews
<1>12. (SourceHasTarget /\ CommitIsSettled /\ TasksAreAwaited)'
  BY <1>1 DEF TwoNodesInv, SourceHasTarget, CommitIsSettled, TasksAreAwaited, Committed
<1> QED
  BY <1>5, <1>6, <1>7, <1>8, <1>9, <1>10, <1>11, <1>12 DEF TwoNodesInv

\* With two nodes, an agent finds an address to give up only after a commit.
LEMMA ReadsKeepsPair ==
  ASSUME QuietPair, Inv, TwoNodesInv, NEW k \in Nodes, AgentReads(k),
         UNCHANGED <<providerVars, controllerVars>>
  PROVE  TwoNodesInv'
<1>1. /\ status' = status /\ owner' = owner /\ tasks' = tasks /\ ip' = ip
      /\ pc' = pc /\ mem' = mem /\ dest' = dest /\ seen' = seen
  BY DEF AgentReads, apiVars, providerVars, controllerVars
<1>2. /\ agent[k].pc = "rest" /\ HasWork(k)
      /\ \A x \in Nodes \ {k} : agent'[x] = agent[x]
      /\ agent'[k].pc = "apply" /\ agent'[k].owns = shouldOwn(k)
      /\ agent'[k].owners = status.owners
  BY DEF AgentReads, Inv, TypeOK, AgentTypeOK
<1>3. /\ status.source \in Nodes \cup {None} /\ status.target \in Nodes \cup {None}
      /\ status.owners \subseteq Nodes
  BY DEF Inv, TypeOK, ApiTypeOK, StatusType
<1>4. ASSUME ~shouldOwn(k)
      PROVE  Committed /\ owner \in Nodes \ {k} /\ tasks = {} /\ pc # "route"
  <2>1. k \in ip /\ k # status.target /\ k # status.source
    BY <1>2, <1>4 DEF HasWork, shouldOwn
  <2>2. status.source # None /\ status.target # None
    BY <2>1 DEF TwoNodesInv, FirstTargetAlone, SourceHasTarget
  <2>3. Committed
    BY <1>3, <2>1, <2>2 DEF QuietPair, Committed
  <2>4. owner = status.target /\ tasks = {} /\ status.phase # "RoutingProvider"
    BY <2>3 DEF TwoNodesInv, CommitIsSettled, Halted
  <2>5. pc # "route"
    BY <2>4 DEF Inv, RequestIsPersisted
  <2> QED
    BY <1>3, <2>1, <2>2, <2>3, <2>4, <2>5
<1>5. RestIsClean' /\ RequestsAreHeld' /\ ReportsAreHeld'
  BY <1>1, <1>2 DEF TwoNodesInv, RestIsClean, RequestsAreHeld, ReportsAreHeld
<1>6. LeaversAreUnrouted'
  BY <1>1, <1>2, <1>4 DEF TwoNodesInv, LeaversAreUnrouted, Leaving
<1>7. FirstTargetAlone'
  <2> SUFFICES ASSUME status.source = None PROVE FirstTargetAlone'
    BY <1>1 DEF FirstTargetAlone
  <2>1. shouldOwn(k)
    BY <1>2 DEF TwoNodesInv, FirstTargetAlone, HasWork, shouldOwn
  <2>2. k = status.target
    BY <2>1 DEF shouldOwn
  <2> QED
    BY <1>1, <1>2, <2>1, <2>2 DEF TwoNodesInv, FirstTargetAlone
<1>8. OnItsWay' => ListsAreSound'
  <2> SUFFICES ASSUME OnItsWay PROVE ListsAreSound'
    BY <1>1 DEF OnItsWay, Committed
  <2>1. ListsAreSound /\ shouldOwn(k)
    BY <1>4 DEF TwoNodesInv, OnItsWay
  <2>2. k \notin ip \/ k \notin status.owners
    BY <1>2, <2>1 DEF HasWork
  <2>3. \A x \in Nodes : Doubtful(x)' => Doubtful(x)
    BY <1>1, <1>2, <2>1 DEF Doubtful, Leaving
  <2>4. ListsAreTrue'
    BY <1>1, <1>2, <2>1, <2>3 DEF ListsAreSound, ListsAreTrue
  <2>5. ASSUME NEW x \in Nodes, NEW y \in Nodes, x # y
        PROVE  BringsNotBack(x, y)' /\ ReportsNews(x, y)'
    <3>1. BringsNotBack(x, y) /\ ReportsNews(x, y) /\ BringsNotBack(y, x)
      BY <2>1, <2>5 DEF ListsAreSound
    <3>2. CASE x = k
      <4>1. k \notin ip => k \notin status.owners /\ k \notin agent[y].owners
        BY <2>1, <2>5, <3>2 DEF ListsAreSound, ListsAreTrue, Doubtful
      <4> QED
        BY <1>1, <1>2, <2>2, <2>5, <3>1, <3>2, <4>1 DEF BringsNotBack, ReportsNews
    <3>3. CASE x # k
      BY <1>1, <1>2, <3>1, <3>3 DEF BringsNotBack, ReportsNews
    <3> QED
      BY <3>2, <3>3
  <2> QED
    BY <2>4, <2>5 DEF ListsAreSound
<1>9. CleanupListsAreSound'
  <2> SUFFICES ASSUME status.phase = "CleaningStaleOwners", NEW n \in Nodes \ {owner}
               PROVE  BringsNotBack(n, owner)' /\ ReportsNews(owner, n)'
    BY <1>1 DEF CleanupListsAreSound
  <2>1. owner \in Nodes /\ owner \in ip
    BY DEF TwoNodesInv, OwnerHolds, Inv, TypeOK, AgentTypeOK
  <2>2. BringsNotBack(n, owner) /\ ReportsNews(owner, n)
    BY DEF TwoNodesInv, CleanupListsAreSound
  <2>3. k = owner /\ shouldOwn(k) => owner \notin status.owners
    BY <1>2, <2>1 DEF HasWork
  <2> QED
    BY <1>1, <1>2, <2>1, <2>2, <2>3 DEF BringsNotBack, ReportsNews
<1>10. (SourceHasTarget /\ CommitIsSettled /\ OwnerHolds /\ TasksAreAwaited)'
  BY <1>1 DEF TwoNodesInv, SourceHasTarget, CommitIsSettled, OwnerHolds, TasksAreAwaited,
     Committed
<1> QED
  BY <1>5, <1>6, <1>7, <1>8, <1>9, <1>10 DEF TwoNodesInv

\* What an agent writes over the list: the list it has read, with its own node
\* in or out.
LEMMA ReportWrites ==
  ASSUME Inv, NEW k \in Nodes, AgentReports(k)
  PROVE  /\ SameAssignment /\ status'.phase = status.phase
         /\ \/ status'.owners = status.owners
            \/ agent[k].owns /\ status'.owners = agent[k].owners \cup {k}
            \/ ~agent[k].owns /\ status'.owners = agent[k].owners \ {k}
<1> DEFINE b == [status EXCEPT !.owners = agent[k].owners]
           n == [status EXCEPT !.owners = ReportedOwners(k)]
<1>1. PatchStatus(b, n)
  BY DEF AgentReports
<1>2. status \in StatusType
  BY DEF Inv, TypeOK, ApiTypeOK
<1>3. /\ b.phase = status.phase /\ b.source = status.source
      /\ b.target = status.target /\ b.observed = status.observed
      /\ n.phase = status.phase /\ n.source = status.source
      /\ n.target = status.target /\ n.observed = status.observed
      /\ n.owners = ReportedOwners(k)
  BY <1>2 DEF StatusType
<1> HIDE DEF b, n
<1>4. status'.owners \in {ReportedOwners(k), status.owners}
  BY <1>1, <1>3, PatchWrites
<1> QED
  BY <1>1, <1>3, <1>4, PatchWrites DEF SameAssignment, ReportedOwners

\* A report from a stale list names nobody it should not name.
LEMMA ReportsKeepsPair ==
  ASSUME QuietPair, Inv, TwoNodesInv, NEW k \in Nodes, AgentReports(k),
         UNCHANGED <<providerVars, controllerVars>>
  PROVE  TwoNodesInv'
<1>1. /\ SameAssignment /\ status'.phase = status.phase
      /\ owner' = owner /\ tasks' = tasks /\ ip' = ip
      /\ pc' = pc /\ mem' = mem /\ dest' = dest /\ seen' = seen
  BY ReportWrites DEF AgentReports, providerVars, controllerVars
<1>2. /\ agent[k].pc = "report" /\ agent'[k] = AtRest
      /\ \A x \in Nodes \ {k} : agent'[x] = agent[x]
  BY DEF AgentReports, Inv, TypeOK, AgentTypeOK
<1>3. AtRest.pc = "rest" /\ AtRest.owns = FALSE /\ AtRest.owners = {}
  BY DEF AtRest
<1>4. \/ status'.owners = status.owners
      \/ agent[k].owns /\ status'.owners = agent[k].owners \cup {k}
      \/ ~agent[k].owns /\ status'.owners = agent[k].owners \ {k}
  BY ReportWrites
<1>5. /\ agent[k].owns => k \in ip
      /\ ~agent[k].owns => Leaving(k)
  BY <1>2 DEF TwoNodesInv, ReportsAreHeld, Leaving
<1>6. ~Leaving(k)' /\ \A x \in Nodes \ {k} : Leaving(x)' = Leaving(x)
  BY <1>2, <1>3 DEF Leaving
<1>7. RestIsClean' /\ LeaversAreUnrouted' /\ RequestsAreHeld' /\ ReportsAreHeld'
  BY <1>1, <1>2, <1>3, <1>6
  DEF TwoNodesInv, RestIsClean, LeaversAreUnrouted, RequestsAreHeld, ReportsAreHeld
<1>8. (FirstTargetAlone /\ SourceHasTarget /\ CommitIsSettled /\ OwnerHolds /\ TasksAreAwaited)'
  BY <1>1, <1>2, <1>3 DEF TwoNodesInv, SameAssignment, FirstTargetAlone, SourceHasTarget,
     CommitIsSettled, OwnerHolds, TasksAreAwaited, Committed
<1>9. \A x, y, z \in Nodes : x = y \/ y = z \/ x = z
  BY DEF QuietPair
<1>10. OnItsWay' => ListsAreSound'
  <2> SUFFICES ASSUME ListsAreSound PROVE ListsAreSound'
    BY <1>1 DEF TwoNodesInv, OnItsWay, Committed, SameAssignment
  <2>1. ListsAreTrue'
    <3> SUFFICES ASSUME NEW x \in Nodes, Doubtful(x)'
                 PROVE  /\ x \notin status'.owners
                        /\ pc = "decide" => x \notin mem.owners
                        /\ \A y \in Nodes \ {x} : x \notin agent'[y].owners
      BY <1>1 DEF ListsAreTrue
    <3>1. CASE x = k
      <4>1. k \notin ip /\ ~agent[k].owns
        BY <1>1, <1>5, <1>6, <3>1 DEF Doubtful
      <4> QED
        BY <1>2, <1>4, <3>1, <4>1 DEF ListsAreSound, ListsAreTrue, Doubtful
    <3>2. CASE x # k
      <4>1. Doubtful(x)
        BY <1>1, <1>6, <3>2 DEF Doubtful
      <4> QED
        BY <1>2, <1>3, <1>4, <3>2, <4>1 DEF ListsAreSound, ListsAreTrue
    <3> QED
      BY <3>1, <3>2
  <2>2. ASSUME NEW x \in Nodes, NEW y \in Nodes, x # y
        PROVE  BringsNotBack(x, y)' /\ ReportsNews(x, y)'
    <3>1. BringsNotBack(x, y) /\ ReportsNews(x, y)
      BY <2>2 DEF ListsAreSound
    <3>2. CASE x = k
      BY <1>2, <1>3, <3>2 DEF BringsNotBack, ReportsNews
    <3>3. CASE y = k
      <4>1. ~agent[k].owns => k \notin agent[x].owners
        BY <1>5, <2>2, <3>3 DEF ListsAreSound, ListsAreTrue, Doubtful
      <4> QED
        BY <1>2, <1>3, <1>4, <2>2, <3>1, <3>3, <4>1 DEF BringsNotBack, ReportsNews
    <3> QED
      BY <1>9, <2>2, <3>2, <3>3
  <2> QED
    BY <2>1, <2>2 DEF ListsAreSound
<1>11. CleanupListsAreSound'
  <2> SUFFICES ASSUME status.phase = "CleaningStaleOwners", NEW n \in Nodes \ {owner}
               PROVE  BringsNotBack(n, owner)' /\ ReportsNews(owner, n)'
    BY <1>1 DEF CleanupListsAreSound
  <2>1. owner \in Nodes /\ ~Leaving(owner)
    BY DEF TwoNodesInv, OwnerHolds, LeaversAreUnrouted, Inv, TypeOK, AgentTypeOK
  <2>2. BringsNotBack(n, owner) /\ ReportsNews(owner, n)
    BY DEF TwoNodesInv, CleanupListsAreSound
  <2>3. CASE k = owner
    <3>1. agent[k].owns
      BY <1>5, <2>1, <2>3
    <3> QED
      BY <1>1, <1>2, <1>3, <1>4, <2>2, <2>3, <3>1 DEF BringsNotBack, ReportsNews
  <2>4. CASE k = n
    BY <1>1, <1>2, <1>3, <1>4, <2>1, <2>2, <2>4 DEF BringsNotBack, ReportsNews
  <2> QED
    BY <1>9, <2>1, <2>3, <2>4
<1> QED
  BY <1>7, <1>8, <1>10, <1>11 DEF TwoNodesInv

\* Every step of an agent.
LEMMA AgentsKeepPair ==
  ASSUME QuietPair, Inv, TwoNodesInv, AgentsStep
  PROVE  TwoNodesInv'
<1>1. PICK k \in Nodes : AgentStep(k) \/ AgentFails(k)
  BY DEF AgentsStep
<1>2. UNCHANGED <<providerVars, controllerVars>>
  BY DEF AgentsStep
<1>3. agent \in [Nodes -> AgentState]
  BY DEF Inv, TypeOK, AgentTypeOK
<1>4. CASE AgentReads(k)
  BY <1>2, <1>4, ReadsKeepsPair
<1>5. CASE AgentReports(k)
  BY <1>2, <1>5, ReportsKeepsPair
<1>6. CASE AgentFails(k)
  BY <1>2, <1>3, <1>6, GoingOnKeepsPair DEF AgentFails, AtRest
<1>7. CASE ensureIPAssigned(k)
  <2>1. /\ UNCHANGED apiVars /\ ip' = ip \cup {k}
        /\ agent[k].pc = "apply" /\ agent[k].owns
        /\ \A x \in Nodes \ {k} : agent'[x] = agent[x]
        /\ agent'[k] \in {AtRest, [agent[k] EXCEPT !.pc = "report"]}
    BY <1>3, <1>7 DEF ensureIPAssigned, ThenReports
  <2>2. \/ agent'[k] = AtRest
        \/ /\ agent'[k].pc = "report" /\ agent'[k].owns = agent[k].owns
           /\ agent'[k].owners = agent[k].owners
    BY <1>3, <2>1 DEF AgentState
  <2> QED
    BY <1>2, <2>1, <2>2, GoingOnKeepsPair
<1>8. CASE ensureIPRemoved(k)
  <2>1. /\ UNCHANGED apiVars /\ ip' = ip \ {k}
        /\ agent[k].pc = "apply" /\ ~agent[k].owns
        /\ \A x \in Nodes \ {k} : agent'[x] = agent[x]
        /\ agent'[k] \in {AtRest, [agent[k] EXCEPT !.pc = "report"]}
    BY <1>3, <1>8 DEF ensureIPRemoved, ThenReports
  <2>2. \/ agent'[k] = AtRest
        \/ /\ agent'[k].pc = "report" /\ agent'[k].owns = agent[k].owns
           /\ agent'[k].owners = agent[k].owners
    BY <1>3, <2>1 DEF AgentState
  <2>3. Leaving(k) /\ ~agent'[k].owns
    BY <2>1, <2>2 DEF Leaving, AtRest
  <2> QED
    BY <1>2, <2>1, <2>2, <2>3, GoingOnKeepsPair
<1> QED
  BY <1>1, <1>4, <1>5, <1>6, <1>7, <1>8 DEF AgentStep

-----------------------------------------------------------------------------

\* Every step of the system.
LEMMA NextKeepsPair ==
  ASSUME QuietPair, Inv, TwoNodesInv, [Next]_vars
  PROVE  TwoNodesInv'
<1>1. Event
  BY NextEvents
<1>2. CASE Stands \/ Ends \/ Learns \/ \E b \in Nodes : Retargets(b)
  BY <1>2, StandsKeepsPair, EndsKeepsPair, LearnsKeepsPair, RetargetsKeepsPair
<1>3. CASE SetsOut \/ Asks \/ Confirms \/ Settles \/ Finishes \/ RollsBack
  BY <1>3, SetsOutKeepsPair, AsksKeepsPair, ConfirmsKeepsPair, SettlesKeepsPair,
     FinishesKeepsPair, NobodyRollsBack
<1>4. CASE AgentsStep \/ ProviderStep
  BY <1>4, AgentsKeepPair, ProviderKeepsPair
<1> QED
  BY <1>1, <1>2, <1>3, <1>4 DEF Event

\* On two nodes the agents' lists of owners, written from stale reads, never
\* mislead a handoff.
THEOREM TwoNodesInvariant ==
  ASSUME QuietPair
  PROVE  Spec => []TwoNodesInv
<1>1. Init => TwoNodesInv
  BY InitPair
<1>2. Inv /\ TwoNodesInv /\ [Next]_vars => TwoNodesInv'
  BY NextKeepsPair
<1> QED
  BY <1>1, <1>2, Invariant, PTL DEF Spec

\* The address is on the target's interface when the route request leaves.
THEOREM PreparedHolds ==
  ASSUME QuietPair
  PROVE  Spec => []PreparedBeforeRouted
<1>1. TwoNodesInv => PreparedBeforeRouted
  BY DEF TwoNodesInv, RequestsAreHeld, PreparedBeforeRouted
<1> QED
  BY <1>1, TwoNodesInvariant, PTL

-----------------------------------------------------------------------------
(* The refinement of Handoff, step by step.                                *)

\* The node announced as the only owner (phase Succeeded).
Announced == IF status.phase = "Succeeded" THEN status.target ELSE None

\* The initial states map to initial states of Handoff.
LEMMA InitIsPromised == Init => Promise!Init
BY PhaseAssumption, ProviderAssumption
DEF Init, ApiInit, ProviderInit, AgentInit, EmptyStatus, Phases, Promise!Init

\* A step that neither takes nor drops the address, asks for nothing and
\* announces nobody new maps to a withdrawal or to no step.
LEMMA QuietStepIsPromised ==
  ASSUME ip' = ip, owner' = owner, tasks' = tasks,
         status'.phase = "Succeeded" =>
           status.phase = "Succeeded" /\ status'.target = status.target
  PROVE  [Promise!Next]_(Promise!vars)
<1>1. Announced' \in {None, Announced}
  BY DEF Announced
<1>2. CASE Announced' = None
  BY <1>2 DEF Announced, Promise!Next, Promise!Withdraw
<1>3. CASE Announced' = Announced
  BY <1>3 DEF Announced, Promise!vars
<1> QED
  BY <1>1, <1>2, <1>3

\* The reconcile as Handoff sees it: it asks, announces, withdraws, or does
\* nothing.
LEMMA ControllerIsPromised ==
  ASSUME QuietPair, Inv, TwoNodesInv,
         \/ Stands \/ Ends \/ Learns \/ \E b \in Nodes : Retargets(b)
         \/ SetsOut \/ Asks \/ Confirms \/ Settles \/ Finishes \/ RollsBack
  PROVE  [Promise!Next]_(Promise!vars)
<1>1. CASE Stands \/ SetsOut \/ Confirms \/ Settles
  <2>1. /\ ip' = ip /\ owner' = owner /\ tasks' = tasks
        /\ status'.phase = "Succeeded" => status.phase = "Succeeded" /\ SameAssignment
    BY <1>1 DEF Stands, SetsOut, Confirms, Settles, SameRoute, agentVars
  <2> QED
    BY <2>1, QuietStepIsPromised DEF SameAssignment
<1>2. CASE Ends
  <2>1. status'.phase = "Succeeded" => status.phase = "Succeeded"
    BY <1>2 DEF Ends, LeavesPhase, Halted
  <2> QED
    BY <1>2, <2>1, QuietStepIsPromised DEF Ends, SameAssignment, SameRoute, agentVars
<1>3. CASE Learns
  <2>1. status.phase = "Succeeded" => status.target # None
    BY DEF TwoNodesInv, OwnerHolds, SourceHasTarget
  <2> QED
    BY <1>3, <2>1, QuietStepIsPromised DEF Learns, SameRoute, agentVars
<1>4. CASE \E b \in Nodes : Retargets(b)
  <2>1. /\ ip' = ip /\ owner' = owner /\ tasks' = tasks
        /\ status'.phase # "Succeeded"
    BY <1>4 DEF Retargets, SameRoute, agentVars
  <2> QED
    BY <2>1, QuietStepIsPromised
<1>5. CASE Asks
  <2>1. /\ pc = "route" /\ tasks' = tasks \cup {dest} /\ owner' = owner /\ ip' = ip
        /\ status'.phase = status.phase
    BY <1>5 DEF Asks, AcceptRoute, agentVars
  <2>2. dest \in Nodes /\ dest \in ip /\ status.phase = "RoutingProvider"
    BY <2>1 DEF TwoNodesInv, RequestsAreHeld, Inv, ReconcileIsWorking, RequestIsPersisted
  <2>3. Promise!Request(dest)
    BY <2>1, <2>2 DEF Promise!Request
  <2> QED
    BY <2>2, <2>3 DEF Promise!Next
<1>6. CASE Finishes
  <2>1. /\ owner = status.target /\ tasks = {} /\ owner \in ip
        /\ status'.phase = "Succeeded" /\ status'.target = status.target
        /\ ip' = ip /\ owner' = owner /\ tasks' = tasks
    BY <1>6, FinishesKeepsPair
    DEF Finishes, TwoNodesInv, OwnerHolds, SameAssignment, SameRoute, agentVars
  <2>2. owner \in Nodes
    BY <2>1 DEF Inv, TypeOK, AgentTypeOK
  <2>3. Promise!Announce(owner)
    BY <2>1 DEF Promise!Announce
  <2> QED
    BY <2>2, <2>3 DEF Promise!Next
<1>7. CASE RollsBack
  BY <1>7, NobodyRollsBack
<1> QED
  BY <1>1, <1>2, <1>3, <1>4, <1>5, <1>6, <1>7

\* An agent takes the address, or drops it where it is neither routed to nor
\* asked for.
LEMMA AgentIsPromised ==
  ASSUME Inv, TwoNodesInv, AgentsStep
  PROVE  [Promise!Next]_(Promise!vars)
<1>1. PICK k \in Nodes : AgentStep(k) \/ AgentFails(k)
  BY DEF AgentsStep
<1>2. owner' = owner /\ tasks' = tasks
  BY DEF AgentsStep, providerVars
<1>3. status'.phase = status.phase /\ status'.target = status.target
  BY AgentsWriteOwners DEF SameAssignment
<1>4. CASE ensureIPAssigned(k)
  <2>1. Promise!Take(k)
    BY <1>2, <1>3, <1>4 DEF ensureIPAssigned, Promise!Take
  <2> QED
    BY <2>1 DEF Promise!Next
<1>5. CASE ensureIPRemoved(k)
  <2>1. Leaving(k)
    BY <1>5 DEF ensureIPRemoved, Leaving
  <2>2. k # owner /\ k \notin tasks
    BY <2>1 DEF TwoNodesInv, LeaversAreUnrouted
  <2>3. Promise!Drop(k)
    BY <1>2, <1>3, <1>5, <2>2 DEF ensureIPRemoved, Promise!Drop
  <2> QED
    BY <2>3 DEF Promise!Next
<1>6. CASE ip' = ip
  BY <1>2, <1>3, <1>6, QuietStepIsPromised
<1> QED
  BY <1>1, <1>4, <1>5, <1>6 DEF AgentStep, AgentReads, AgentReports, AgentFails

\* A task of the provider ends.
LEMMA ProviderIsPromised ==
  ASSUME QuietPair, Inv, ProviderStep
  PROVE  [Promise!Next]_(Promise!vars)
<1>1. PICK n \in Nodes : TaskFinishes(n) \/ TaskFails(n)
  BY DEF QuietPair, ProviderStep, MoveOutOfBand
<1>2. status' = status /\ ip' = ip
  BY DEF ProviderStep, apiVars, agentVars
<1>3. CASE TaskFinishes(n)
  <2>1. Promise!Reroute(n)
    BY <1>2, <1>3 DEF TaskFinishes, Promise!Reroute
  <2> QED
    BY <2>1 DEF Promise!Next
<1>4. CASE TaskFails(n)
  <2>1. Promise!Refuse(n)
    BY <1>2, <1>4 DEF TaskFails, Promise!Refuse
  <2> QED
    BY <2>1 DEF Promise!Next
<1> QED
  BY <1>1, <1>3, <1>4

\* Two nodes, any node states and thresholds: whatever crashes, is refused or
\* is written from a stale read, the provider is asked only for a node that
\* holds the address, no agent drops it where it is or will be routed to, and
\* success is stored only for the node that is routed to and holds it.
THEOREM HandoffIsImplemented ==
  ASSUME QuietPair
  PROVE  Spec => ImplementsHandoff
<1>1. Init => Promise!Init
  BY InitIsPromised
<1>2. Inv /\ TwoNodesInv /\ [Next]_vars => [Promise!Next]_(Promise!vars)
  <2> SUFFICES ASSUME Inv, TwoNodesInv, [Next]_vars
               PROVE  [Promise!Next]_(Promise!vars)
    OBVIOUS
  <2>1. Event
    BY NextEvents
  <2> QED
    BY <2>1, ControllerIsPromised, AgentIsPromised, ProviderIsPromised DEF Event
<1> QED
  BY <1>1, <1>2, Invariant, TwoNodesInvariant, PTL
  DEF Spec, ImplementsHandoff, Promise!Spec

\* A step of the promise, with every request backed by a holder, leaves the
\* routed node with the address (RouteFailoverIP and the agents together).
THEOREM AddressStays ==
  ASSUME QuietPair
  PROVE  Spec => AddressStaysReachable
<1>1. ASSUME Inv, TwoNodesInv, [Next]_vars, owner \in ip
      PROVE  owner' \in ip'
  <2>1. Event
    BY <1>1, NextEvents
  <2>2. [Promise!Next]_(Promise!vars)
    BY <1>1, <2>1, ControllerIsPromised, AgentIsPromised, ProviderIsPromised DEF Event
  <2>3. tasks \subseteq ip
    BY <1>1 DEF TwoNodesInv, RequestsAreHeld
  <2> QED
    BY <1>1, <2>2, <2>3 DEF Promise!Next, Promise!vars, Promise!Take, Promise!Drop,
       Promise!Request, Promise!Reroute, Promise!Refuse, Promise!Announce, Promise!Withdraw
<1>2. Inv /\ TwoNodesInv /\ [Next]_vars => [(owner \in ip) => (owner' \in ip')]_vars
  BY <1>1
<1> QED
  BY <1>2, Invariant, TwoNodesInvariant, PTL DEF Spec, AddressStaysReachable

\* No agent takes the address from the node that it is
\* routed to (ensureIPRemoved, nodeinterface_controller.go).
THEOREM PathIsKept ==
  ASSUME QuietPair
  PROVE  Spec => PathKept
<1>1. ASSUME Inv, TwoNodesInv, [Next]_vars, NEW n \in ip \ ip'
      PROVE  n # owner
  <2>1. \E k \in Nodes : ensureIPRemoved(k) /\ n = k
    <3>1. Event
      BY <1>1, NextEvents
    <3>2. AgentsStep
      BY <1>1, <3>1 DEF Event, Stands, Ends, Learns, Retargets, SetsOut, Asks, Confirms, Settles,
         Finishes, RollsBack, ProviderStep, agentVars
    <3> QED
      BY <1>1, <3>2 DEF AgentsStep, AgentStep, AgentReads, ensureIPAssigned, ensureIPRemoved,
         AgentReports, AgentFails
  <2>2. n \in Nodes /\ Leaving(n)
    BY <2>1 DEF ensureIPRemoved, Leaving
  <2> QED
    BY <1>1, <2>2 DEF TwoNodesInv, LeaversAreUnrouted
<1>2. Inv /\ TwoNodesInv /\ [Next]_vars => [\A n \in ip \ ip' : n # owner]_vars
  BY <1>1
<1> QED
  BY <1>2, Invariant, TwoNodesInvariant, PTL DEF Spec, PathKept
=============================================================================
