# A verification project for foip-operator

foip-operator keeps one Netcup failover address (`/32`) on a healthy node of a
Kubernetes cluster. Moving it takes three parties that share no transaction:
the controller that decides, the node agents that put the address on an
interface, and the provider that routes it. This directory models those
parties in TLA+, checks the models with TLC on small instances, shows that
together they implement an abstract handoff, and proves with TLAPS the safety
properties that the runs check and, for two nodes, that implementation.

Paths below are relative to the repository; `controller.go` stands for
`internal/controller/failoverip_controller.go`.

## 1. Inventory

| Component | State | Operations | Correct when |
|---|---|---|---|
| State machine (`api/v1/failoverip_state.go`) | the status of a FailoverIp | `StartTransition`, `AdvanceTransition`, `ValidateStatus` | no gate is skipped; what is stored is valid |
| Node scoring (`node_scoring.go`) | none | `betterNode` | the answer does not depend on list order and does not flap |
| Safety guards (`provider_safety.go`, `selection_policy.go`) | timestamps in the status | cooldown gate, two ownership fences, candidate readiness, backoff | one provider mutation per cooldown; only foreign owner changes are rejected |
| foip controller (`controller.go`, `recovery.go`) | nothing but the status | one reconcile = reads, one decision, one write; around routing it waits for the provider | make before break; crash at any line is harmless; a handoff ends, unless a second target strands it |
| Node agents (`nodeinterface_controller.go`) | the interfaces of each node; caches and queue of the agent | assign, remove, report in `status.localOwners`; woken by two watches | the routed node keeps the address; every other one loses it in the end; no wakeup is lost |
| Netcup client (`internal/netcup/client.go`) | access token and its expiry | `FindFailoverIP`, `RouteFailoverIP`, `waitForTask`, token refresh | a request that may have been accepted is never treated as not sent; no request carries a dead token; every call ends |
| `netcup-auth` (`cmd/netcup-auth/main.go`) | device code and deadline | start, poll, fetch the user ID | a grant given in time is not lost but to a failed request |
| Kubernetes API | FailoverIp, Nodes, Probes, Secrets | merge patches, updates, watches | external |
| Probe gate (`probe_checks.go`, `internal/probe`) | observations with consecutive counters | execute, thresholds, composition | gates open and close by the thresholds |
| Watches and predicates | work queues | enqueue on events | nothing that matters is filtered out |
| Observability, event deduplication | metrics, seen events | | no influence on the handoff |
| `fake-provider`, charts | | | |

**Interaction.** The controller and the agents never call each other: both read
and write the status of the FailoverIp. The controller sets `sourceNode` and
`targetNode`; an agent holds the address while its node is one of the two, and
writes itself into `localOwners`; the controller waits for that entry before it
calls the provider. Status writes are merge patches *without* optimistic
locking, except one `Update` after routing. A list is one field of a merge
patch, so `localOwners` is always replaced as a whole.

**What is hard.** Agents and controller act on copies read earlier. A provider
request may succeed although its answer is lost, and its effect may come after
the reconcile that asked for it. The process may die between any two writes,
and everything must be resumed from the status. Nodes change health, users
edit the spec and ask for retries, and somebody else may reroute the address,
all at any moment. The hazards, with the line where each bites and the
properties aimed at it, are listed in `PROJECT.json`.

## 2. Modules

```
FailoverState   NodeScoring ---- BetterNode --- BetterNodeProofs, MCBetterNode
      \           /
      SafetyPolicy
            |
        ApiServer      Provider
         /      \        /
   NodeAgent   FoipController
          \      /
         FoipSystem ........ implements ....... Handoff --- HandoffProofs
          /      \
FoipSystemProofs  TwoNodes --- MCFoipSystem (8 configurations)
         |           |
FoipRouteProofs -- TwoNodesProofs

AgentWakeups --- AgentWakeupsProofs, MCAgentWakeups
ProbeGate ------ ProbeGateProofs, MCProbeGate

NetcupClient   DeviceFlow
         \     /
     ProviderAccess --- ProviderAccessProofs, MCProviderAccess
```

| Module | Models | Variables |
|---|---|---|
| `FailoverState` | the status record, `legalPhaseTransitions`, `ValidateStatus` | |
| `NodeScoring` | `scoreNode`, `worseThan`, `betterNode` as a relation, `nodeAcceptable`, `nodeChangePredicate` | |
| `BetterNode` | the pass of `betterNode` over an arbitrarily ordered list, and the rest of a day that follows | `nodes`, `current`, `list`, `i`, `best`, `result`, `asleep`, history `seen` (the nodes as the last pass listed them) |
| `SafetyPolicy` | gate, fences, candidate readiness | |
| `ApiServer` | stored FailoverIp and nodes; patch, update, users, node changes | `status`, `annotation`, `specValid`, `nodes` |
| `Provider` | owner, asynchronous tasks, out-of-band moves | `owner`, `tasks`, history `sent`, `moved` |
| `FoipController` | `Reconcile`, `recoverPostRouteFailure` | `pc`, `mem` (`foip.Status`), `base` (`patchBase`), `seen` (`currentServerID`), `dest` |
| `NodeAgent` | `NodeInterfaceReconciler.Reconcile` on every node | `ip`, `agent` |
| `FoipSystem` | composition, fairness, properties, inductive invariant, the mapping to `Handoff` | history `steady` |
| `TwoNodes` | the inductive invariant for two nodes, and the hypothesis `QuietPair` under which it holds | |
| `Handoff` | the promise: who holds the address, where it is routed, in which order the two change | `holders`, `route`, `requests`, `announced` |
| `AgentWakeups` | one agent with its two watches, its caches, its queue, its MAC annotation and its interfaces | `foip`, `mac` (stored), `foipFeed`, `macFeed`, `foipCache`, `macCache`, `dirty`, `delayed`, `worker`, `held` |
| `ProbeGate` | `evaluateProbePhase`, `applyProbeThresholds`, `Aggregate`, composition and quorum | `obs` (the persisted observations), `spec`, `asked` (`referencedComposition`), `phase`, `due` (the gate the transition comes to next), `todo`, `passed`, `failed`, `answer`, history `record` |
| `NetcupClient` | `do`, `token`, `FindFailoverIP`, `RouteFailoverIP`, `waitForTask`, in ticks of time | `call`, `at`, `elapsed`, `fresh` (to `tokenExpiry`), `life` (of the token issued last), `holds` (whether the client has it), `granted`, `task`, `outcome` |
| `DeviceFlow` | `startDeviceFlow`, `pollForToken`, `pollOnce`, `fetchUserID` | `flow`, `left` (to the deadline), `slept`, `codeLeft`, `user`, history `leftThen`, `cause` (of a failure) |
| `ProviderAccess` | the controller's only worker with its client, the Secret, and the administrator who replaces it | `queued`, `job`, `stage`, `tries`, `secret` |
| `FoipRouteProofs` | the steps of `FoipSystem` reduced to a few events, and theorems about the route | |
| other `...Proofs` | theorems about the module of that name | |

Each action of `FoipController` is one way through `Reconcile`: its guard is
the conjunction of the conditions on that way and its effect is everything
written on it. `PROJECT.json` gives the lines of every definition.

### What is abstracted, and why that is sound

* **Names.** A node and its server share a name; names are numbers because
  `worseThan` breaks ties by comparing names. `Unrouted` is server id 0,
  `Foreign` a server that is no node of the cluster.
* **Time.** A timestamp is `unset`, `running` (its delay has not passed) or
  `elapsed`; this is all that the comparisons in the code can tell. A separate
  action lets each delay pass, and the controller's copies age with the stored
  value. One assumption is made about real time: the cooldown (one minute by
  default) is longer than the step from the persisted attempt to the request
  it announces (`CooldownElapses` is not enabled in between).
* **Atomicity.** A reconcile is split wherever another actor can change what
  it has read: after reading the status, the provider and the nodes
  (`Observes`), after persisting an attempt, and while it waits for the
  provider. Decisions taken from the status alone (`Starts`, `ManualRetry`,
  the blocking writes) patch only fields that nobody else writes and are one
  step. Reading the status, finding the owner, the fence and the adoption of
  the owner are one step: the fields read before the provider call are
  written only by the controller itself. Node health is read when the decision
  is taken.
* **Agents** of `FoipSystem` are split into read, interface change and report,
  and have no work queue: an agent acts whenever its node has something to do.
  `AgentWakeups` is the reason why it may: there the agent sees only what its
  two lagging caches tell and runs only when its queue says so, and
  `NoWakeupLost` and `AgentCatchesUp` say that it comes to the same in the end.
  How far a cache lags is not carried over: an agent of `FoipSystem` reads the
  stored object, and the theorems about two nodes are about such agents. The
  time between its read and its write is arbitrary.
* **Probes.** In `FoipController` the answer of a gate is a free choice
  between pass and fail (`ProbesMayFail`). `ProbeGate` models how a gate comes
  to its answer: what one probe reports is a free choice there, a counter
  stops at its threshold, since it is only compared with it, and users edit
  composition and quorum between evaluations. The single worker of the
  controller makes two evaluations never overlap.
  With `CommitDegraded` a failed probe changes conditions only, so the policy
  behaves in this model like a passed probe.
* **Provider access** counts time in ticks. A request and its answer take at
  most `Latency` each, the client's thirty seconds of caution are `Margin`, and
  a task runs as long as it likes. Error classes are one kind of failure;
  `Retry-After` changes the length of a delay and no decision.
* **Left out** because nothing reads them back: conditions, events, metrics,
  `retryCount`, `recoveryAttempts`, `nextEligibleMutationAt`, reason texts.
  `lastError` is kept as the kind of stop (`halt`).
* **Deleted nodes** are not modelled; a node that lost its annotations is.
* **An update conflict** is `status # mem`. A change of the annotation or of
  the spec would also cause one; that outcome is a special case of `Abandon`,
  which may end any reconcile at any point without a write.

## 3. Runs

Twelve runs. Two nodes are enough for every transition the controller knows
(source, target, and the target of the next one being the old source); three
are needed to forget a source, and the run about that uses three.
Thresholds are 2 in the run about them and 1 elsewhere; a cleanup budget of 2
gives one retry and one exhaustion. Health is "ready" or "not ready": the
controller only uses the relations `isBetterNode` and `nodeAcceptable`, and
`BetterNode` covers the ranking itself with 13 health states. No symmetry is
used, since names are ordered.

| Run | Instance | Shows |
|---|---|---|
| `betternode` | 3 nodes, 13 states each, all orders, changes of nodes while the controller rests, a Ready condition that appears or vanishes included (189 000 states) | `PassComputesBetterNode`, `RestIsJustified`, `AnswerIsStable` |
| `handoff` | two flapping nodes, thresholds 2, budget 1, crashes, probe failures, HoldDualOwnership (573 000 states) | `TypeOK`, `TwoNodesInv`, `ImplementsHandoff`, `AddressStaysReachable`, `PreparedBeforeRouted`, `CommitFollowsRoute`, `FenceBlocksOnlyForeignMoves`, `TargetChangesAreSpaced`, `GatesNotSkipped` |
| `rollback` | a user who switches between RollbackProvider and ManualIntervention, one retry token, late tasks, out-of-band moves, every initial owner (606 000 states) | `CooldownRespected`, `RequestIsPersisted`, `HaltIsSticky`, `OverForGood` |
| `liveness` | one flapping node, every initial owner, late tasks, failing agents, a spec that is broken and repaired, until faults cease (66 000 states) | `HandoffEnds`, `SingleHolder` |
| `probes` | a pre-route, a continuous and a post-route probe, thresholds 1 to 3, every composition, conflicting suggestions, a quorum no gate can meet, evaluations that break off, halts and new starts (454 000 states) | `GateTypeOK`, `PassIsEarned`, `OpenIsDeserved`, `GateOpens` |
| `agent_wakeups` | one FailoverIp, two interfaces, two undelivered changes per watch, failures, restarts and reboots (377 000 states) | `NoWakeupLost`, `WakeupInv`, `AgentCatchesUp` |
| `provider_access` | two FailoverIps, tokens of 3 and 4 ticks with a margin of 3, a latency of 1, tasks that end in each way, a revoked refresh token, a device code of 5 ticks, requests of `netcup-auth` that fail (710 000 states) | `AccessTypeOK`, `TokensArriveFresh`, `TokensAreReused`, `OnlyFinishedIsVerified`, `GrantIsNotLost`, `EveryoneIsServed` |

**Bounds.** `MaxLag` bounds the changes a watch has not delivered; two let a
second change overtake the first in the other watch, and a broken watch skips
to the last content. One FailoverIp is enough for `AgentWakeups`, since its
queue keeps one entry per key and keys share only the caches and the worker;
the theorems hold for any number. In `ProviderAccess` a token lives no longer
than the margin allows or one tick longer, which makes both branches of the
expiry check happen while a task is polled. A device code of five ticks allows
a poll, a `slow_down` and a last poll that comes too late.

In the run `liveness` only node 1 changes, between ready and not ready, and
every owner is possible at first. With an owner outside the cluster, or none,
node 1 is routed to, fails, and node 2 is selected in the middle of the
handoff: the run contains the handoff that is stranded, which `HandoffEnds`
excepts. Without the exception TLC finds it violated. With both nodes flapping
`HandoffEnds` holds as well (checked with a cleanup budget of 1 and without
late tasks, failing agents and edits of the spec, over some 340 000 states and
too slowly for a run), and
`SingleHolder` does not, as described below.

`SlowTasks = FALSE` means that a task ends before the provider is read again.
It is the setting of the runs about the fence: with a task that ends after a
later selection, the fence compares the owner with the new target and stops
the transition for the operator's own earlier request. That is how the code
behaves, and `FenceBlocksOnlyForeignMoves` does not claim otherwise.

Deadlock is checked in every passing run.

### The abstract handoff

`Handoff` says in ninety lines what the operator is for: a node takes the
address before anything is asked for it; only a holder is asked for; a node
that is routed to, or is about to be, keeps the address; and an owner is
announced only when it holds the address, is routed to, and nothing is on its
way that would change that. `FoipSystem` implements it under the mapping

    holders <- ip      route <- owner      requests <- tasks
    announced <- status.target in phase Succeeded, else nobody

checked as the property `ImplementsHandoff` of the run `handoff` and proved
under the hypothesis `QuietPair` (`HandoffIsImplemented`). Each conjunct of
`QuietPair` is there because TLC finds the promise broken without it:

* two nodes: with three the run `three_nodes` shows an agent dropping the
  address of the node that is routed to;
* no retry tokens: after a commit nobody misses a report that an agent has
  overwritten, since a next handoff has to pass through a success first; a
  retry of a blocked cleanup starts one without it, and a list written from a
  read before the commit then passes for the report of the new target (with
  edits of the spec, after some four million states);
* no out-of-band moves: they route to nodes that hold nothing;
* no late tasks: a task that ends after a later selection routes to a node that
  may be giving the address up;
* no `RollbackProvider`: a rollback asks for the old node whether or not it
  still holds the address, and for whatever the source is by then.

What follows from the promise, that the routed node always holds the address
once it did, is proved about `Handoff` for every set of nodes
(`NeverUnreachable`), and about `FoipSystem` under `QuietPair` (`AddressStays`).

### Disagreements between code and documentation

Five runs end with a counterexample, each about a sentence of the repository.

| Run | Sentence | What the code does |
|---|---|---|
| `stored_status` | "ValidateStatus checks invariants that must hold whenever a status is stored" (`failoverip_state.go:47`) | an agent writes the whole list of owners from the copy it read (`nodeinterface_controller.go:113`); when the handoff succeeds in between, the stored `Succeeded` no longer names the target as its one owner, and `ValidateStatus` rejects it (`failoverip_state.go:66`). The next reconcile blocks it, and since source = target is not valid in `Blocked` either and validation precedes the retry branch, no token resumes it. Longer ways lead to the same end: the commit sets source = target, and a cleanup that runs out of budget (`controller.go:535`) or a new selection after success (`controller.go:261`) stores that in a phase in which it is invalid. `OverForGood`, checked by the run `rollback` and proved for every instance, says what follows: a handoff that has succeeded with source = target, or was stopped after its commit, is the last one of its FailoverIp; the next owner that fails is not replaced |
| `healthy_owner` | "If the current owner is still as healthy as the best candidate, the controller keeps the existing assignment" (`ARCHITECTURE.md:151`) | a new FailoverIp on a healthy owner is adopted and, once the agent has reported, blocked as `unexpected persisted phase "Selecting"` |
| `three_nodes` | "Cleanup only removes stale ownership after provider convergence and verification" (`ARCHITECTURE.md:183`) | a second selection overwrites the source; the node that is still routed to removes the address |
| `local_owners` | "LocalOwners is the set of nodes reporting local /32 ownership" (`failoverip_types.go:271`) | two agents patch the whole list from old copies; a removal is reported once, and lost |
| `rollback_fence` | "permits the one expected owner change made by a persisted rollback" (`provider_safety.go:71`) | after a crash in a rollback the main fence, which runs first, rejects that change |

**Further observations**, made with the models and without a run of their own.
A selection in a phase after routing keeps the phase for the new target, which
has been neither prepared nor routed to, and every reconcile then returns at
`controller.go:386`: the handoff is stranded for ever, which `HandoffEnds` excepts
by name (`Stranded`) and the run `liveness` reaches; it is the same assignment as in `three_nodes`
(`failoverip_state.go:23` says that "a persisted status must not be able to
skip a safety gate"). A probe that has passed and fails once within its
failure threshold stays passed, but the next *success* fails it, because the
failure has reset the count of successes (`probe_checks.go:121`, with the
thresholds of `config/samples/failoverprobe_tcp.yaml`; the test at
`probe_checks_test.go:46` is named
`...PreservesHealthyStateUntilFailureThreshold`). A retry of a degraded handoff
whose target is healthy ends like `healthy_owner`, blocked for the phase the
retry put it in (`README.md:180` promises "one controlled retry"). A handoff
can be stored as `Succeeded` while the old owner still holds the address,
because `localOwners` is cleared at selection and the old owner has nothing
new to report; `SingleHolder` shows that it does go away where only one node
flaps, as in the run `liveness`. When both nodes do, selections during a cleanup,
to the other node and back, make the stale node the source again: TLC finds a
success after which two nodes hold the address and no agent has anything left
to do (`ARCHITECTURE.md:118` promises to "keep cleaning stale owners until
exactly one node owns the `/32`"). With retries and
spec edits added to `handoff`, a long interleaving of lost `localOwners`
updates also violates `PreparedBeforeRouted`; it takes more than a million
states to reach. A candidate timer and a failure count that ran while the
address had no owner are used against an owner that is adopted meanwhile;
`TargetChangesAreSpaced` speaks of moves from one node to another and holds.
A single poll of `netcup-auth` that gets no answer ends the tool, although the
grant may still come (`main.go:149`), and a failing request for the user ID
discards the refresh token that was granted (`main.go:47`): both are exceptions
of `GrantIsNotLost`, which the run `provider_access` contains. Every reconcile makes
a client of its own (`controller.go:180`), so its first request asks for a token
even while the provider accepts that of the reconcile before;
`TokensAreReused` speaks of what happens within a reconcile. A post-route gate
whose probe asks for several successes in a row is closed when it is asked for
the first time, and under every policy but `CommitDegraded` recovery then halts
or rolls back the transition (`controller.go:491`), unless counters of earlier
evaluations happen to be left. `nodeChangePredicate` compares
each condition only with True and with Unknown (`controller.go:636`), so a Ready
condition that appears as False is filtered out, and the node is noticed only
with the next reconcile, up to a day later. The run `betternode` contains this;
`RestIsJustified` excepts it, and TLC finds it violated without the exception.

**From reading only.** Nothing compares `transitionID`, which is documented as
fencing stale reconciles. `CommitDegraded` still sets the `TrafficVerified`
condition to true. After `slow_down` the comment at `main.go:130` leaves the
extra delay to the caller, who sleeps for the same interval as before.
`Retry-After` becomes a `RequeueAfter`, but the patch made before it changes the
object, whose own watch event queues the key at once; `FindFailoverIP` and
`waitForTask` do not look at the header. A rollback verifies the owner with a
single `FindFailoverIP`, a handoff with several attempts. When the MAC
annotation moves to another interface the address stays on the old one, and
when a FailoverIp is deleted it stays where it is, since there is no
finalizer. The HTTP clients have no timeout.

### Fairness

`LiveSpec` assumes weak fairness of the controller's reconciles (every return
requeues, or a write of its own wakes it), of each running delay (time
passes), of each agent's steps (a write wakes it, an error is retried with
backoff) and of provider tasks (they end). It further assumes `FaultsCease`:
from some point on every step is a `CalmStep`, in which nothing crashes or
fails and nodes, route and users are quiet. It names the steps that remain,
not the faults that end, because a crash between two steps can leave the same
state as a reconcile that returns without a change. No fairness is assumed
for faults, probes, users or foreign moves. Without `FaultsCease`, an agent
that fails for ever, or nodes that flap for ever, delay a handoff for ever.

`ProbeGate` assumes that the controller asks for the gate that is due and that
a started evaluation goes on. A closed pre-route gate stays due: it is polled
(`preparationPollInterval`). A post-route gate is due again while the
transition is not over; when it is closed, the transition goes to recovery,
which halts it, or leaves it going under `CommitDegraded` and while a rollback
waits for the cooldown (`NextGates`). A halted transition asks for no gate, and
nothing is assumed about whether one starts over. For `GateOpens` it is assumed
that from some point on the probes succeed, no evaluation breaks off and nobody
edits the spec; it speaks of transitions that have not been halted.

`AgentWakeups` assumes that a watch delivers what was written, that a backoff
ends and that a reconcile goes on. `Takes` has strong fairness: the queue is
served in the order of arrival, so a key that is queued again and again is not
passed over for ever, although it is not queued all the time. From some point
on nobody else writes and nothing fails without a reason; a missing interface
remains a reason.

`ProviderAccess` assumes that time passes, that a request is answered or
fails, that a task ends in one of the provider's states, and, as above, strong
fairness of `Starts`. Without a deadline in the code, a server that accepts a
connection and never answers is outside of what the code can promise. Nothing
is assumed of the administrator or of the Secret: `EveryoneIsServed` holds
with a token that is never replaced.

## 4. Proofs

Eight modules of proofs, checked by TLAPS for every value of the constants that
meets the assumptions declared with them; TLC evaluates those assumptions in
every run.

| Module | Theorem | States |
|---|---|---|
| `FoipSystemProofs` | `Invariant` | `Spec => []Inv` |
| | `TypeCorrect` | `Spec => []TypeOK` |
| | `CooldownHolds` | `Spec => []CooldownRespected` |
| | `RequestHolds` | `Spec => []RequestIsPersisted` |
| | `GatesHold` | `Spec => GatesNotSkipped` |
| | `HaltHolds` | `Spec => HaltIsSticky` |
| | `MovesAreSpaced` | `Spec => TargetChangesAreSpaced` |
| `FoipRouteProofs` | `CommitHolds` | `~SlowTasks`: `Spec => []CommitFollowsRoute` |
| | `NoSecondHandoff` | `Spec => OverForGood` |
| | `FenceHolds` | `~SlowTasks`, no `RollbackProvider`, no node without a server id: `Spec => []FenceBlocksOnlyForeignMoves` |
| `TwoNodesProofs` | `TwoNodesInvariant` | `QuietPair`: `Spec => []TwoNodesInv` |
| | `PreparedHolds` | `QuietPair`: `Spec => []PreparedBeforeRouted` |
| | `HandoffIsImplemented` | `QuietPair`: `Spec => ImplementsHandoff` |
| | `AddressStays` | `QuietPair`: `Spec => AddressStaysReachable` |
| | `PathIsKept` | `QuietPair`: `Spec => PathKept` |
| `HandoffProofs` | `BackedAlways` | `Spec => []Backed` |
| | `NeverUnreachable` | `Spec => StaysReachable` |
| `BetterNodeProofs` | `PassIsCorrect` | `Spec => []PassComputesBetterNode` |
| | `RestIsAlwaysJustified` | `Spec => []RestIsJustified` |
| | `AnswerStaysStable` | `Spec => AnswerIsStable` |
| `AgentWakeupsProofs` | `WakeupInvAlways` | `Spec => []WakeupInv` |
| | `NoWakeupLostAlways` | `Spec => []NoWakeupLost` |
| `ProbeGateProofs` | `GateTypeCorrect` | `Spec => []GateTypeOK` |
| | `PassesAreEarned` | `Spec => []PassIsEarned` |
| | `OpenGatesAreDeserved` | `Spec => OpenIsDeserved` |
| `ProviderAccessProofs` | `AccessTypeHolds` | `Spec => []AccessTypeOK` |
| | `TokensArriveFreshAlways` | `Spec => []TokensArriveFresh` |
| | `TokensAreReusedAlways` | `Spec => []TokensAreReused` |
| | `OnlyFinishedIsVerifiedAlways` | `Spec => []OnlyFinishedIsVerified` |
| | `GrantIsNotLostAlways` | `Spec => []GrantIsNotLost` |

**The system.** None of its properties is inductive. `CooldownRespected` says
that no request was sent in this cooldown when one is about to be sent. What
the gate looks at is the controller's *copy* of a timestamp, so three things
are needed: the copy has the stored timestamp (`CopyIsCurrent`: it differs from
the stored status in `localOwners` at most, because agents write nothing
else), the stored timestamp covers every request sent (`SentIsPersisted`), and
the last patch of a rollback, which is computed from a base older than the
attempt, does not undo it (`BaseIsCurrent`). `TypeOK` bounds the cleanup
counter, which needs `CleanupBudget`: a spent budget is only found in phases
from which a cleanup cannot start without a new selection that resets it.
`ReconcileIsWorking` says that a reconcile past its first checks is about a
started, unhalted transition and that its request names a node; it makes the
step properties independent of what the copy contains. The proof has one lemma
per group of actions. Two of them, `PatchPreserves` and `DecisionPreserves`,
say once what a patch must respect for the invariant to survive it; the others
only show that their patch does. `MovesAreSpaced` adds `WindowIsCounted` (a
window that has run out has run out since the last move) and rests on
`CopyIsCurrent` again: every patch but that of a selection leaves target and
timer alone, and the selection closes the window it has waited for.

**The route.** What a reconcile does to the assignment (source, target, recorded
owner), to the phase and to the route is little, so `FoipRouteProofs` first
shows that every step is one of a few events, such as `Learns`, `Asks` or
`Settles` (`NextEvents`), and proves the rest about those. A commit is right
because no task is under way when a reconcile reads the owner and none starts
before it decides (`RouteIsKnown`), and nothing after the commit can take the
route away (`CommitIsFinal`). The fence is right because the recorded owner is
the provider's, or the provider has followed a request for the target
(`RecordIsOurs`): a target changes only when nothing is under way and the
record is current. Both fail with late tasks, and the second with a rollback
(run `rollback_fence`) and with a routed node whose server id disappears, since
the fence then cannot know the node it is to find.

`OverForGood` needs no hypothesis. A reconcile that gets past its first checks
has seen a valid status, and with source and target equal a selection is not
valid, so no reconcile works on one (`SelectionRests`; that the owner adopted by
such a reconcile is not the recorded source needs `SourceHasTarget`). What is
left after a success is then a selection that gets blocked, and after a halt
nothing (`OverStep`). Editing the status by hand and replacing the FailoverIp are
not in the model, and are the only ways on.

**Two nodes.** The controller believes `localOwners`, and each agent writes that
list as a whole from the list it has read. A stale list can therefore bring
back a node that has given the address up, and no property of the lists alone
is inductive. `TwoNodesInv` says when the lists must be right and why they are:
an agent gives the address up only after a commit, where it is neither routed
to nor asked for (`LeaversAreUnrouted`); as long as a handoff is on its way no
list, stored, copied or about to be written, names a node that is leaving or
has left (`OnItsWay => ListsAreSound`); and a handoff that follows a commit can
only come out of a selection made during the cleanup, which must succeed with
a list that names the owner alone before it goes anywhere (`OwnerHolds`,
`CleanupListsAreSound`, the second disjunct of `OnItsWay`). It is here that a
weakness of the code helps: while source and target are equal, the status of a
new selection is invalid, so that no other way leads on from a commit
(`CommitIsSettled`; run `stored_status`).
The mapping to `Handoff` then is one lemma per event, and
`PreparedBeforeRouted` is read off `RequestsAreHeld`.

**The abstract handoff.** `Backed` says that every request names a holder, that
nothing is asked for behind an announcement, and that an announcement is true.

**The ranking.** `worseThan` is a strict total order on any set of nodes
(`WorseThanOrders`, from the lexicographic order of the seven issues and the
tie-break by name), so the running best of a pass is the best of what it has
seen (`BestSoFar`), and at the end of a list in which every candidate appears
(`EnumerationIsComplete`) it is the best of all. `RestIsJustified` needs that a
change which `nodeChangePredicate` filters out is no change but for `Ready`
appearing as False or vanishing from there (`FilteredIsOnlyReady`), so that the
history variable `seen` still has what the ranking would be told without it
(`SeenIsNoticed`). The best node is left by no further pass
(`BestIsNotLeft`), which is `AnswerIsStable`.

**The agent.** `WakeupInv` has four parts: the undelivered changes lead from the
cache to the stored object (`FeedsLeadToStore`), what a running reconcile has
read is what the caches hold or its key is queued again (`ReadIsCurrent`), what
it has done so far is what that content asks for (`WorkIsDone`), and a key that
is neither queued nor worked on has been dealt with as the caches have it
(`RestIsObeyed`). With nothing undelivered the caches are the store, and
`NoWakeupLost` follows.

**The probe gate.** The counters tell no more than has been recorded
(`CountersAreTrue`): the newest recorded outcomes are as many successes as are
counted, and a probe that passes has, but for fewer failures than its
threshold, its successes behind it. The record is as long as a run that can
still decide a result, so nothing that matters is forgotten (`RunGrows`).
`OpenIsDeserved` adds to this what an evaluation knows half way
(`EvaluationIsWhole`): every probe of the gate it has passed has a result, and
the composition it carries along is the one that all of these suggest. At the
end nothing else can be asked for (`CompositionIsAgreed`), and results that add
up are no more than the passes earned (`AggregateIsDeserved`).

**Provider access.** `TokenInv` relates the ticks to the client's `tokenExpiry`
to the ticks for which the provider accepts the token that the client has, at
every place of a call; the assumption is that two latencies fit into the margin and into every
lifetime. `RouteInv` ties the stage of the worker to the state of the task, and
`FlowInv` the deadline of `netcup-auth` to the age of its device code, and says
that a flow fails with a code that is still good only when a request got no
proper answer.

**Only model-checked.** Liveness (`HandoffEnds`, `SingleHolder`, `GateOpens`,
`AgentCatchesUp`, `EveryoneIsServed`) needs fairness, which is outside the
prover's reach. Every other property of the passing runs is stated by a
theorem. The hypotheses of `CommitHolds`, `FenceHolds` and of the theorems
about two nodes are met by the run `handoff`; outside of them the properties do
not hold, as described with the abstract handoff and the fence.

## 5. Not modelled

* Execution of a probe: sockets, TLS, HTTP, name resolution, network policy.
  What a probe reports is a free choice.
* The controller's informer cache: its reads return the stored object. A late
  cache can make a reconcile repeat a decision, and within the cooldown even a
  request; modelling it would take apart the reads that precede the provider
  call, of which the proofs use that they are one step.
* The composition of `ProbeGate` with the controller: nothing ties a counter to
  the target a probe was run against, so `FoipController` leaves the answer of
  a gate open.
* Range checks of single fields of the spec and the lengths of backoffs: no
  decision of the models depends on them.
* Deletion of nodes.
* A node that reboots with a bare interface, in `FoipSystem`. A crash of an agent
  loses what it has read there and leaves the address where it is
  (`AgentFails`). A reboot that takes the address from the interface is a step of
  `AgentWakeups` (`Restarts`), whose agent puts it back; in between the
  node that is routed to does not hold the address, whatever the operator does,
  and its entry in `localOwners` is false, so that `PreparedBeforeRouted`,
  `ImplementsHandoff`, `AddressStaysReachable` and `OwnersAgree` are about nodes
  that keep what is configured on them. The controller has no way of noticing:
  it clears `localOwners` when it selects a target and otherwise only reads it.
* Metrics, tracing, log redaction and the deduplication of events: nothing
  reads them back.
* Packaging, generated code and the fake provider, which is a test double.

## 6. What could follow

1. A lagging cache for the controller in `ApiServer`, with `CooldownRespected`
   asked again.
2. Probe counters per target, if the code comes to have them, and the gate
   composed with the controller.
3. What remains of `ImplementsHandoff` on any number of nodes, once a second
   selection keeps the source of the first, and with retry tokens, once an agent
   reports itself without replacing the reports of others.
