------------------------------ MODULE TwoNodes ------------------------------
(***************************************************************************)
(* Why the operator implements Handoff on two nodes: the inductive          *)
(* invariant behind ImplementsHandoff and PreparedBeforeRouted.             *)
(*                                                                         *)
(* LocalOwners is a list that each agent writes as a whole from the list it *)
(* has read before, so that a stale list may bring back a node that has     *)
(* given the address up.  With two nodes this cannot mislead the            *)
(* controller: a node gives the address up only after a commit, and after a *)
(* commit there is a list that names the target alone before the next       *)
(* target is chosen.                                                        *)
(***************************************************************************)
EXTENDS FoipSystem

\* There are at most two nodes, only the operator moves the address, the
\* provider ends a task before the next reconcile, routes are not rolled back,
\* and a halted transition stays halted.
QuietPair ==
  /\ \A a, b, c \in Nodes : a = b \/ b = c \/ a = c
  /\ ~OutOfBandMoves
  /\ ~SlowTasks
  /\ "RollbackProvider" \notin PoliciesInUse
  /\ Tokens = {}

\* The agent of x is at work to give the address up.
Leaving(x) == agent[x].pc # "rest" /\ ~agent[x].owns

\* A node that the lists should not name.
Doubtful(x) == x \notin ip \/ Leaving(x)

\* An agent that rests has nothing left of what it has read.
RestIsClean == \A x \in Nodes : agent[x].pc = "rest" => agent[x] = AtRest

\* A node gives the address up where it is neither routed to nor about to be.
LeaversAreUnrouted ==
  \A x \in Nodes : Leaving(x) =>
    /\ owner \in Nodes \ {x}
    /\ x \notin tasks
    /\ pc = "route" => dest # x

RequestsAreHeld == tasks \subseteq ip /\ (pc = "route" => dest \in ip)

ReportsAreHeld ==
  \A x \in Nodes : agent[x].pc = "report" /\ agent[x].owns => x \in ip

\* No list that is stored, copied or about to be written names a node that the
\* lists should not name.
ListsAreTrue ==
  \A x \in Nodes : Doubtful(x) =>
    /\ x \notin status.owners
    /\ pc = "decide" => x \notin mem.owners
    /\ \A y \in Nodes \ {x} : x \notin agent[y].owners

\* A node that is listed without y does not bring y back.
BringsNotBack(x, y) ==
  x \in status.owners /\ y \notin status.owners => y \notin agent[x].owners

\* An agent that reports its node beside y reports one that is listed nowhere.
ReportsNews(x, y) ==
  agent[x].owns /\ y \in agent[x].owners =>
    x \notin status.owners /\ x \notin agent[y].owners

ListsAreSound ==
  /\ ListsAreTrue
  /\ \A x, y \in Nodes : x # y => BringsNotBack(x, y) /\ ReportsNews(x, y)

\* A transition is on its way, or the stale owner of a handoff that was chosen
\* during the cleanup of the one before is known to be off the list.
OnItsWay ==
  \/ status.phase \notin Halted \cup {"CleaningStaleOwners"} /\ ~Committed
  \/ /\ status.phase = "CleaningStaleOwners" /\ ~Committed /\ pc = "decide"
     /\ owner = status.target /\ mem.owners = {status.target}

\* As long as there is no source only the first target has been asked for.
FirstTargetAlone ==
  status.source = None =>
    \A x \in Nodes :
      /\ x \in ip => x = status.target
      /\ agent[x].pc # "rest" => x = status.target /\ agent[x].owns

\* After a commit the route is settled and no new handoff starts, because the
\* status of a new selection is invalid while source and target are equal.
CommitIsSettled ==
  Committed =>
    /\ owner = status.target /\ tasks = {}
    /\ status.phase \in Halted \cup {"CleaningStaleOwners", "Succeeded", "Selecting"}
    /\ status.phase = "Selecting" => pc = "idle"

\* From the commit on the owner holds the address.
OwnerHolds ==
  status.phase \in {"CleaningStaleOwners", "Succeeded"} =>
    owner \in ip /\ tasks = {} /\ status.source # None

\* During the cleanup no stale list takes the owner for a newcomer.
CleanupListsAreSound ==
  status.phase = "CleaningStaleOwners" =>
    \A n \in Nodes \ {owner} : BringsNotBack(n, owner) /\ ReportsNews(owner, n)

\* A task is under way only while a reconcile waits for it or after it has
\* given up waiting, and every decision knows the owner.
TasksAreAwaited ==
  /\ tasks # {} =>
       pc \in {"idle", "wait"} /\ status.phase \in Halted \cup {"RoutingProvider"}
  /\ pc = "wait" => tasks \subseteq {dest}
  /\ pc \in {"decide", "route"} => owner = seen
  /\ pc \notin {"rbRoute", "rbWait"}

\* What two nodes, their lists, the route and the phase have to do with each
\* other, whatever crashes and however the agents' writes interleave.
TwoNodesInv ==
  /\ RestIsClean
  /\ LeaversAreUnrouted
  /\ RequestsAreHeld
  /\ ReportsAreHeld
  /\ OnItsWay => ListsAreSound
  /\ FirstTargetAlone
  /\ SourceHasTarget
  /\ CommitIsSettled
  /\ OwnerHolds
  /\ CleanupListsAreSound
  /\ TasksAreAwaited

\* Make before break, as packets see it: once the node that the provider routes
\* to holds the address, it or the node routed to after it always does, however
\* the agents' removals and the controller's requests interleave
\* (nodeinterface_controller.go:122, failoverip_controller.go:413).
AddressStaysReachable == [][(owner \in ip) => (owner' \in ip')]_vars
=============================================================================
