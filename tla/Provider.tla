------------------------------ MODULE Provider ------------------------------
(***************************************************************************)
(* The Netcup SCP API as internal/netcup/client.go uses it (external).      *)
(* RouteFailoverIP posts a request; the provider accepts it as an           *)
(* asynchronous task that later succeeds or fails, whether or not anybody   *)
(* still waits for it.  FindFailoverIP reads owner.                         *)
(***************************************************************************)
EXTENDS FailoverState

CONSTANTS
  InitialOwners,   \* where the address may be routed at first
  OutOfBandMoves,  \* someone else may reroute the address
  SlowTasks        \* a task may outlive the reconcile that started it

ASSUME ProviderAssumption ==
  /\ InitialOwners \subseteq Servers
  /\ OutOfBandMoves \in BOOLEAN
  /\ SlowTasks \in BOOLEAN

VARIABLES
  owner,  \* the server the address is routed to
  tasks,  \* the targets of accepted tasks that have not ended
  sent,   \* history: a request was sent in the current cooldown
  moved   \* history: the owner has changed out of band

providerVars == <<owner, tasks, sent, moved>>

ProviderTypeOK ==
  /\ owner \in Servers
  /\ tasks \subseteq Nodes
  /\ sent \in BOOLEAN
  /\ moved \in BOOLEAN

ProviderInit ==
  /\ owner \in InitialOwners
  /\ tasks = {}
  /\ sent = FALSE
  /\ moved = FALSE

\* The request is accepted (HTTP 202), whether or not the answer arrives.
AcceptRoute(server) ==
  /\ tasks' = tasks \cup {server}
  /\ sent' = TRUE
  /\ UNCHANGED <<owner, moved>>

\* The request is refused.
RefuseRoute ==
  /\ sent' = TRUE
  /\ UNCHANGED <<owner, tasks, moved>>

TaskFinishes(server) ==
  /\ server \in tasks
  /\ owner' = server
  /\ tasks' = tasks \ {server}
  /\ UNCHANGED <<sent, moved>>

TaskFails(server) ==
  /\ server \in tasks
  /\ tasks' = tasks \ {server}
  /\ UNCHANGED <<owner, sent, moved>>

MoveOutOfBand(server) ==
  /\ OutOfBandMoves
  /\ server # owner
  /\ owner' = server
  /\ moved' = TRUE
  /\ UNCHANGED <<tasks, sent>>
=============================================================================
