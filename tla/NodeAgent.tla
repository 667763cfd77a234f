----------------------------- MODULE NodeAgent -----------------------------
(***************************************************************************)
(* The node-interface controller, one agent per node:                       *)
(* NodeInterfaceReconciler.Reconcile.  A reconcile reads the FailoverIp,    *)
(* then changes the interface, then patches LocalOwners from the list it    *)
(* had read; the status may change between any two of these steps.          *)
(***************************************************************************)
EXTENDS ApiServer

CONSTANT AgentsMayFail  \* an agent may crash or meet an error half way

ASSUME AgentAssumption == AgentsMayFail \in BOOLEAN

VARIABLES
  ip,     \* the nodes whose interface holds the address
  agent   \* per node: where its reconcile is and what it read

agentVars == <<ip, agent>>

AtRest == [pc |-> "rest", owns |-> FALSE, owners |-> {}]

AgentState ==
  [pc : {"rest", "apply", "report"}, owns : BOOLEAN, owners : SUBSET Nodes]

AgentTypeOK ==
  /\ ip \subseteq Nodes
  /\ agent \in [Nodes -> AgentState]

AgentInit ==
  /\ ip = {}
  /\ agent = [n \in Nodes |-> AtRest]

-----------------------------------------------------------------------------

\* Mutant: the agent of the source gives the address up at selection.
shouldOwn_TargetOnly(n) == n = status.target

\* The node is the source or the target of the transition.
shouldOwn(n) == n \in {status.target, status.source}

\* Mutant: only a node that is listed as an owner gives the address up.
HasWork_ListedOnly(n) ==
  IF shouldOwn(n) THEN n \notin ip \/ n \notin status.owners
  ELSE n \in ip \cap status.owners

\* The interface or the reported list is not what the status asks for.  A
\* removal is reported only when the address is still there to remove.
HasWork(n) ==
  IF shouldOwn(n) THEN n \notin ip \/ n \notin status.owners ELSE n \in ip

\* Get of the FailoverIp and of the node.  Without the MAC annotation the
\* reconcile fails and is retried; without work it changes nothing.
AgentReads(n) ==
  /\ agent[n].pc = "rest"
  /\ nodes[n].mac
  /\ HasWork(n)
  /\ agent' = [agent EXCEPT ![n] =
       [pc |-> "apply", owns |-> shouldOwn(n), owners |-> status.owners]]
  /\ UNCHANGED <<apiVars, ip>>

\* What is left after the interface is changed: a report of the new list, if
\* the list read differs from it.
ThenReports(n, new) ==
  agent' = [agent EXCEPT ![n] =
    IF new = @.owners THEN AtRest ELSE [@ EXCEPT !.pc = "report"]]

ensureIPAssigned(n) ==
  /\ agent[n].pc = "apply"
  /\ agent[n].owns
  /\ ip' = ip \cup {n}
  /\ ThenReports(n, agent[n].owners \cup {n})
  /\ UNCHANGED apiVars

ensureIPRemoved(n) ==
  /\ agent[n].pc = "apply"
  /\ ~agent[n].owns
  /\ ip' = ip \ {n}
  /\ ThenReports(n, agent[n].owners \ {n})
  /\ UNCHANGED apiVars

\* The list this agent writes: the one it read, with itself in or out.
ReportedOwners(n) ==
  IF agent[n].owns THEN agent[n].owners \cup {n} ELSE agent[n].owners \ {n}

AgentReports(n) ==
  /\ agent[n].pc = "report"
  /\ PatchStatus([status EXCEPT !.owners = agent[n].owners],
                 [status EXCEPT !.owners = ReportedOwners(n)])
  /\ agent' = [agent EXCEPT ![n] = AtRest]
  /\ UNCHANGED ip

\* A crash or an error: the reconcile is retried from the start.  The interface
\* keeps what it has; reboots that bare it are in AgentWakeups.
AgentFails(n) ==
  /\ AgentsMayFail
  /\ agent[n].pc # "rest"
  /\ agent' = [agent EXCEPT ![n] = AtRest]
  /\ UNCHANGED <<apiVars, ip>>

AgentStep(n) ==
  AgentReads(n) \/ ensureIPAssigned(n) \/ ensureIPRemoved(n) \/ AgentReports(n)
=============================================================================
