---------------------------- MODULE NodeScoring ----------------------------
(***************************************************************************)
(* Health ranking of nodes: node_scoring.go and nodeAcceptable of           *)
(* selection_policy.go.  A node is a record of its two annotations, its     *)
(* conditions and spec.unschedulable.                                       *)
(***************************************************************************)
EXTENDS Naturals, Sequences

\* Ready is "Absent" when the node reports no Ready condition.
NodeState ==
  [mac : BOOLEAN, serverID : BOOLEAN, ready : {"True", "False", "Unknown", "Absent"},
   network : BOOLEAN, unschedulable : BOOLEAN,
   pid : BOOLEAN, memory : BOOLEAN, disk : BOOLEAN]

\* The issues of a node, the most severe first.
scoreNode(node) ==
  <<node.network, node.ready = "False", node.ready = "Unknown",
    node.unschedulable, node.pid, node.memory, node.disk>>

sameIssues(s, t) == s = t

\* worseThan without its tie-break: on the first field that differs, s has
\* the issue.
moreSevere(s, t) ==
  \E i \in 1 .. Len(s) :
    /\ s[i] /\ ~t[i]
    /\ \A j \in 1 .. i - 1 : s[j] = t[j]

worseThan(nodes, m, n) ==
  LET s == scoreNode(nodes[m])
      t == scoreNode(nodes[n])
  IN IF sameIssues(s, t) THEN m > n ELSE moreSevere(s, t)

candidateNodes(nodes) ==
  {n \in DOMAIN nodes : nodes[n].mac /\ nodes[n].serverID}

\* Mutant: of Ready only True is compared.
nodeChangePredicate_ReadyTrue(old, new) ==
  \/ old.unschedulable # new.unschedulable
  \/ old.mac # new.mac
  \/ old.serverID # new.serverID
  \/ \E c \in {"network", "pid", "memory", "disk"} : old[c] # new[c]
  \/ (old.ready = "True") # (new.ready = "True")

\* The node updates that wake the controller.
nodeChangePredicate(old, new) ==
  \/ old.unschedulable # new.unschedulable
  \/ old.mac # new.mac
  \/ old.serverID # new.serverID
  \/ \E c \in {"network", "pid", "memory", "disk"} : old[c] # new[c]
  \/ \E r \in {"True", "Unknown"} : (old.ready = r) # (new.ready = r)

nodeAcceptable(node) ==
  /\ node.ready = "True"
  /\ ~node.unschedulable /\ ~node.network
  /\ ~node.pid /\ ~node.memory /\ ~node.disk

\* Mutant: the best candidate is offered even to itself.
isBetterNode_NotStrict(nodes, current, b) ==
  LET candidates == candidateNodes(nodes)
  IN /\ b \in candidates
     /\ \A n \in candidates \ {b} : worseThan(nodes, n, b)

\* betterNode as a relation: b is the healthiest candidate and strictly
\* healthier than the current node, or there is no current candidate.
isBetterNode(nodes, current, b) ==
  LET candidates == candidateNodes(nodes)
  IN /\ b \in candidates
     /\ current \in candidates =>
          ~sameIssues(scoreNode(nodes[b]), scoreNode(nodes[current]))
     /\ \A n \in candidates \ {b} : worseThan(nodes, n, b)

\* betterNode returns nil.
noBetterNode(nodes, current) ==
  \A b \in DOMAIN nodes : ~isBetterNode(nodes, current, b)
=============================================================================
