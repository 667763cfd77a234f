----------------------------- MODULE BetterNode -----------------------------
(***************************************************************************)
(* betterNode of node_scoring.go as it runs: one pass over the candidates   *)
(* in the order the informer lists them, which is arbitrary, and then a     *)
(* comparison with the current node.  NodeScoring states the answer as a    *)
(* relation; FoipController uses the relation.  While the answer is to stay *)
(* the controller rests for a day, and only nodeChangePredicate wakes it.   *)
(***************************************************************************)
EXTENDS NodeScoring, SequencesExt

CONSTANTS
  Nodes,       \* the node names
  None,        \* "" or nil
  NodeStates   \* the states of nodes to be ranked

ASSUME BetterNodeAssumption ==
  /\ Nodes \subseteq Nat
  /\ IsFiniteSet(Nodes)
  /\ None \notin Nodes
  /\ NodeStates \subseteq NodeState

VARIABLES
  nodes,    \* the listed nodes
  list,     \* the candidates in list order
  current,  \* currentName
  i,        \* candidates compared so far
  best,     \* the best of them
  result,   \* the returned nodes: {} while running, {None} for nil
  asleep,   \* the caller has returned for defaultRequeueTime
  seen      \* history: the nodes as the last pass has listed them

vars == <<nodes, list, current, i, best, result, asleep, seen>>

Init ==
  /\ nodes \in [Nodes -> NodeStates]
  /\ list \in SetToSeqs(candidateNodes(nodes))
  /\ current \in Nodes \cup {None}
  /\ i = 0
  /\ best = None
  /\ result = {}
  /\ asleep = FALSE
  /\ seen = nodes

\* The first candidate is the best until a better one is met.
First ==
  /\ i = 0 /\ list # <<>>
  /\ best' = list[1]
  /\ i' = 1
  /\ UNCHANGED <<nodes, list, current, result, asleep, seen>>

\* Mutant: the health of the later node is not compared, only its name.
Compare_NameOnly ==
  /\ i \in 1 .. Len(list) - 1
  /\ best' = IF best > list[i + 1] THEN list[i + 1] ELSE best
  /\ i' = i + 1
  /\ UNCHANGED <<nodes, list, current, result, asleep, seen>>

Compare ==
  /\ i \in 1 .. Len(list) - 1
  /\ best' = IF ~worseThan(nodes, list[i + 1], best) /\ worseThan(nodes, best, list[i + 1])
               THEN list[i + 1] ELSE best
  /\ i' = i + 1
  /\ UNCHANGED <<nodes, list, current, result, asleep, seen>>

Returns ==
  /\ ~asleep /\ i = Len(list) /\ result = {}
  /\ result' =
       IF \/ list = <<>>
          \/ /\ Contains(list, current)
             /\ sameIssues(scoreNode(nodes[best]), scoreNode(nodes[current]))
         THEN {None} ELSE {best}
  /\ UNCHANGED <<nodes, list, current, i, best, asleep, seen>>

\* The next pass is over the same candidates in an order of its own.
BeginsPass(ns) ==
  /\ list' \in SetToSeqs(candidateNodes(ns))
  /\ i' = 0
  /\ best' = None
  /\ result' = {}
  /\ seen' = ns

\* The caller moves to the node it was given and asks again.
Repeats ==
  /\ result \notin {{}, {None}}
  /\ current' = best
  /\ BeginsPass(nodes)
  /\ UNCHANGED <<nodes, asleep>>

\* It stays, and returns with a requeue after defaultRequeueTime.
Rests ==
  /\ result = {None}
  /\ asleep' = TRUE
  /\ list' = <<>>
  /\ i' = 0
  /\ best' = None
  /\ result' = {}
  /\ UNCHANGED <<nodes, current, seen>>

\* A node reports any other state than before, also one with or without a
\* Ready condition.
NodeChanges(n, state) ==
  /\ asleep
  /\ nodes' = [nodes EXCEPT ![n] = state]
  /\ IF nodeChangePredicate(nodes[n], state)
       THEN asleep' = FALSE /\ BeginsPass(nodes')
       ELSE UNCHANGED <<list, i, best, result, asleep, seen>>
  /\ UNCHANGED current

Next ==
  \/ First \/ Compare \/ Returns \/ Repeats \/ Rests
  \/ \E n \in Nodes, state \in NodeStates : NodeChanges(n, state)

Spec == Init /\ [][Next]_vars

-----------------------------------------------------------------------------

\* The pass returns the strictly healthier candidate of the relation the
\* controller is modelled with, in whatever order the nodes are listed.
PassComputesBetterNode ==
  /\ \A n \in Nodes : result = {n} => isBetterNode(nodes, current, n)
  /\ result = {None} => noBetterNode(nodes, current)

\* Ready has appeared as False, or has vanished from False: nodeChangePredicate
\* compares it with True and with Unknown only.
ReadyMissed(n) == {seen[n].ready, nodes[n].ready} = {"False", "Absent"}

\* The nodes, but for the changes of Ready that were missed.
NoticedNodes ==
  [n \in Nodes |->
     IF ReadyMissed(n) THEN [nodes[n] EXCEPT !.ready = seen[n].ready] ELSE nodes[n]]

\* While the controller rests, what it would be answered is still to stay, but
\* for a Ready condition that has appeared as False or vanished from False.
\* That is the one change which the ranking can tell and nodeChangePredicate
\* filters out: the rest goes on although a better node may be there.
RestIsJustified == asleep => noBetterNode(NoticedNodes, current)

\* Following the answer once is enough: while nodes keep their health, the
\* node that was moved to is never left again (no flapping).
AnswerIsStable ==
  [][current' # current =>
       \A n \in Nodes : ~isBetterNode(nodes, current', n)]_vars

-----------------------------------------------------------------------------
(* The inductive invariant behind PassComputesBetterNode.                  *)

PassTypeOK ==
  /\ nodes \in [Nodes -> NodeStates]
  /\ current \in Nodes \cup {None}
  /\ asleep \in BOOLEAN
  /\ IF asleep THEN list = <<>> ELSE list \in SetToSeqs(candidateNodes(nodes))
  /\ i \in 0 .. Len(list)
  /\ result \in {{}, {None}, {best}}
  /\ seen \in [Nodes -> NodeStates]

\* best is the best of the candidates compared so far.
BestSoFar ==
  i > 0 =>
    /\ \E j \in 1 .. i : best = list[j]
    /\ \A j \in 1 .. i : list[j] # best => worseThan(nodes, list[j], best)

\* An answer is given at the end of the list, and a node is only answered if
\* there is one.
AnswerIsFinal ==
  /\ result # {} => i = Len(list) /\ ~asleep
  /\ result \notin {{}, {None}} => list # <<>>

SameButReady(old, new) == new = [old EXCEPT !.ready = new.ready]

\* A pass lists the nodes as they are.  Of what has changed since, a resting
\* controller has missed nothing but Ready, and stays by what it has seen.
SeenIsNoticed ==
  IF asleep
    THEN /\ noBetterNode(seen, current)
         /\ \A n \in Nodes :
              /\ SameButReady(seen[n], nodes[n])
              /\ nodes[n].ready = seen[n].ready \/ ReadyMissed(n)
    ELSE seen = nodes

PassInv ==
  PassTypeOK /\ BestSoFar /\ AnswerIsFinal /\ PassComputesBetterNode /\ SeenIsNoticed
=============================================================================
