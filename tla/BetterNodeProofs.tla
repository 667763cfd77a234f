-------------------------- MODULE BetterNodeProofs --------------------------
(***************************************************************************)
(* betterNode returns the node the relation isBetterNode names, and the     *)
(* controller sleeps through no change that matters but one of Ready, for   *)
(* every set of nodes and every order of the list.                          *)
(***************************************************************************)
EXTENDS BetterNode, FiniteSetTheorems, FunctionTheorems, TLAPS

-----------------------------------------------------------------------------
(* The ranking.                                                            *)

\* The issues of a node as seven Booleans.
Issues == {q \in Seq(BOOLEAN) : Len(q) = 7}

\* A score has one Boolean for each of the seven issues.
LEMMA ScoreType ==
  ASSUME NEW node \in NodeState
  PROVE  scoreNode(node) \in Issues
<1> DEFINE s == scoreNode(node)
<1>1. /\ node.network \in BOOLEAN /\ node.unschedulable \in BOOLEAN
      /\ node.pid \in BOOLEAN /\ node.memory \in BOOLEAN /\ node.disk \in BOOLEAN
      /\ (node.ready = "False") \in BOOLEAN /\ (node.ready = "Unknown") \in BOOLEAN
  BY DEF NodeState
<1>2. Len(s) = 7 /\ s \in Seq(BOOLEAN)
  BY <1>1 DEF scoreNode
<1> QED
  BY <1>2 DEF Issues

\* Of two scores that differ, one is worse: the first field that differs
\* decides.
LEMMA SeverityIsTotal ==
  ASSUME NEW s \in Issues, NEW t \in Issues, s # t
  PROVE  moreSevere(s, t) \/ moreSevere(t, s)
<1> DEFINE differs(k) == k \in 1 .. 7 /\ s[k] # t[k] /\ \A j \in 1 .. k - 1 : s[j] = t[j]
<1>1. PICK k : differs(k)
  <2>1. \E k \in 1 .. 7 : s[k] # t[k]
    BY DEF Issues
  <2>2. s[1] = t[1] /\ s[2] = t[2] /\ s[3] = t[3] /\ s[4] = t[4] /\ s[5] = t[5] /\ s[6] = t[6]
           => differs(7)
    BY <2>1
  <2> QED
    BY <2>1, <2>2
<1>2. s[k] \in BOOLEAN /\ t[k] \in BOOLEAN
  BY <1>1 DEF Issues
<1> QED
  BY <1>1, <1>2 DEF moreSevere, Issues

\* The lexicographic order of the issues is transitive.
LEMMA SeverityIsTransitive ==
  ASSUME NEW r \in Issues, NEW s \in Issues, NEW t \in Issues,
         moreSevere(r, s), moreSevere(s, t)
  PROVE  moreSevere(r, t)
<1>1. PICK m \in 1 .. 7 : r[m] /\ ~s[m] /\ \A j \in 1 .. m - 1 : r[j] = s[j]
  BY DEF moreSevere, Issues
<1>2. PICK k \in 1 .. 7 : s[k] /\ ~t[k] /\ \A j \in 1 .. k - 1 : s[j] = t[j]
  BY DEF moreSevere, Issues
<1>3. CASE m < k
  <2>1. ~t[m] /\ \A j \in 1 .. m - 1 : r[j] = t[j]
    BY <1>1, <1>2, <1>3
  <2> QED
    BY <1>1, <2>1 DEF moreSevere, Issues
<1>4. CASE k < m
  <2>1. r[k] /\ \A j \in 1 .. k - 1 : r[j] = t[j]
    BY <1>1, <1>2, <1>4
  <2> QED
    BY <1>2, <2>1 DEF moreSevere, Issues
<1>5. m # k
  BY <1>1, <1>2
<1> QED
  BY <1>3, <1>4, <1>5

\* No score is more severe than itself.
LEMMA SeverityIsAsymmetric ==
  ASSUME NEW s \in Issues, NEW t \in Issues, moreSevere(s, t)
  PROVE  s # t
BY DEF moreSevere, Issues

\* worseThan orders the nodes strictly and totally.
LEMMA WorseThanOrders ==
  ASSUME NEW ns \in [Nodes -> NodeStates]
  PROVE  /\ \A m, n \in Nodes : m # n => worseThan(ns, m, n) \/ worseThan(ns, n, m)
         /\ \A m, n \in Nodes : ~(worseThan(ns, m, n) /\ worseThan(ns, n, m))
         /\ \A m, n, o \in Nodes :
              worseThan(ns, m, n) /\ worseThan(ns, n, o) => worseThan(ns, m, o)
<1> DEFINE score(n) == scoreNode(ns[n])
<1>1. \A n \in Nodes : n \in Nat /\ score(n) \in Issues
  BY ScoreType, BetterNodeAssumption
<1> HIDE DEF score
<1>2. ASSUME NEW m \in Nodes, NEW n \in Nodes
      PROVE  worseThan(ns, m, n)
               <=> IF score(m) = score(n) THEN m > n ELSE moreSevere(score(m), score(n))
  BY DEF worseThan, sameIssues, score
<1>3. ASSUME NEW m \in Nodes, NEW n \in Nodes, m # n
      PROVE  worseThan(ns, m, n) \/ worseThan(ns, n, m)
  BY <1>1, <1>2, <1>3, SeverityIsTotal
<1>4. ASSUME NEW m \in Nodes, NEW n \in Nodes, worseThan(ns, m, n), worseThan(ns, n, m)
      PROVE  FALSE
  <2>1. CASE score(m) = score(n)
    BY <1>1, <1>2, <1>4, <2>1
  <2>2. CASE score(m) # score(n)
    <3>1. moreSevere(score(m), score(m))
      BY <1>1, <1>2, <1>4, <2>2, SeverityIsTransitive
    <3> QED
      BY <1>1, <3>1, SeverityIsAsymmetric
  <2> QED
    BY <2>1, <2>2
<1>5. ASSUME NEW m \in Nodes, NEW n \in Nodes, NEW o \in Nodes,
             worseThan(ns, m, n), worseThan(ns, n, o)
      PROVE  worseThan(ns, m, o)
  <2>1. CASE score(m) = score(n)
    BY <1>1, <1>2, <1>5, <2>1
  <2>2. CASE score(n) = score(o)
    BY <1>1, <1>2, <1>5, <2>2
  <2>3. CASE score(m) # score(n) /\ score(n) # score(o)
    <3>1. moreSevere(score(m), score(o))
      BY <1>1, <1>2, <1>5, <2>3, SeverityIsTransitive
    <3> QED
      BY <1>1, <1>2, <3>1, SeverityIsAsymmetric
  <2> QED
    BY <2>1, <2>2, <2>3
<1> QED
  BY <1>3, <1>4, <1>5

-----------------------------------------------------------------------------
(* The list.                                                               *)

\* An enumeration of a finite set is a sequence in which every element
\* appears.
LEMMA EnumerationIsComplete ==
  ASSUME NEW S, IsFiniteSet(S), NEW q \in SetToSeqs(S)
  PROVE  /\ q \in Seq(S)
         /\ Len(q) = Cardinality(S) /\ Len(q) \in Nat
         /\ \A x \in S : \E k \in 1 .. Len(q) : q[k] = x
<1> DEFINE D == 1 .. Cardinality(S)
<1>1. Cardinality(S) \in Nat
  BY FS_CardinalityType
<1>2. q \in [D -> S] /\ \A a, b \in D : q[a] = q[b] => a = b
  BY DEF SetToSeqs
<1>3. q \in Seq(S) /\ Len(q) = Cardinality(S)
  BY <1>1, <1>2
<1>4. q \in Injection(D, S)
  BY <1>2, Fun_IsInj
<1>5. Cardinality(D) = Cardinality(S)
  BY <1>1, FS_Interval
<1>6. q \in Surjection(D, S)
  BY <1>4, <1>5, FS_Injection
<1> QED
  BY <1>1, <1>3, <1>6, Fun_SurjectionProperties

\* A list of the candidates names all of them and nothing else.
LEMMA ListIsComplete ==
  ASSUME NEW ns \in [Nodes -> NodeStates], NEW q \in SetToSeqs(candidateNodes(ns))
  PROVE  /\ q \in Seq(Nodes) /\ Len(q) \in Nat
         /\ \A k \in 1 .. Len(q) : q[k] \in candidateNodes(ns)
         /\ \A n \in candidateNodes(ns) : \E k \in 1 .. Len(q) : q[k] = n
         /\ q = <<>> <=> candidateNodes(ns) = {}
<1>1. candidateNodes(ns) \subseteq Nodes
  BY DEF candidateNodes
<1>2. IsFiniteSet(candidateNodes(ns))
  BY <1>1, FS_Subset, BetterNodeAssumption
<1>3. q \in Seq(candidateNodes(ns))
  BY <1>2, EnumerationIsComplete
<1> QED
  BY <1>1, <1>2, <1>3, EnumerationIsComplete

-----------------------------------------------------------------------------
(* The pass.                                                               *)

\* Answers can be told apart.
LEMMA AnswersDiffer == (\A x : {x} # {}) /\ (\A x, y : {x} = {y} => x = y)
OBVIOUS

\* A pass that has not begun has compared nothing.
LEMMA InitPass == Init => PassInv
<1> SUFFICES ASSUME Init PROVE PassInv
  OBVIOUS
<1>1. list \in Seq(Nodes) /\ Len(list) \in Nat
  BY ListIsComplete DEF Init
<1>2. PassTypeOK
  <2>1. i \in 0 .. Len(list)
    BY <1>1 DEF Init
  <2>2. result \in {{}, {None}, {best}}
    BY DEF Init
  <2>3. IF asleep THEN list = <<>> ELSE list \in SetToSeqs(candidateNodes(nodes))
    BY Zenon DEF Init
  <2>4. /\ nodes \in [Nodes -> NodeStates] /\ current \in Nodes \cup {None}
        /\ asleep \in BOOLEAN /\ seen \in [Nodes -> NodeStates]
    BY Zenon DEF Init
  <2> QED
    BY <2>1, <2>2, <2>3, <2>4, Zenon DEF PassTypeOK
<1>3. BestSoFar /\ AnswerIsFinal /\ SeenIsNoticed
  BY DEF Init, BestSoFar, AnswerIsFinal, SeenIsNoticed
<1>4. PassComputesBetterNode
  BY AnswersDiffer DEF Init, PassComputesBetterNode
<1> QED
  BY <1>2, <1>3, <1>4 DEF PassInv

\* First and Compare leave nodes, current and result alone, so only what they
\* say about best is of interest.
LEMMA ComparingKeeps ==
  ASSUME PassInv, First \/ Compare
  PROVE  PassInv'
<1> USE DEF PassInv, PassTypeOK
<1>1. ~asleep /\ list \in Seq(Nodes) /\ Len(list) \in Nat
  BY ListIsComplete DEF First, Compare
<1>2. result = {}
  BY <1>1 DEF First, Compare, AnswerIsFinal
<1>3. BestSoFar' /\ i' \in 0 .. Len(list)
  <2>1. CASE First
    BY <1>1, <2>1 DEF First, BestSoFar
  <2>2. CASE Compare
    <3> DEFINE new == list[i + 1]
    <3>1. i \in 1 .. Len(list) - 1 /\ i' = i + 1 /\ list' = list /\ nodes' = nodes
      BY <2>2 DEF Compare
    <3>2. new \in Nodes /\ best \in Nodes /\ \A j \in 1 .. i : list[j] \in Nodes
      BY <1>1, <3>1 DEF BestSoFar
    <3>3. CASE best' = new /\ worseThan(nodes, best, new)
      <4>1. \A j \in 1 .. i : worseThan(nodes, list[j], new)
        BY <3>1, <3>2, <3>3, WorseThanOrders DEF BestSoFar
      <4> QED
        BY <3>1, <3>3, <4>1 DEF BestSoFar
    <3>4. CASE best' = best /\ (new = best \/ worseThan(nodes, new, best))
      BY <3>1, <3>4 DEF BestSoFar
    <3>5. \/ best' = new /\ worseThan(nodes, best, new)
          \/ best' = best /\ (new = best \/ worseThan(nodes, new, best))
      BY <2>2, <3>2, WorseThanOrders DEF Compare
    <3> QED
      BY <3>3, <3>4, <3>5
  <2> QED
    BY <2>1, <2>2
<1>4. UNCHANGED <<nodes, list, current, result, asleep, seen>>
  BY DEF First, Compare
<1> QED
  BY <1>1, <1>2, <1>3, <1>4, AnswersDiffer
  DEF AnswerIsFinal, PassComputesBetterNode, SeenIsNoticed

\* At the end of the list every other candidate is worse than best.
LEMMA ReturnsKeeps ==
  ASSUME PassInv, Returns
  PROVE  PassInv'
<1> USE DEF PassInv, PassTypeOK
<1> DEFINE candidates == candidateNodes(nodes)
<1>1. /\ ~asleep /\ i = Len(list) /\ result = {}
      /\ UNCHANGED <<nodes, list, current, i, best, asleep, seen>>
  BY DEF Returns
<1>2. /\ list \in Seq(Nodes) /\ Len(list) \in Nat
      /\ \A k \in 1 .. Len(list) : list[k] \in candidates
      /\ \A n \in candidates : \E k \in 1 .. Len(list) : list[k] = n
      /\ list = <<>> <=> candidates = {}
  BY <1>1, ListIsComplete
<1>3. Contains(list, current) <=> current \in candidates
  BY <1>2 DEF Contains
<1>4. candidates \subseteq Nodes
  BY DEF candidateNodes
<1>5. list # <<>> =>
        best \in candidates /\ \A n \in candidates \ {best} : worseThan(nodes, n, best)
  <2> SUFFICES ASSUME list # <<>>
               PROVE  best \in candidates /\ \A n \in candidates \ {best} : worseThan(nodes, n, best)
    OBVIOUS
  <2>1. i > 0
    BY <1>1, <1>2
  <2> QED
    BY <1>1, <1>2, <2>1 DEF BestSoFar
<1>6. CASE list = <<>>
  <2>1. result' = {None} /\ noBetterNode(nodes, current)
    BY <1>2, <1>6 DEF Returns, noBetterNode, isBetterNode
  <2> QED
    BY <1>1, <1>2, <2>1, BetterNodeAssumption
    DEF BestSoFar, AnswerIsFinal, PassComputesBetterNode, SeenIsNoticed
<1>7. CASE list # <<>> /\ current \in candidates
             /\ sameIssues(scoreNode(nodes[best]), scoreNode(nodes[current]))
  <2>1. result' = {None}
    BY <1>3, <1>7 DEF Returns
  <2>2. ASSUME NEW b \in Nodes, isBetterNode(nodes, current, b)
        PROVE  FALSE
    <3>1. b # best
      BY <1>7, <2>2 DEF isBetterNode
    <3>2. worseThan(nodes, best, b) /\ worseThan(nodes, b, best)
      BY <1>5, <1>7, <2>2, <3>1 DEF isBetterNode
    <3> QED
      BY <1>4, <1>5, <1>7, <3>2, WorseThanOrders
  <2>3. noBetterNode(nodes, current)
    BY <2>2 DEF noBetterNode
  <2> QED
    BY <1>1, <1>2, <2>1, <2>3, BetterNodeAssumption
    DEF BestSoFar, AnswerIsFinal, PassComputesBetterNode, SeenIsNoticed
<1>8. CASE list # <<>> /\ ~(current \in candidates
             /\ sameIssues(scoreNode(nodes[best]), scoreNode(nodes[current])))
  <2>1. result' = {best}
    BY <1>3, <1>8 DEF Returns
  <2>2. isBetterNode(nodes, current, best)
    BY <1>5, <1>8 DEF isBetterNode
  <2>3. best \in Nodes /\ best # None
    BY <1>4, <1>5, <1>8, BetterNodeAssumption
  <2>4. PassComputesBetterNode'
    BY <1>1, <2>1, <2>2, <2>3, AnswersDiffer DEF PassComputesBetterNode
  <2> QED
    BY <1>1, <1>2, <1>8, <2>1, <2>4, AnswersDiffer
    DEF BestSoFar, AnswerIsFinal, SeenIsNoticed
<1> QED
  BY <1>6, <1>7, <1>8

\* A pass that has just begun says nothing yet.
LEMMA BeginningKeeps ==
  ASSUME BeginsPass(nodes'), nodes' \in [Nodes -> NodeStates],
         current' \in Nodes \cup {None}, asleep' = FALSE
  PROVE  PassInv'
<1>1. list' \in SetToSeqs(candidateNodes(nodes')) /\ Len(list') \in Nat
  BY ListIsComplete DEF BeginsPass
<1>2. PassTypeOK'
  <2>1. i' \in 0 .. Len(list')
    BY <1>1 DEF BeginsPass
  <2>2. result' \in {{}, {None}, {best'}}
    BY DEF BeginsPass
  <2>3. IF asleep' THEN list' = <<>> ELSE list' \in SetToSeqs(candidateNodes(nodes'))
    BY <1>1, Zenon
  <2>4. asleep' \in BOOLEAN /\ seen' \in [Nodes -> NodeStates]
    BY DEF BeginsPass
  <2> QED
    BY <2>1, <2>2, <2>3, <2>4, Zenon DEF PassTypeOK
<1>3. BestSoFar' /\ AnswerIsFinal' /\ SeenIsNoticed'
  BY DEF BeginsPass, BestSoFar, AnswerIsFinal, SeenIsNoticed
<1>4. PassComputesBetterNode'
  BY AnswersDiffer DEF BeginsPass, PassComputesBetterNode
<1> QED
  BY <1>2, <1>3, <1>4 DEF PassInv

\* A pass that starts again with the node it has chosen.
LEMMA RepeatsKeeps ==
  ASSUME PassInv, Repeats
  PROVE  PassInv'
<1> USE DEF PassInv, PassTypeOK
<1>1. ~asleep /\ i = Len(list) /\ list # <<>>
  BY DEF Repeats, AnswerIsFinal
<1>2. list \in Seq(Nodes) /\ Len(list) \in Nat
  BY <1>1, ListIsComplete
<1>3. best \in Nodes
  BY <1>1, <1>2 DEF BestSoFar
<1> QED
  BY <1>1, <1>3, BeginningKeeps DEF Repeats

\* What SameButReady says, field by field.
LEMMA SameButReadyIs ==
  ASSUME NEW a \in NodeState, NEW b \in NodeState
  PROVE  /\ SameButReady(a, a)
         /\ SameButReady(a, b) =>
              /\ [b EXCEPT !.ready = a.ready] = a
              /\ b.ready = a.ready => b = a
              /\ \A c \in NodeState : SameButReady(b, c) => SameButReady(a, c)
BY DEF SameButReady, NodeState

\* The controller rests only on an answer that names no better node.
LEMMA RestsKeeps ==
  ASSUME PassInv, Rests
  PROVE  PassInv'
<1>1. noBetterNode(nodes, current) /\ ~asleep /\ seen = nodes
  BY BetterNodeAssumption
  DEF Rests, PassInv, PassComputesBetterNode, AnswerIsFinal, SeenIsNoticed
<1>2. nodes' = nodes /\ seen' = seen /\ current' = current /\ asleep'
  BY DEF Rests
<1>3. SeenIsNoticed'
  <2>1. \A n \in Nodes : nodes[n] \in NodeState
    BY BetterNodeAssumption DEF PassInv, PassTypeOK
  <2>2. \A n \in Nodes : SameButReady(nodes[n], nodes[n])
    BY <2>1, SameButReadyIs
  <2> QED
    BY <1>1, <1>2, <2>2 DEF SeenIsNoticed
<1> QED
  BY <1>1, <1>2, <1>3, BetterNodeAssumption
  DEF Rests, PassInv, PassTypeOK, BestSoFar, AnswerIsFinal, PassComputesBetterNode, noBetterNode

\* nodeChangePredicate filters no change that a node state can tell, but for
\* Ready between False and none.
LEMMA FilteredIsOnlyReady ==
  ASSUME NEW old \in NodeState, NEW new \in NodeState, ~nodeChangePredicate(old, new)
  PROVE  /\ SameButReady(old, new)
         /\ new.ready = old.ready \/ {old.ready, new.ready} = {"False", "Absent"}
<1>1. /\ new.unschedulable = old.unschedulable /\ new.mac = old.mac
      /\ new.serverID = old.serverID
      /\ new["network"] = old["network"] /\ new["pid"] = old["pid"]
      /\ new["memory"] = old["memory"] /\ new["disk"] = old["disk"]
  BY DEF nodeChangePredicate
<1>2. new.ready = old.ready \/ {old.ready, new.ready} = {"False", "Absent"}
  BY DEF nodeChangePredicate, NodeState
<1> QED
  BY <1>1, <1>2 DEF NodeState, SameButReady

\* What nodeChangePredicate filters out changes nothing but Ready.
LEMMA NodeChangesKeeps ==
  ASSUME PassInv, NEW n \in Nodes, NEW state \in NodeStates, NodeChanges(n, state)
  PROVE  PassInv'
<1>1. nodes' \in [Nodes -> NodeStates] /\ current' \in Nodes \cup {None}
  BY DEF NodeChanges, PassInv, PassTypeOK
<1>2. CASE nodeChangePredicate(nodes[n], state)
  BY <1>1, <1>2, BeginningKeeps DEF NodeChanges
<1>3. CASE ~nodeChangePredicate(nodes[n], state)
  <2>1. /\ asleep /\ nodes' = [nodes EXCEPT ![n] = state]
        /\ UNCHANGED <<list, current, i, best, result, asleep, seen>>
    BY <1>3 DEF NodeChanges
  <2>2. /\ nodes \in [Nodes -> NodeStates] /\ seen \in [Nodes -> NodeStates]
        /\ \A m \in Nodes : nodes[m] \in NodeState /\ seen[m] \in NodeState
    BY BetterNodeAssumption DEF PassInv, PassTypeOK
  <2>3. /\ SameButReady(nodes[n], state)
        /\ state.ready = nodes[n].ready \/ {nodes[n].ready, state.ready} = {"False", "Absent"}
    BY <1>3, <2>2, FilteredIsOnlyReady, BetterNodeAssumption
  <2>4. ASSUME NEW m \in Nodes
        PROVE  /\ SameButReady(seen[m], nodes'[m])
               /\ nodes'[m].ready = seen[m].ready
                    \/ {seen[m].ready, nodes'[m].ready} = {"False", "Absent"}
    <3>1. /\ SameButReady(seen[m], nodes[m])
          /\ nodes[m].ready = seen[m].ready
               \/ {seen[m].ready, nodes[m].ready} = {"False", "Absent"}
      BY <2>1 DEF PassInv, SeenIsNoticed, ReadyMissed
    <3>2. CASE m # n
      <4>1. nodes'[m] = nodes[m]
        BY <2>1, <2>2, <3>2
      <4> QED
        BY <3>1, <4>1
    <3>3. CASE m = n
      <4>1. nodes'[m] = state
        BY <2>1, <2>2, <3>3
      <4>2. SameButReady(seen[m], state)
        BY <2>2, <2>3, <3>1, <3>3, SameButReadyIs, BetterNodeAssumption
      <4>3. state.ready = seen[m].ready \/ {seen[m].ready, state.ready} = {"False", "Absent"}
        BY <2>3, <3>1, <3>3
      <4> QED
        BY <4>1, <4>2, <4>3
    <3> QED
      BY <3>2, <3>3
  <2>5. SeenIsNoticed'
    <3>1. noBetterNode(seen', current')
      BY <2>1 DEF PassInv, SeenIsNoticed
    <3> QED
      BY <2>1, <2>4, <3>1 DEF SeenIsNoticed, ReadyMissed
  <2>6. list = <<>> /\ i = 0 /\ result = {}
    BY <2>1 DEF PassInv, PassTypeOK, AnswerIsFinal
  <2>7. PassTypeOK'
    BY <1>1, <2>1 DEF PassInv, PassTypeOK
  <2>8. BestSoFar' /\ AnswerIsFinal'
    BY <2>1, <2>6 DEF BestSoFar, AnswerIsFinal
  <2>9. PassComputesBetterNode'
    BY <2>1, <2>6, AnswersDiffer DEF PassComputesBetterNode
  <2> QED
    BY <2>5, <2>7, <2>8, <2>9 DEF PassInv
<1> QED
  BY <1>2, <1>3

\* Every step of the pass and of the rest after it keeps the invariant.
LEMMA StepKeepsPassInv ==
  ASSUME PassInv, [Next]_vars
  PROVE  PassInv'
<1>1. CASE First \/ Compare
  BY <1>1, ComparingKeeps
<1>2. CASE Returns
  BY <1>2, ReturnsKeeps
<1>3. CASE Repeats
  BY <1>3, RepeatsKeeps
<1>4. CASE Rests
  BY <1>4, RestsKeeps
<1>5. CASE \E n \in Nodes, state \in NodeStates : NodeChanges(n, state)
  BY <1>5, NodeChangesKeeps
<1>6. CASE UNCHANGED vars
  BY <1>6 DEF vars, PassInv, PassTypeOK, BestSoFar, AnswerIsFinal, PassComputesBetterNode,
              SeenIsNoticed, ReadyMissed
<1> QED
  BY <1>1, <1>2, <1>3, <1>4, <1>5, <1>6 DEF Next

-----------------------------------------------------------------------------

\* betterNode: what the code knows after each node of the list is true for
\* every set of nodes and every order.
THEOREM PassInvAlways == Spec => []PassInv
<1>1. PassInv /\ [Next]_vars => PassInv'
  BY StepKeepsPassInv
<1> QED
  BY InitPass, <1>1, PTL DEF Spec

\* betterNode returns the node that the relation of the controller's model
\* names.
THEOREM PassIsCorrect == Spec => []PassComputesBetterNode
<1>1. PassInv => PassComputesBetterNode
  BY DEF PassInv
<1> QED
  BY PassInvAlways, <1>1, PTL

\* nodeChangePredicate: while the controller rests, the nodes that were listed
\* are the nodes there are, but for a Ready condition that came as False or
\* went from it; without such a change the answer is still to stay.
THEOREM RestIsAlwaysJustified == Spec => []RestIsJustified
<1>1. ASSUME PassInv, asleep PROVE NoticedNodes = seen
  <2>1. /\ seen \in [Nodes -> NodeStates]
        /\ \A n \in Nodes : seen[n] \in NodeState /\ nodes[n] \in NodeState
    BY <1>1, BetterNodeAssumption DEF PassInv, PassTypeOK
  <2>2. ASSUME NEW n \in Nodes PROVE NoticedNodes[n] = seen[n]
    <3>1. /\ SameButReady(seen[n], nodes[n])
          /\ nodes[n].ready = seen[n].ready \/ ReadyMissed(n)
      BY <1>1 DEF PassInv, SeenIsNoticed
    <3>2. CASE ReadyMissed(n)
      BY <2>1, <3>1, <3>2, SameButReadyIs DEF NoticedNodes
    <3>3. CASE ~ReadyMissed(n)
      BY <2>1, <3>1, <3>3, SameButReadyIs DEF NoticedNodes
    <3> QED
      BY <3>2, <3>3
  <2> QED
    BY <2>1, <2>2 DEF NoticedNodes
<1>2. PassInv => RestIsJustified
  BY <1>1 DEF PassInv, SeenIsNoticed, RestIsJustified
<1> QED
  BY PassInvAlways, <1>2, PTL

\* The strictly healthiest candidate is left for no other: the ranking is
\* asymmetric, and being best is being better than every other candidate.
LEMMA BestIsNotLeft ==
  ASSUME NEW ns \in [Nodes -> NodeStates], NEW c, NEW b \in Nodes, NEW n \in Nodes,
         isBetterNode(ns, c, b), isBetterNode(ns, b, n)
  PROVE  FALSE
<1>1. /\ b \in candidateNodes(ns) /\ n \in candidateNodes(ns)
      /\ n # b => worseThan(ns, n, b)
      /\ b # n => worseThan(ns, b, n)
      /\ scoreNode(ns[n]) # scoreNode(ns[b])
  BY DEF isBetterNode, sameIssues
<1> QED
  BY <1>1, WorseThanOrders

\* No flapping: once the caller has moved to the node it was given, no node is
\* better than that one while the nodes keep their health, for any number of
\* nodes, any order of the list and any health (betterNode's comparison with
\* the current node, node_scoring.go).
THEOREM AnswerStaysStable == Spec => AnswerIsStable
<1>1. ASSUME PassInv, [Next]_vars, current' # current, NEW n \in Nodes
      PROVE  ~isBetterNode(nodes, current', n)
  <2>1. Repeats
    BY <1>1 DEF Next, First, Compare, Returns, Rests, NodeChanges, vars
  <2>2. /\ result = {best} /\ current' = best
        /\ nodes \in [Nodes -> NodeStates] /\ i \in 0 .. Len(list)
    BY <1>1, <2>1 DEF Repeats, PassInv, PassTypeOK
  <2>3. ~asleep /\ i = Len(list) /\ list # <<>>
    BY <1>1, <2>1 DEF Repeats, PassInv, AnswerIsFinal
  <2>4. best \in Nodes
    <3>1. list \in Seq(Nodes) /\ Len(list) \in Nat
      BY <1>1, <2>2, <2>3, ListIsComplete DEF PassInv, PassTypeOK
    <3> QED
      BY <1>1, <2>3, <3>1 DEF PassInv, BestSoFar
  <2>5. isBetterNode(nodes, current, best)
    BY <1>1, <2>2, <2>4 DEF PassInv, PassComputesBetterNode
  <2> QED
    BY <2>2, <2>4, <2>5, BestIsNotLeft
<1>2. PassInv /\ [Next]_vars =>
        [current' # current => \A n \in Nodes : ~isBetterNode(nodes, current', n)]_vars
  BY <1>1
<1> QED
  BY <1>2, PassInvAlways, PTL DEF Spec, AnswerIsStable
=============================================================================
