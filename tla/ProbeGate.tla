----------------------------- MODULE ProbeGate -----------------------------
(***************************************************************************)
(* The probe gate: evaluateProbePhase.  An evaluation runs the probes of a  *)
(* phase in the order of their names, turns each outcome into a result with *)
(* the consecutive counters kept in the status of the probe, persists the   *)
(* counters, and combines the results.  The counters are shared by every    *)
(* evaluation, of either phase and of every FailoverIp that names the       *)
(* probe.  Users edit the composition in the spec between evaluations.  A   *)
(* closed pre-route gate is asked again, a closed post-route gate sends the *)
(* transition to recovery, which mostly halts it.                           *)
(* FoipController uses the answer as a free choice.                         *)
(***************************************************************************)
EXTENDS Naturals, Sequences, FiniteSets, FiniteSetsExt

CONSTANTS
  Probes,            \* the names in spec.probes, a set of numbers
  ProbePhase,        \* per probe: its spec.phase
  SuccessThreshold,  \* per probe: max(spec.successThreshold, 1)
  FailureThreshold,  \* per probe: max(spec.failureThreshold, 1)
  Suggests,          \* per probe: its own composition and quorum, or Unset
  Written            \* what users may write into spec.probeComposition and
                     \* spec.probeQuorum

GatePhases == {"PreRoute", "PostRoute"}

\* A composition and the quorum that goes with it; "" is no composition.
Compositions == [kind : {"", "All", "Any", "Quorum"}, quorum : Nat]

Unset == [kind |-> "", quorum |-> 0]

\* The checks of ValidateFailoverIpSpec on the two fields.  They compare the
\* quorum with 1 and not with the probes there are.
ValidateFailoverIpSpec(c) ==
  /\ c.kind = "Quorum" => c.quorum >= 1
  /\ c.kind # "Quorum" => c.quorum = 0

\* The same checks on the suggestion of a probe.
ValidateProbeSpec(c) == ValidateFailoverIpSpec(c)

ASSUME ProbesAssumption ==
  /\ Probes \subseteq Nat
  /\ IsFiniteSet(Probes)
  /\ ProbePhase \in [Probes -> GatePhases \cup {"Continuous"}]
  /\ SuccessThreshold \in [Probes -> Nat \ {0}]
  /\ FailureThreshold \in [Probes -> Nat \ {0}]

ASSUME CompositionAssumption ==
  /\ Suggests \in [Probes -> Compositions]
  /\ \A p \in Probes : ValidateProbeSpec(Suggests[p])
  /\ Written \subseteq Compositions

VARIABLES
  obs,     \* per probe: the persisted ProbeObservation
  phase,   \* the gate being evaluated, or "none"
  due,     \* the gate the transition comes to next, "none" once it is over or
           \* halted
  spec,    \* the composition in spec.probeComposition and spec.probeQuorum
  asked,   \* referencedComposition: what the probes run so far suggest
  todo,    \* the probes this evaluation has not come to
  passed,  \* results: the probes of this evaluation that succeeded
  failed,  \* results: the probes of this evaluation that did not
  answer,  \* which gate the last evaluation was about, and whether it opened
  record   \* history: per probe, its last recorded outcomes

vars == <<obs, phase, due, spec, asked, todo, passed, failed, answer, record>>

NoObservation == [success |-> FALSE, successes |-> 0, failures |-> 0]

\* Outcomes to remember: the longest run that can still decide a result.
Recent(p) == SuccessThreshold[p] + FailureThreshold[p] - 1

GateTypeOK ==
  /\ \A p \in Probes :
       /\ obs[p] \in [success : BOOLEAN, successes : 0 .. SuccessThreshold[p],
                      failures : 0 .. FailureThreshold[p]]
       /\ record[p] \in Seq(BOOLEAN) /\ Len(record[p]) <= Recent(p)
  /\ phase \in GatePhases \cup {"none"}
  /\ due \in GatePhases \cup {"none"}
  /\ todo \subseteq Probes
  /\ passed \subseteq Probes \ todo
  /\ failed \subseteq Probes \ (todo \cup passed)
  /\ spec \in {c \in Written : ValidateFailoverIpSpec(c)}
  /\ asked \in Compositions
  /\ answer \in [gate : GatePhases \cup {"none"}, open : BOOLEAN]

Init ==
  /\ obs = [p \in Probes |-> NoObservation]
  /\ phase = "none"
  /\ due = "PreRoute"
  /\ todo = {}
  /\ passed = {}
  /\ failed = {}
  /\ spec \in {c \in Written : ValidateFailoverIpSpec(c)}
  /\ asked = Unset
  /\ answer = [gate |-> "none", open |-> FALSE]
  /\ record = [p \in Probes |-> <<>>]

-----------------------------------------------------------------------------

\* A counter is only compared with its threshold and stops there.
Counted(count, threshold) == Min({count + 1, threshold})

\* Mutant: a failure is tolerated from a probe that never passed.
applyProbeThresholds_AnyFailure(p, success) ==
  IF success
    THEN LET n == Counted(obs[p].successes, SuccessThreshold[p])
         IN [success |-> n >= SuccessThreshold[p], successes |-> n, failures |-> 0]
    ELSE LET n == Counted(obs[p].failures, FailureThreshold[p])
         IN [success |-> n < FailureThreshold[p], successes |-> 0, failures |-> n]

\* The result of an outcome and the counters that go with it.
applyProbeThresholds(p, success) ==
  IF success
    THEN LET n == Counted(obs[p].successes, SuccessThreshold[p])
         IN [success |-> n >= SuccessThreshold[p], successes |-> n, failures |-> 0]
    ELSE LET n == Counted(obs[p].failures, FailureThreshold[p])
         IN [success |-> n < FailureThreshold[p] /\ obs[p].success,
             successes |-> 0, failures |-> n]

\* The observation of this name replaces the one before.
persistProbeObservation(p, result) == obs' = [obs EXCEPT ![p] = result]

\* The composition that applies: the one of the spec, else the one that the
\* probes suggest, else All.
Applies ==
  IF spec # Unset THEN spec ELSE IF asked # Unset THEN asked ELSE [Unset EXCEPT !.kind = "All"]

\* Mutant: the quorum must be exceeded.
Aggregate_Exceeds(good, bad) ==
  CASE Applies.kind = "All"    -> bad = {}
    [] Applies.kind = "Any"    -> good # {}
    [] Applies.kind = "Quorum" -> Cardinality(good) > Applies.quorum

Aggregate(good, bad) ==
  CASE Applies.kind = "All"    -> bad = {}
    [] Applies.kind = "Any"    -> good # {}
    [] Applies.kind = "Quorum" -> Cardinality(good) >= Applies.quorum

\* A user writes a spec that is accepted; an evaluation works on the copy it
\* was given.
EditsSpec(c) ==
  /\ phase = "none"
  /\ ValidateFailoverIpSpec(c)
  /\ spec' = c
  /\ UNCHANGED <<obs, phase, due, asked, todo, passed, failed, answer, record>>

\* Another transition, of this FailoverIp or of one that names the same probes,
\* or a retry that a user asks for after a halt.  It comes to the post-route
\* gate first when it finds its target routed already.
StartsOver(ph) ==
  /\ phase = "none"
  /\ due' = ph
  /\ UNCHANGED <<obs, phase, spec, asked, todo, passed, failed, answer, record>>

Begins ==
  /\ phase = "none"
  /\ due # "none"
  /\ phase' = due
  /\ todo' = Probes
  /\ UNCHANGED <<obs, due, spec, asked, passed, failed, answer, record>>

\* The evaluation comes to a probe when all earlier names are done.
ComesTo(p) == phase # "none" /\ todo # {} /\ p = Min(todo)

\* Mutant: a continuous probe is passed over.
SkipsProbe_Continuous(p) ==
  /\ ComesTo(p)
  /\ ProbePhase[p] # phase
  /\ todo' = todo \ {p}
  /\ UNCHANGED <<obs, phase, due, spec, asked, passed, failed, answer, record>>

SkipsProbe(p) ==
  /\ ComesTo(p)
  /\ ProbePhase[p] \notin {phase, "Continuous"}
  /\ todo' = todo \ {p}
  /\ UNCHANGED <<obs, phase, due, spec, asked, passed, failed, answer, record>>

\* The spec leaves the composition to the probes, and this one has one.
Counts(p) == spec = Unset /\ Suggests[p] # Unset

\* Two probes of the evaluation suggest different compositions.
Conflicts(p) == Counts(p) /\ asked \notin {Unset, Suggests[p]}

\* The last outcomes recorded, the newest at the end.
Recorded(p, success) ==
  LET all == Append(record[p], success)
  IN IF Len(all) > Recent(p) THEN Tail(all) ELSE all

RunsProbe(p, success) ==
  /\ ComesTo(p)
  /\ ProbePhase[p] \in {phase, "Continuous"}
  /\ ~Conflicts(p)
  /\ asked' = IF Counts(p) THEN Suggests[p] ELSE asked
  /\ LET result == applyProbeThresholds(p, success)
     IN /\ persistProbeObservation(p, result)
        /\ passed' = IF result.success THEN passed \cup {p} ELSE passed
        /\ failed' = IF result.success THEN failed ELSE failed \cup {p}
  /\ todo' = todo \ {p}
  /\ record' = [record EXCEPT ![p] = Recorded(p, success)]
  /\ UNCHANGED <<phase, due, spec, answer>>

\* A closed pre-route gate is polled, and an open one asked once more before
\* the request.  The post-route gate is asked until the transition is over; if
\* it is closed, recovery halts the transition, unless it commits degraded or
\* its rollback waits for the cooldown.
NextGates(open) ==
  IF phase = "PreRoute"
    THEN IF open THEN GatePhases ELSE {"PreRoute"}
    ELSE {"PostRoute", "none"}

\* Mutant: the results of an evaluation are left to the next one.
Ends_ResultsKept(open) ==
  /\ answer' = [gate |-> phase, open |-> open]
  /\ due' \in NextGates(open)
  /\ phase' = "none"
  /\ todo' = {}
  /\ asked' = Unset
  /\ UNCHANGED <<obs, spec, passed, failed, record>>

Ends(open) ==
  /\ answer' = [gate |-> phase, open |-> open]
  /\ due' \in NextGates(open)
  /\ phase' = "none"
  /\ todo' = {}
  /\ asked' = Unset
  /\ passed' = {}
  /\ failed' = {}
  /\ UNCHANGED <<obs, spec, record>>

\* Without a probe for the phase the gate is open.
Answers ==
  /\ phase # "none"
  /\ todo = {}
  /\ Ends(passed \cup failed = {} \/ Aggregate(passed, failed))

Rejects(p) ==
  /\ ComesTo(p)
  /\ ProbePhase[p] \in {phase, "Continuous"}
  /\ Conflicts(p)
  /\ Ends(FALSE)

\* A probe, a secret or the target node cannot be loaded, the patch of an
\* observation fails, or the process dies.  The probes before it have been
\* counted, the outcome of this one is lost.
EvaluationFails ==
  /\ phase # "none"
  /\ todo # {}
  /\ Ends(FALSE)

Next ==
  \/ \E c \in Written : EditsSpec(c)
  \/ \E ph \in GatePhases : StartsOver(ph)
  \/ Begins
  \/ \E p \in Probes : SkipsProbe(p) \/ Rejects(p)
  \/ \E p \in Probes, success \in BOOLEAN : RunsProbe(p, success)
  \/ Answers
  \/ EvaluationFails

Spec == Init /\ [][Next]_vars

-----------------------------------------------------------------------------
(* Fairness: the controller asks for the gate that is due, and a started    *)
(* evaluation goes on.  That a transition starts over is not fair: a halt   *)
(* waits for a user.                                                        *)

Goes ==
  \/ Begins
  \/ \E p \in Probes : SkipsProbe(p) \/ Rejects(p) \/ \E success \in BOOLEAN : RunsProbe(p, success)
  \/ Answers

\* A step in which nothing fails and nobody edits the spec.
GoesWell ==
  \/ \E ph \in GatePhases : StartsOver(ph)
  \/ Begins
  \/ \E p \in Probes : SkipsProbe(p) \/ Rejects(p) \/ RunsProbe(p, TRUE)
  \/ Answers

LiveSpec == Spec /\ WF_vars(Goes) /\ <>[][GoesWell]_vars

-----------------------------------------------------------------------------
(* Properties.                                                             *)

\* The outcomes i to j of a probe are all o.
Run(p, i, j, o) == \A k \in i .. j : record[p][k] = o

\* SuccessThreshold recorded successes in a row, and no FailureThreshold
\* failures in a row since.
Earned(p) ==
  \E i \in 1 .. Len(record[p]) :
    LET won == i + SuccessThreshold[p] - 1
    IN /\ won <= Len(record[p])
       /\ Run(p, i, won, TRUE)
       /\ ~\E j \in won + 1 .. Len(record[p]) :
             /\ j + FailureThreshold[p] - 1 <= Len(record[p])
             /\ Run(p, j, j + FailureThreshold[p] - 1, FALSE)

\* A probe counts as passed only with the successes its threshold asks for
\* (applyProbeThresholds), whatever evaluations of either phase and failures
\* half way lie between them.
PassIsEarned == \A p \in passed : Earned(p)

\* The probes that an evaluation of a gate runs.
Members(ph) == {p \in Probes : ProbePhase[p] \in {ph, "Continuous"}}

\* What the spec and the probes of a gate ask for, of which there should be one.
Composed(ph) ==
  LET suggested == {Suggests[p] : p \in Members(ph)} \ {Unset}
  IN IF spec # Unset THEN {spec}
     ELSE IF suggested # {} THEN suggested ELSE {[Unset EXCEPT !.kind = "All"]}

\* Enough of the probes of a gate have earned their passes.
Deserves(ph, c) ==
  LET earners == {p \in Members(ph) : Earned(p)}
  IN CASE c.kind = "All"    -> earners = Members(ph)
       [] c.kind = "Any"    -> earners # {}
       [] c.kind = "Quorum" -> Cardinality(earners) >= c.quorum

\* A gate is found open only when its probes have earned it, all of them counted
\* and by every composition that somebody asks for (evaluateProbePhase).
OpenIsDeserved ==
  [][phase # "none" /\ phase' = "none" /\ answer'.open =>
       Members(phase) = {} \/ \A c \in Composed(phase) : Deserves(phase, c)]_vars

\* The gate can open: its probes agree on a composition, and a quorum is not
\* larger than their number.
Openable(ph) ==
  \/ Members(ph) = {}
  \/ /\ Cardinality(Composed(ph)) = 1
     /\ \A c \in Composed(ph) : c.kind = "Quorum" => c.quorum <= Cardinality(Members(ph))

\* Once the probes succeed and nothing else fails, a transition that goes on
\* finds exactly the gates open that can open, whatever counters earlier
\* evaluations have left.  The others are refused for ever, although their spec
\* is valid.  A transition that recovery has halted does not go on: there a
\* post-route gate stays closed that needed one more success.
GateOpens ==
  <>[](due # "none" /\ answer.gate # "none" => (answer.open <=> Openable(answer.gate)))

-----------------------------------------------------------------------------
(* The inductive invariant behind PassIsEarned and OpenIsDeserved.         *)

\* But for the newest m of the outcomes r, the newest n are successes.
Won(r, m, n) ==
  LET newest == Len(r) - m
  IN /\ n <= newest
     /\ \A k \in newest - n + 1 .. newest : r[k] = TRUE

\* The counters tell no more than has been recorded.
CountersAreTrue ==
  \A p \in Probes :
    /\ Won(record[p], 0, obs[p].successes)
    /\ obs[p].success =>
         /\ obs[p].failures < FailureThreshold[p]
         /\ Won(record[p], obs[p].failures, SuccessThreshold[p])

\* Results are those of the evaluation in progress.
ResultsAreCurrent ==
  /\ phase = "none" => todo = {} /\ passed = {} /\ failed = {}
  /\ \A p \in passed : obs[p].success

GateInv ==
  /\ DOMAIN obs = Probes
  /\ DOMAIN record = Probes
  /\ GateTypeOK
  /\ CountersAreTrue
  /\ ResultsAreCurrent

\* Every probe of the gate that the evaluation has passed has a result, and the
\* composition carried along is the one that all of these suggest.
EvaluationIsWhole ==
  /\ phase # "none" => passed \cup failed = Members(phase) \ todo
  /\ spec # Unset => asked = Unset
  /\ spec = Unset => \A p \in passed \cup failed : Suggests[p] \in {Unset, asked}
  /\ asked # Unset => \E p \in passed \cup failed : Suggests[p] = asked
=============================================================================
