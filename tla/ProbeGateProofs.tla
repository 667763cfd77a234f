-------------------------- MODULE ProbeGateProofs --------------------------
(***************************************************************************)
(* A probe passes only on the successes its threshold asks for, for every   *)
(* set of probes and all thresholds.                                        *)
(***************************************************************************)
EXTENDS ProbeGate, FiniteSetTheorems, WellFoundedInduction, TLAPS

\* The smaller of two numbers, with which counters stop at their thresholds.
LEMMA MinOfTwo ==
  ASSUME NEW a \in Nat, NEW b \in Nat
  PROVE  Min({a, b}) = IF a <= b THEN a ELSE b
<1> DEFINE m == IF a <= b THEN a ELSE b
<1>1. m \in {a, b} /\ \A y \in {a, b} : m <= y
  OBVIOUS
<1>2. \A x \in {a, b} : (\A y \in {a, b} : x <= y) => x = m
  OBVIOUS
<1> QED
  BY <1>1, <1>2 DEF Min

\* The smallest name of a set of names is one of them.
LEMMA MinIsMember ==
  ASSUME NEW S, S \subseteq Nat, S # {}
  PROVE  Min(S) \in S
<1>1. PICK x \in S : \A y \in S : ~(<<y, x>> \in OpToRel(<, Nat))
  BY NatLessThanWellFounded, WFMin
<1>2. OpToRel(<, Nat) = {ss \in Nat \X Nat : ss[1] < ss[2]}
  BY DEF OpToRel
<1>3. ASSUME NEW y \in S PROVE x <= y
  <2>1. ~(<<y, x>> \in {ss \in Nat \X Nat : ss[1] < ss[2]})
    BY <1>1, <1>2, <1>3
  <2>2. x \in Nat /\ y \in Nat
    BY <1>3
  <2> QED
    BY <2>1, <2>2
<1> QED
  BY <1>3 DEF Min

\* A counter goes up by one and stops at its threshold.
LEMMA CountedIsNext ==
  ASSUME NEW count \in Nat, NEW threshold \in Nat
  PROVE  Counted(count, threshold) = IF count + 1 <= threshold THEN count + 1 ELSE threshold
BY MinOfTwo DEF Counted

\* At first no probe has been observed.
LEMMA InitGate == Init => GateInv
<1> SUFFICES ASSUME Init PROVE GateInv
  OBVIOUS
<1> USE ProbesAssumption DEF Init
<1>1. DOMAIN obs = Probes /\ DOMAIN record = Probes
  OBVIOUS
<1>2. \A p \in Probes : obs[p] = NoObservation /\ record[p] = <<>>
  OBVIOUS
<1>3. GateTypeOK
  <2>1. ASSUME NEW p \in Probes
        PROVE  /\ obs[p] \in [success : BOOLEAN, successes : 0 .. SuccessThreshold[p],
                              failures : 0 .. FailureThreshold[p]]
               /\ record[p] \in Seq(BOOLEAN) /\ Len(record[p]) <= Recent(p)
    BY <1>2 DEF NoObservation, Recent
  <2>2. asked \in Compositions
    BY DEF Unset, Compositions
  <2>3. /\ due \in GatePhases \cup {"none"} /\ phase \in GatePhases \cup {"none"}
        /\ answer \in [gate : GatePhases \cup {"none"}, open : BOOLEAN]
    BY DEF GatePhases
  <2> QED
    BY <2>1, <2>2, <2>3 DEF GateTypeOK
<1>4. CountersAreTrue
  BY <1>2 DEF CountersAreTrue, Won, NoObservation
<1>5. ResultsAreCurrent
  BY DEF ResultsAreCurrent
<1> QED
  BY <1>1, <1>3, <1>4, <1>5 DEF GateInv

-----------------------------------------------------------------------------
(* One probe.                                                              *)

\* What running a probe does to its observation and its record.
LEMMA RunsOne ==
  ASSUME GateInv, NEW p \in Probes, NEW success \in BOOLEAN, RunsProbe(p, success)
  PROVE  LET result == applyProbeThresholds(p, success)
         IN /\ DOMAIN obs' = Probes /\ DOMAIN record' = Probes
            /\ obs'[p] = result /\ record'[p] = Recorded(p, success)
            /\ \A q \in Probes \ {p} : obs'[q] = obs[q] /\ record'[q] = record[q]
            /\ passed' = (IF result.success THEN passed \cup {p} ELSE passed)
            /\ failed' = (IF result.success THEN failed ELSE failed \cup {p})
            /\ p \in todo /\ todo' = todo \ {p} /\ phase # "none"
<1> DEFINE result == applyProbeThresholds(p, success)
<1> HIDE DEF result
<1>1. /\ obs' = [obs EXCEPT ![p] = result]
      /\ record' = [record EXCEPT ![p] = Recorded(p, success)]
  BY DEF RunsProbe, persistProbeObservation, result
<1>2. DOMAIN obs = Probes /\ DOMAIN record = Probes
  BY DEF GateInv
<1>3. /\ DOMAIN obs' = Probes /\ DOMAIN record' = Probes
      /\ obs'[p] = result /\ record'[p] = Recorded(p, success)
      /\ \A q \in Probes \ {p} : obs'[q] = obs[q] /\ record'[q] = record[q]
  BY <1>1, <1>2
<1>4. /\ passed' = (IF result.success THEN passed \cup {p} ELSE passed)
      /\ failed' = (IF result.success THEN failed ELSE failed \cup {p})
      /\ phase # "none" /\ todo' = todo \ {p}
  BY DEF RunsProbe, result, ComesTo
<1>5. p \in todo
  <2>1. todo \subseteq Nat
    BY ProbesAssumption DEF GateInv, GateTypeOK
  <2> QED
    BY <2>1, MinIsMember DEF RunsProbe, ComesTo
<1> QED
  BY <1>3, <1>4, <1>5 DEF result

\* The new outcome is the newest; of the others only the oldest may go.
LEMMA RecordedIsNewest ==
  ASSUME GateInv, NEW p \in Probes, NEW success \in BOOLEAN
  PROVE  /\ Recorded(p, success) \in Seq(BOOLEAN)
         /\ Len(Recorded(p, success)) \in Nat
         /\ \/ /\ Len(Recorded(p, success)) = Len(record[p]) + 1
               /\ Len(record[p]) + 1 <= Recent(p)
               /\ \A k \in 1 .. Len(record[p]) : Recorded(p, success)[k] = record[p][k]
            \/ /\ Len(Recorded(p, success)) = Len(record[p])
               /\ Len(record[p]) = Recent(p)
               /\ \A k \in 1 .. Len(record[p]) - 1 : Recorded(p, success)[k] = record[p][k + 1]
         /\ Recorded(p, success)[Len(Recorded(p, success))] = success
<1> DEFINE r == record[p]
           all == Append(r, success)
<1>1. r \in Seq(BOOLEAN) /\ Len(r) \in Nat /\ Len(r) <= Recent(p)
  BY DEF GateInv, GateTypeOK
<1>2. Recent(p) \in Nat /\ Recent(p) >= 1
  BY ProbesAssumption DEF Recent
<1> HIDE DEF r
<1>3. /\ all \in Seq(BOOLEAN) /\ Len(all) = Len(r) + 1
      /\ all[Len(r) + 1] = success /\ \A k \in 1 .. Len(r) : all[k] = r[k]
  BY <1>1
<1> HIDE DEF all
<1>4. CASE Len(all) > Recent(p)
  <2>1. Recorded(p, success) = Tail(all)
    BY <1>4 DEF Recorded, r, all
  <2>2. /\ Tail(all) \in Seq(BOOLEAN) /\ Len(Tail(all)) = Len(r)
        /\ \A k \in 1 .. Len(r) : Tail(all)[k] = all[k + 1]
    BY <1>1, <1>3
  <2>3. Len(r) = Recent(p) /\ Len(r) >= 1
    BY <1>1, <1>2, <1>3, <1>4
  <2>4. Tail(all)[Len(r)] = success /\ \A k \in 1 .. Len(r) - 1 : Tail(all)[k] = r[k + 1]
    BY <1>1, <1>3, <2>2, <2>3
  <2> QED
    BY <1>1, <2>1, <2>2, <2>3, <2>4 DEF r
<1>5. CASE ~(Len(all) > Recent(p))
  <2>1. Recorded(p, success) = all
    BY <1>5 DEF Recorded, r, all
  <2> QED
    BY <1>1, <1>2, <1>3, <1>5, <2>1 DEF r
<1> QED
  BY <1>4, <1>5

\* After a success a run of successes is one longer, and after a failure it
\* has one more failure behind it, as long as the record reaches back to it.
LEMMA RunGrows ==
  ASSUME GateInv, NEW p \in Probes, NEW success \in BOOLEAN,
         record'[p] = Recorded(p, success), NEW m \in Nat, NEW n \in Nat,
         Won(record[p], m, n), m + n + 1 <= Recent(p)
  PROVE  /\ Won(record'[p], m + 1, n)
         /\ success /\ m = 0 => Won(record'[p], 0, n + 1)
<1> DEFINE new == Recorded(p, success)
           old == record[p]
<1>1. /\ new = record'[p] /\ Len(old) \in Nat /\ Len(new) \in Nat
      /\ Recent(p) \in Nat
  <2>1. Len(old) \in Nat
    BY DEF GateInv, GateTypeOK
  <2>2. Recent(p) \in Nat
    BY ProbesAssumption DEF Recent
  <2> QED
    BY <2>1, <2>2, RecordedIsNewest
<1>2. /\ n <= Len(old) - m
      /\ \A k \in Len(old) - m - n + 1 .. Len(old) - m : old[k] = TRUE
  BY DEF Won
<1>3. /\ \/ /\ Len(new) = Len(old) + 1
            /\ \A k \in 1 .. Len(old) : new[k] = old[k]
         \/ /\ Len(new) = Len(old) /\ Len(old) = Recent(p)
            /\ \A k \in 1 .. Len(old) - 1 : new[k] = old[k + 1]
      /\ new[Len(new)] = success
  BY RecordedIsNewest
<1> HIDE DEF new, old
<1>4. /\ n <= Len(new) - (m + 1)
      /\ \A k \in Len(new) - (m + 1) - n + 1 .. Len(new) - (m + 1) : new[k] = TRUE
  <2>1. CASE Len(new) = Len(old) + 1 /\ \A k \in 1 .. Len(old) : new[k] = old[k]
    <3>1. ASSUME NEW k \in Len(new) - (m + 1) - n + 1 .. Len(new) - (m + 1)
          PROVE  new[k] = TRUE
      <4>1. k \in Len(old) - m - n + 1 .. Len(old) - m /\ k \in 1 .. Len(old)
        BY <1>1, <1>2, <2>1, <3>1
      <4> QED
        BY <1>2, <2>1, <4>1
    <3>2. n <= Len(new) - (m + 1)
      BY <1>1, <1>2, <2>1
    <3> QED
      BY <3>1, <3>2
  <2>2. CASE /\ Len(new) = Len(old) /\ Len(old) = Recent(p)
             /\ \A k \in 1 .. Len(old) - 1 : new[k] = old[k + 1]
    <3>1. ASSUME NEW k \in Len(new) - (m + 1) - n + 1 .. Len(new) - (m + 1)
          PROVE  new[k] = TRUE
      <4>1. k + 1 \in Len(old) - m - n + 1 .. Len(old) - m /\ k \in 1 .. Len(old) - 1
        BY <1>1, <1>2, <2>2, <3>1
      <4> QED
        BY <1>2, <2>2, <4>1
    <3>2. n <= Len(new) - (m + 1)
      BY <1>1, <2>2
    <3> QED
      BY <3>1, <3>2
  <2> QED
    BY <1>3, <2>1, <2>2
<1>5. ASSUME success, m = 0
      PROVE  /\ n + 1 <= Len(new)
             /\ \A k \in Len(new) - (n + 1) + 1 .. Len(new) : new[k] = TRUE
  <2>1. new[Len(new)] = TRUE
    BY <1>3, <1>5
  <2>2. m = 0
    BY <1>5
  <2>3. n + 1 <= Len(new)
    BY <1>1, <1>4, <2>2
  <2>4. ASSUME NEW k \in Len(new) - (n + 1) + 1 .. Len(new)
        PROVE  new[k] = TRUE
    <3>1. k = Len(new) \/ k \in Len(new) - (m + 1) - n + 1 .. Len(new) - (m + 1)
      BY <1>1, <2>2, <2>4
    <3> QED
      BY <1>4, <2>1, <3>1
  <2> QED
    BY <2>3, <2>4
<1>6. Won(record'[p], m + 1, n)
  BY <1>1, <1>4 DEF Won
<1>7. ASSUME success, m = 0 PROVE Won(record'[p], 0, n + 1)
  <2>1. Len(new) - 0 = Len(new)
    BY <1>1
  <2> QED
    BY <1>1, <1>5, <1>7, <2>1 DEF Won
<1> QED
  BY <1>6, <1>7

\* The fields of an observation.
LEMMA ObservationFields ==
  ASSUME NEW S, NEW F, NEW a \in BOOLEAN, NEW b \in S, NEW c \in F,
         NEW o, o = [success |-> a, successes |-> b, failures |-> c]
  PROVE  /\ o.success = a /\ o.successes = b /\ o.failures = c
         /\ o \in [success : BOOLEAN, successes : S, failures : F]
OBVIOUS

\* What holds of an observation and its record is kept by running the probe.
LEMMA RunKeepsCounters ==
  ASSUME GateInv, NEW p \in Probes, NEW success \in BOOLEAN,
         record'[p] = Recorded(p, success),
         obs'[p] = applyProbeThresholds(p, success)
  PROVE  /\ obs'[p] \in [success : BOOLEAN, successes : 0 .. SuccessThreshold[p],
                         failures : 0 .. FailureThreshold[p]]
         /\ Won(record'[p], 0, obs'[p].successes)
         /\ obs'[p].success =>
              /\ obs'[p].failures < FailureThreshold[p]
              /\ Won(record'[p], obs'[p].failures, SuccessThreshold[p])
<1> DEFINE S == SuccessThreshold[p]
           F == FailureThreshold[p]
           s == obs[p].successes
           f == obs[p].failures
<1>1. S \in Nat \ {0} /\ F \in Nat \ {0} /\ Recent(p) = S + F - 1
  BY ProbesAssumption DEF Recent
<1>2. obs[p] \in [success : BOOLEAN, successes : 0 .. S, failures : 0 .. F]
  BY DEF GateInv, GateTypeOK
<1>3. /\ Won(record[p], 0, s)
      /\ obs[p].success => f < F /\ Won(record[p], f, S)
  BY DEF GateInv, CountersAreTrue
<1>4. s \in Nat /\ f \in Nat /\ s <= S /\ f <= F
  BY <1>1, <1>2
<1>5. CASE success
  <2> DEFINE n == IF s + 1 <= S THEN s + 1 ELSE S
  <2>1. obs'[p] = [success |-> n >= S, successes |-> n, failures |-> 0]
    BY <1>1, <1>4, <1>5, CountedIsNext DEF applyProbeThresholds
  <2>2. n \in 1 .. S /\ n - 1 \in Nat /\ n - 1 <= s /\ 0 + (n - 1) + 1 <= Recent(p)
    BY <1>1, <1>4
  <2> HIDE DEF n
  <2>3. Won(record[p], 0, n - 1)
    BY <1>3, <1>4, <2>2 DEF Won, GateInv, GateTypeOK
  <2>4. Won(record'[p], 0, (n - 1) + 1)
    BY <1>5, <2>2, <2>3, RunGrows
  <2>5. (n - 1) + 1 = n
    BY <2>2
  <2>6. Won(record'[p], 0, n)
    BY <2>4, <2>5
  <2>7. n \in 0 .. S /\ 0 \in 0 .. F /\ (n >= S) \in BOOLEAN
    BY <1>1, <2>2
  <2>8. /\ obs'[p].successes = n /\ obs'[p].failures = 0 /\ obs'[p].success = (n >= S)
        /\ obs'[p] \in [success : BOOLEAN, successes : 0 .. S, failures : 0 .. F]
    BY <2>1, <2>7, ObservationFields
  <2>9. ASSUME obs'[p].success PROVE n = S
    BY <1>1, <2>2, <2>8, <2>9
  <2> QED
    BY <1>1, <2>6, <2>8, <2>9
<1>6. CASE ~success
  <2> DEFINE n == IF f + 1 <= F THEN f + 1 ELSE F
  <2>1. obs'[p] = [success |-> n < F /\ obs[p].success, successes |-> 0, failures |-> n]
    BY <1>1, <1>4, <1>6, CountedIsNext DEF applyProbeThresholds
  <2>2. n \in 0 .. F /\ (n < F => n = f + 1)
    BY <1>1, <1>4
  <2> HIDE DEF n
  <2>3. Won(record'[p], 0, 0)
    <3>1. Len(record'[p]) \in Nat
      BY RecordedIsNewest
    <3> QED
      BY <3>1 DEF Won
  <2>4. 0 \in 0 .. S /\ (n < F /\ obs[p].success) \in BOOLEAN
    BY <1>1
  <2>5. /\ obs'[p].successes = 0 /\ obs'[p].failures = n
        /\ obs'[p].success = (n < F /\ obs[p].success)
        /\ obs'[p] \in [success : BOOLEAN, successes : 0 .. S, failures : 0 .. F]
    BY <2>1, <2>2, <2>4, ObservationFields
  <2>6. ASSUME obs'[p].success PROVE n < F /\ Won(record'[p], n, S)
    <3>1. n < F /\ obs[p].success
      BY <2>5, <2>6
    <3>2. Won(record[p], f, S) /\ n = f + 1 /\ f + S + 1 <= Recent(p)
      BY <1>1, <1>3, <1>4, <2>2, <3>1
    <3>3. Won(record'[p], f + 1, S)
      BY <1>1, <1>4, <3>2, RunGrows
    <3> QED
      BY <3>1, <3>2, <3>3
  <2> QED
    BY <2>3, <2>5, <2>6
<1> QED
  BY <1>5, <1>6

-----------------------------------------------------------------------------
(* The actions.                                                            *)

\* One probe is executed and its counters are persisted.
LEMMA RunsKeeps ==
  ASSUME GateInv, NEW p \in Probes, NEW success \in BOOLEAN, RunsProbe(p, success)
  PROVE  GateInv'
<1>1. /\ DOMAIN obs' = Probes /\ DOMAIN record' = Probes
      /\ obs'[p] = applyProbeThresholds(p, success)
      /\ record'[p] = Recorded(p, success)
      /\ \A q \in Probes \ {p} : obs'[q] = obs[q] /\ record'[q] = record[q]
      /\ passed' = (IF obs'[p].success THEN passed \cup {p} ELSE passed)
      /\ failed' = (IF obs'[p].success THEN failed ELSE failed \cup {p})
      /\ p \in todo /\ todo' = todo \ {p} /\ phase # "none"
  BY RunsOne
<1>2. /\ obs'[p] \in [success : BOOLEAN, successes : 0 .. SuccessThreshold[p],
                      failures : 0 .. FailureThreshold[p]]
      /\ Won(record'[p], 0, obs'[p].successes)
      /\ obs'[p].success =>
           /\ obs'[p].failures < FailureThreshold[p]
           /\ Won(record'[p], obs'[p].failures, SuccessThreshold[p])
  BY <1>1, RunKeepsCounters
<1>3. CountersAreTrue'
  <2>1. ASSUME NEW q \in Probes \ {p}
        PROVE  /\ Won(record'[q], 0, obs'[q].successes)
               /\ obs'[q].success =>
                    /\ obs'[q].failures < FailureThreshold[q]
                    /\ Won(record'[q], obs'[q].failures, SuccessThreshold[q])
    BY <1>1, <2>1 DEF GateInv, CountersAreTrue, Won
  <2> QED
    BY <1>2, <2>1 DEF CountersAreTrue
<1>4. GateTypeOK'
  <2>1. ASSUME NEW q \in Probes
        PROVE  /\ obs'[q] \in [success : BOOLEAN, successes : 0 .. SuccessThreshold[q],
                               failures : 0 .. FailureThreshold[q]]
               /\ record'[q] \in Seq(BOOLEAN) /\ Len(record'[q]) <= Recent(q)
    <3>1. CASE q = p
      BY <1>1, <1>2, <3>1, RecordedIsNewest
    <3>2. CASE q # p
      BY <1>1, <3>2 DEF GateInv, GateTypeOK
    <3> QED
      BY <3>1, <3>2
  <2>2. /\ todo' \subseteq Probes /\ passed' \subseteq Probes \ todo'
        /\ failed' \subseteq Probes \ (todo' \cup passed')
    BY <1>1 DEF GateInv, GateTypeOK
  <2>3. asked' \in Compositions
    BY CompositionAssumption DEF RunsProbe, GateInv, GateTypeOK
  <2>4. UNCHANGED <<phase, due, spec, answer>>
    BY DEF RunsProbe
  <2> QED
    BY <2>1, <2>2, <2>3, <2>4 DEF GateInv, GateTypeOK
<1>5. ResultsAreCurrent'
  <2>1. phase' # "none"
    BY <1>1 DEF RunsProbe
  <2>2. p \notin passed /\ passed \subseteq Probes
    BY <1>1 DEF GateInv, GateTypeOK
  <2>3. \A q \in passed' : obs'[q].success
    BY <1>1, <2>2 DEF GateInv, ResultsAreCurrent
  <2> QED
    BY <2>1, <2>3 DEF ResultsAreCurrent
<1> QED
  BY <1>1, <1>3, <1>4, <1>5 DEF GateInv

\* An evaluation that ends, in whatever way, leaves no results behind.
LEMMA EndsKeeps ==
  ASSUME GateInv, phase # "none", NEW open \in BOOLEAN, Ends(open)
  PROVE  GateInv'
<1>1. UNCHANGED <<obs, spec, record>>
  BY DEF Ends
<1>2. CountersAreTrue'
  BY <1>1 DEF GateInv, CountersAreTrue, Won
<1>3. phase' = "none" /\ todo' = {} /\ passed' = {} /\ failed' = {} /\ asked' = Unset
  BY DEF Ends
<1>4. /\ answer' \in [gate : GatePhases \cup {"none"}, open : BOOLEAN]
      /\ due' \in GatePhases \cup {"none"}
  BY DEF Ends, NextGates, GatePhases, GateInv, GateTypeOK
<1>5. GateTypeOK'
  BY <1>1, <1>3, <1>4 DEF GateInv, GateTypeOK, Unset, Compositions
<1> QED
  BY <1>1, <1>2, <1>3, <1>5 DEF GateInv, ResultsAreCurrent

\* Every step of an evaluation, and every edit, keeps the invariant.
LEMMA StepKeepsGateInv ==
  ASSUME GateInv, [Next]_vars
  PROVE  GateInv'
<1>1. CASE \E c \in Written : EditsSpec(c)
  BY <1>1 DEF EditsSpec, GateInv, GateTypeOK, CountersAreTrue, Won, ResultsAreCurrent
<1>2. CASE Begins
  <2>1. UNCHANGED <<obs, due, spec, asked, passed, failed, answer, record>>
    BY <1>2 DEF Begins
  <2>2. phase' \in GatePhases /\ phase' # "none" /\ todo' = Probes /\ passed = {} /\ failed = {}
    BY <1>2 DEF Begins, GateInv, GateTypeOK, ResultsAreCurrent
  <2> QED
    BY <2>1, <2>2 DEF GateInv, GateTypeOK, CountersAreTrue, Won, ResultsAreCurrent
<1>3. ASSUME NEW p \in Probes, SkipsProbe(p) PROVE GateInv'
  <2>1. UNCHANGED <<obs, phase, due, spec, asked, passed, failed, answer, record>>
    BY <1>3 DEF SkipsProbe
  <2>2. todo' \subseteq todo
    BY <1>3 DEF SkipsProbe
  <2>3. phase # "none"
    BY <1>3 DEF SkipsProbe, ComesTo
  <2> QED
    BY <2>1, <2>2, <2>3 DEF GateInv, GateTypeOK, CountersAreTrue, Won, ResultsAreCurrent
<1>4. ASSUME NEW p \in Probes, Rejects(p) PROVE GateInv'
  BY <1>4, EndsKeeps DEF Rejects, ComesTo
<1>5. ASSUME NEW p \in Probes, NEW success \in BOOLEAN, RunsProbe(p, success)
      PROVE  GateInv'
  BY <1>5, RunsKeeps
<1>6. CASE Answers
  <2> DEFINE open == passed \cup failed = {} \/ Aggregate(passed, failed)
  <2>1. open \in BOOLEAN /\ Ends(open) /\ phase # "none"
    BY <1>6 DEF Answers
  <2> QED
    BY <2>1, EndsKeeps
<1>7. CASE EvaluationFails
  BY <1>7, EndsKeeps DEF EvaluationFails
<1>8. CASE \E ph \in GatePhases : StartsOver(ph)
  BY <1>8 DEF StartsOver, GateInv, GateTypeOK, CountersAreTrue, Won, ResultsAreCurrent
<1>9. CASE UNCHANGED vars
  BY <1>9 DEF vars, GateInv, GateTypeOK, CountersAreTrue, Won, ResultsAreCurrent
<1> QED
  BY <1>1, <1>2, <1>3, <1>4, <1>5, <1>6, <1>7, <1>8, <1>9 DEF Next

-----------------------------------------------------------------------------

\* applyProbeThresholds and persistProbeObservation: the counters tell no more
\* than has been recorded, whatever evaluations broke off in between.
THEOREM GateInvAlways == Spec => []GateInv
<1>1. GateInv /\ [Next]_vars => GateInv'
  BY StepKeepsGateInv
<1> QED
  BY InitGate, <1>1, PTL DEF Spec

\* Counters stop at their thresholds, and the results are those of the
\* evaluation that runs.
THEOREM GateTypeCorrect == Spec => []GateTypeOK
<1>1. GateInv => GateTypeOK
  BY DEF GateInv
<1> QED
  BY GateInvAlways, <1>1, PTL

\* A probe passes only after SuccessThreshold recorded successes in a row with
\* no FailureThreshold failures in a row since.
THEOREM PassesAreEarned == Spec => []PassIsEarned
<1>1. ASSUME GateInv, NEW p \in passed PROVE Earned(p)
  <2> DEFINE S == SuccessThreshold[p]
             F == FailureThreshold[p]
             f == obs[p].failures
             L == Len(record[p])
  <2>1. p \in Probes
    BY <1>1 DEF GateInv, GateTypeOK
  <2>2. S \in Nat \ {0} /\ F \in Nat \ {0} /\ f \in Nat /\ L \in Nat
    BY <1>1, <2>1, ProbesAssumption DEF GateInv, GateTypeOK
  <2>3. f < F /\ S <= L - f /\ \A k \in L - f - S + 1 .. L - f : record[p][k] = TRUE
    BY <1>1, <2>1 DEF GateInv, CountersAreTrue, ResultsAreCurrent, Won
  <2> DEFINE i == L - f - S + 1
             won == i + S - 1
  <2> HIDE DEF S, F, f, L
  <2>4. i \in 1 .. L /\ won = L - f /\ won <= L
    <3>1. i >= 1 /\ i <= L /\ i \in Int
      BY <2>2, <2>3
    <3>2. won = L - f /\ won <= L
      BY <2>2
    <3> QED
      BY <2>2, <3>1, <3>2
  <2>5. Run(p, i, won, TRUE)
    BY <2>3, <2>4 DEF Run, L
  <2>6. ~\E j \in won + 1 .. L : j + F - 1 <= L
    BY <2>2, <2>3, <2>4
  <2> QED
    BY <2>4, <2>5, <2>6 DEF Earned, S, F, L
<1>2. GateInv => PassIsEarned
  BY <1>1 DEF PassIsEarned
<1> QED
  BY GateInvAlways, <1>2, PTL

-----------------------------------------------------------------------------
(* The answer.                                                             *)

\* Members of the gate get their results one by one, and a probe that suggests
\* another composition than the ones before it ends the evaluation.
LEMMA StepKeepsWhole ==
  ASSUME GateInv, EvaluationIsWhole, [Next]_vars
  PROVE  EvaluationIsWhole'
<1>1. CASE \E c \in Written : EditsSpec(c)
  <2>1. passed = {} /\ failed = {} /\ asked = Unset
    BY <1>1 DEF EditsSpec, GateInv, ResultsAreCurrent, EvaluationIsWhole
  <2> QED
    BY <1>1, <2>1 DEF EditsSpec, EvaluationIsWhole
<1>2. CASE Begins
  <2>1. passed = {} /\ failed = {}
    BY <1>2 DEF Begins, GateInv, ResultsAreCurrent
  <2>2. todo' = Probes /\ UNCHANGED <<spec, asked, passed, failed>>
    BY <1>2 DEF Begins
  <2>3. Members(phase') \ Probes = {}
    BY DEF Members
  <2> QED
    BY <2>1, <2>2, <2>3 DEF EvaluationIsWhole
<1>3. ASSUME NEW p \in Probes, SkipsProbe(p) PROVE EvaluationIsWhole'
  <2>1. p \notin Members(phase) /\ phase # "none"
    BY <1>3 DEF SkipsProbe, ComesTo, Members
  <2>2. todo' = todo \ {p} /\ UNCHANGED <<phase, spec, asked, passed, failed>>
    BY <1>3 DEF SkipsProbe
  <2>3. Members(phase) \ todo' = Members(phase) \ todo
    BY <2>1, <2>2
  <2> QED
    BY <2>1, <2>2, <2>3 DEF EvaluationIsWhole
<1>4. ASSUME NEW p \in Probes, NEW success \in BOOLEAN, RunsProbe(p, success)
      PROVE  EvaluationIsWhole'
  <2>1. /\ p \in Members(phase) /\ ~Conflicts(p)
        /\ asked' = (IF Counts(p) THEN Suggests[p] ELSE asked)
        /\ phase' = phase /\ spec' = spec
    BY <1>4 DEF RunsProbe, Members
  <2>2. /\ p \in todo /\ todo' = todo \ {p} /\ phase # "none"
        /\ passed' \cup failed' = passed \cup failed \cup {p}
    BY <1>4, RunsOne
  <2>3. passed' \cup failed' = Members(phase) \ todo'
    BY <2>1, <2>2 DEF EvaluationIsWhole
  <2>4. CASE Counts(p)
    BY <2>1, <2>2, <2>3, <2>4 DEF EvaluationIsWhole, Counts, Conflicts
  <2>5. CASE ~Counts(p)
    BY <2>1, <2>2, <2>3, <2>5 DEF EvaluationIsWhole, Counts
  <2> QED
    BY <2>4, <2>5
<1>5. ASSUME NEW open, Ends(open) PROVE EvaluationIsWhole'
  BY <1>5 DEF Ends, EvaluationIsWhole
<1>6. CASE Answers \/ EvaluationFails \/ \E p \in Probes : Rejects(p)
  BY <1>5, <1>6 DEF Answers, EvaluationFails, Rejects
<1>7. CASE \E ph \in GatePhases : StartsOver(ph)
  BY <1>7 DEF StartsOver, EvaluationIsWhole, Members
<1>8. CASE UNCHANGED vars
  BY <1>8 DEF vars, EvaluationIsWhole, Members
<1> QED
  BY <1>1, <1>2, <1>3, <1>4, <1>6, <1>7, <1>8 DEF Next

\* When every probe of the gate has been run, the composition that applies is
\* the only one asked for, and Aggregate can tell what it is.
LEMMA CompositionIsAgreed ==
  ASSUME GateInv, EvaluationIsWhole, passed \cup failed = Members(phase), NEW c \in Composed(phase)
  PROVE  c = Applies /\ c.kind \in {"All", "Any", "Quorum"}
<1>1. \A d \in Compositions : ValidateFailoverIpSpec(d) =>
        d.kind \in {"All", "Any", "Quorum"} \/ d = Unset
  <2> SUFFICES ASSUME NEW d \in Compositions, ValidateFailoverIpSpec(d),
                      d.kind \notin {"All", "Any", "Quorum"}
               PROVE  d = Unset
    OBVIOUS
  <2>1. d = [kind |-> d.kind, quorum |-> d.quorum] /\ d.kind = ""
    BY DEF Compositions
  <2>2. d.quorum = 0
    BY <2>1 DEF ValidateFailoverIpSpec
  <2> QED
    BY <2>1, <2>2 DEF Unset
<1>2. CASE spec # Unset
  <2>1. c = spec /\ spec \in Compositions /\ ValidateFailoverIpSpec(spec)
    BY <1>2, CompositionAssumption DEF Composed, GateInv, GateTypeOK
  <2> QED
    BY <1>1, <1>2, <2>1 DEF Applies
<1>3. CASE spec = Unset /\ asked # Unset
  <2>1. PICK p \in Members(phase) : Suggests[p] = asked
    BY <1>3 DEF EvaluationIsWhole
  <2>2. \A q \in Members(phase) : Suggests[q] \in {Unset, asked}
    BY <1>3 DEF EvaluationIsWhole
  <2>3. c = asked
    BY <1>3, <2>1, <2>2 DEF Composed
  <2>4. asked \in Compositions /\ ValidateFailoverIpSpec(asked)
    BY <2>1, CompositionAssumption DEF Members, ValidateProbeSpec
  <2> QED
    BY <1>1, <1>3, <2>3, <2>4 DEF Applies
<1>4. CASE spec = Unset /\ asked = Unset
  <2>1. \A q \in Members(phase) : Suggests[q] = Unset
    BY <1>4 DEF EvaluationIsWhole
  <2>2. c = [Unset EXCEPT !.kind = "All"]
    BY <1>4, <2>1 DEF Composed
  <2>3. c.kind = "All"
    BY <2>2 DEF Unset
  <2> QED
    BY <1>4, <2>2, <2>3 DEF Applies
<1> QED
  BY <1>2, <1>3, <1>4

\* Results that add up to an open gate have been earned.
LEMMA AggregateIsDeserved ==
  ASSUME GateInv, PassIsEarned, passed \cup failed = Members(phase),
         Aggregate(passed, failed), Applies.kind \in {"All", "Any", "Quorum"}
  PROVE  Deserves(phase, Applies)
<1> DEFINE earners == {p \in Members(phase) : Earned(p)}
<1>1. passed \subseteq earners
  BY DEF PassIsEarned
<1>2. earners \subseteq Members(phase)
  OBVIOUS
<1>3. CASE Applies.kind = "All"
  <2>1. failed = {}
    BY <1>3 DEF Aggregate
  <2>2. earners = Members(phase)
    BY <1>1, <1>2, <2>1
  <2> QED
    BY <1>3, <2>2 DEF Deserves
<1>4. CASE Applies.kind = "Any"
  <2>1. passed # {}
    BY <1>4 DEF Aggregate
  <2>2. earners # {}
    BY <1>1, <2>1
  <2> QED
    BY <1>4, <2>2 DEF Deserves
<1>5. CASE Applies.kind = "Quorum"
  <2>1. Cardinality(passed) >= Applies.quorum
    BY <1>5 DEF Aggregate
  <2>2. IsFiniteSet(earners)
    BY ProbesAssumption, FS_Subset DEF Members
  <2>3. Cardinality(passed) <= Cardinality(earners)
    BY <1>1, <2>2, FS_Subset
  <2>4. Applies.quorum \in Nat /\ Cardinality(passed) \in Nat /\ Cardinality(earners) \in Nat
    <3>1. IsFiniteSet(passed)
      BY <1>1, <2>2, FS_Subset
    <3>2. spec \in Compositions /\ asked \in Compositions
      BY CompositionAssumption DEF GateInv, GateTypeOK
    <3>3. Applies.quorum \in Nat
      BY <3>2 DEF Applies, Compositions, Unset
    <3> QED
      BY <2>2, <3>1, <3>3, FS_CardinalityType
  <2> HIDE DEF earners
  <2>5. Cardinality(earners) >= Applies.quorum
    BY <2>1, <2>3, <2>4
  <2> QED
    BY <1>5, <2>5 DEF Deserves, earners
<1> QED
  BY <1>3, <1>4, <1>5

\* A gate is found open only when enough of its probes have earned their
\* passes, none of them left out, by every composition that is asked for
\* (evaluateProbePhase, Aggregate), whatever evaluations broke off before.
THEOREM OpenGatesAreDeserved == Spec => OpenIsDeserved
<1>1. Init => EvaluationIsWhole
  BY DEF Init, EvaluationIsWhole
<1>2. GateInv /\ EvaluationIsWhole /\ [Next]_vars => EvaluationIsWhole'
  BY StepKeepsWhole
<1>3. ASSUME GateInv, PassIsEarned, EvaluationIsWhole, [Next]_vars,
             phase # "none", phase' = "none", answer'.open
      PROVE  Members(phase) = {} \/ \A c \in Composed(phase) : Deserves(phase, c)
  <2>1. Answers
    <3>1. ASSUME Ends(FALSE) PROVE FALSE
      BY <1>3, <3>1 DEF Ends
    <3> QED
      BY <1>3, <3>1
      DEF Next, vars, EditsSpec, StartsOver, Begins, SkipsProbe, RunsProbe, Rejects, EvaluationFails
  <2>2. passed \cup failed = Members(phase)
    BY <1>3, <2>1 DEF Answers, EvaluationIsWhole
  <2>3. passed \cup failed = {} \/ Aggregate(passed, failed)
    BY <1>3, <2>1 DEF Answers, Ends
  <2>4. ASSUME NEW c \in Composed(phase), Aggregate(passed, failed) PROVE Deserves(phase, c)
    BY <1>3, <2>2, <2>4, CompositionIsAgreed, AggregateIsDeserved
  <2> QED
    BY <2>2, <2>3, <2>4
<1>4. GateInv /\ PassIsEarned /\ EvaluationIsWhole /\ [Next]_vars =>
        [phase # "none" /\ phase' = "none" /\ answer'.open =>
           Members(phase) = {} \/ \A c \in Composed(phase) : Deserves(phase, c)]_vars
  BY <1>3
<1> QED
  BY <1>1, <1>2, <1>4, GateInvAlways, PassesAreEarned, PTL DEF Spec, OpenIsDeserved
=============================================================================
