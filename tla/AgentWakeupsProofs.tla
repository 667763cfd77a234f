------------------------- MODULE AgentWakeupsProofs -------------------------
(***************************************************************************)
(* Proof that the agent loses no wakeup, for any number of FailoverIps, any *)
(* annotations and interfaces, and watches that lag by any number of        *)
(* changes.                                                                *)
(***************************************************************************)
EXTENDS AgentWakeups, SequenceTheorems, TLAPS

Contents == Content \cup {Absent}
Annotations == Macs \cup {NoMac}

\* A feed that delivers one change, or skips to its last one, still ends with
\* the same content.
LEMMA DeliveryKeepsLast ==
  ASSUME NEW S, NEW s \in Seq(S), s # <<>>, NEW i \in {1, Len(s)}
  PROVE  LET t == SubSeq(s, i + 1, Len(s))
         IN  /\ t \in Seq(S)
             /\ s[i] \in S
             /\ t = <<>> => s[i] = s[Len(s)]
             /\ t # <<>> => t[Len(t)] = s[Len(s)]
<1> DEFINE n == Len(s)
           t == SubSeq(s, i + 1, n)
<1>1. n \in Nat \ {0} /\ i \in 1 .. n
  BY EmptySeq
<1>2. \A k \in 1 .. n : s[k] \in S
  BY <1>1, LenProperties
<1>3. /\ t \in Seq(S)
      /\ Len(t) = IF i + 1 <= n THEN n - i ELSE 0
      /\ \A k \in 1 .. n - i : t[k] = s[i + k]
  <2>1. \A k \in i + 1 .. n : s[k] \in S
    BY <1>1, <1>2
  <2> HIDE DEF n
  <2>2. /\ t \in Seq(S)
        /\ Len(t) = IF i + 1 <= n THEN n - (i + 1) + 1 ELSE 0
        /\ \A k \in 1 .. n - (i + 1) + 1 : t[k] = s[(i + 1) + k - 1]
    BY <1>1, <2>1, SubSeqProperties
  <2>3. QED
    BY <1>1, <2>2
<1> HIDE DEF n, t
<1>4. ASSUME t = <<>> PROVE i = n
  BY <1>1, <1>3, <1>4, EmptySeq
<1>5. ASSUME t # <<>> PROVE t[Len(t)] = s[n]
  <2>1. Len(t) \in Nat \ {0}
    BY <1>3, <1>5, EmptySeq
  <2>2. Len(t) = n - i
    BY <1>1, <1>3, <2>1
  <2>3. t[n - i] = s[i + (n - i)]
    BY <1>1, <1>3, <2>1, <2>2
  <2>4. QED
    BY <1>1, <2>2, <2>3
<1>6. t \in Seq(S) /\ s[i] \in S
  BY <1>1, <1>2, <1>3
<1>7. QED
  BY <1>4, <1>5, <1>6 DEF n, t

\* A feed that grows by a content ends with it.
LEMMA AppendEndsWith ==
  ASSUME NEW S, NEW s \in Seq(S), NEW c \in S
  PROVE  /\ Append(s, c) \in Seq(S)
         /\ Append(s, c) # <<>>
         /\ Append(s, c)[Len(Append(s, c))] = c
<1>1. Len(Append(s, c)) = Len(s) + 1 /\ Len(s) \in Nat /\ Append(s, c) \in Seq(S)
  OBVIOUS
<1>2. Append(s, c)[Len(s) + 1] = c
  OBVIOUS
<1>3. QED
  BY <1>1, <1>2

\* What StoreFoip does to the store and to the feed.
LEMMA StoringIsFed ==
  ASSUME WakeupsTypeOK, FeedsLeadToStore, NEW f \in Foips, NEW c \in Contents,
         StoreFoip(f, c), UNCHANGED foipCache
  PROVE  /\ foip' \in [Foips -> Contents]
         /\ foipFeed' \in [Foips -> Seq(Contents)]
         /\ \A g \in Foips :
              foip'[g] = IF foipFeed'[g] = <<>> THEN foipCache'[g]
                         ELSE foipFeed'[g][Len(foipFeed'[g])]
         /\ \A g \in Foips : foipFeed[g] # <<>> => foipFeed'[g] # <<>>
         /\ c # foip[f] => foipFeed'[f] # <<>>
<1>1. foip' = [foip EXCEPT ![f] = c]
  BY DEF StoreFoip
<1>2. CASE c = foip[f]
  <2>1. foip' = foip /\ foipFeed' = foipFeed
    BY <1>1, <1>2 DEF StoreFoip, WakeupsTypeOK
  <2>2. QED
    BY <1>2, <2>1 DEF WakeupsTypeOK, FeedsLeadToStore, Contents
<1>3. CASE c # foip[f]
  <2>1. foipFeed' = [foipFeed EXCEPT ![f] = Append(foipFeed[f], c)]
    BY <1>3 DEF StoreFoip
  <2>2. foipFeed[f] \in Seq(Contents)
    BY DEF WakeupsTypeOK, Contents
  <2>3. /\ Append(foipFeed[f], c) \in Seq(Contents)
        /\ Append(foipFeed[f], c) # <<>>
        /\ Append(foipFeed[f], c)[Len(Append(foipFeed[f], c))] = c
    BY <2>2, AppendEndsWith
  <2>4. /\ foipFeed'[f] = Append(foipFeed[f], c) /\ foip'[f] = c
        /\ \A g \in Foips \ {f} : foipFeed'[g] = foipFeed[g] /\ foip'[g] = foip[g]
    BY <1>1, <2>1 DEF WakeupsTypeOK
  <2>5. foipFeed' \in [Foips -> Seq(Contents)] /\ foip' \in [Foips -> Contents]
    BY <1>1, <2>1, <2>3 DEF WakeupsTypeOK, Contents
  <2>6. \A g \in Foips :
          foip'[g] = IF foipFeed'[g] = <<>> THEN foipCache'[g]
                     ELSE foipFeed'[g][Len(foipFeed'[g])]
    BY <2>3, <2>4 DEF FeedsLeadToStore
  <2>7. QED
    BY <2>3, <2>4, <2>5, <2>6
<1>4. QED
  BY <1>2, <1>3

\* At first nothing is undelivered and every stored key is queued.
LEMMA InitWakeups == Init => WakeupInv
<1> SUFFICES ASSUME Init PROVE WakeupInv
  OBVIOUS
<1>1. WakeupsTypeOK
  BY DEF Init, WakeupsTypeOK, WorkerState, AtRest
<1>2. QED
  BY <1>1, AbsentAssumption, WakeupsAssumption
  DEF Init, WakeupInv, FeedsLeadToStore, ReadIsCurrent, WorkIsDone, RestIsObeyed, AtRest

-----------------------------------------------------------------------------
(* One lemma per kind of step.                                             *)

\* A write of others, or an annotation: the feeds grow.
LEMMA WritesKeep ==
  ASSUME WakeupInv,
         \/ \E f \in Foips, c \in Contents : OthersWrite(f, c)
         \/ \E m \in Annotations : NodeAnnotated(m)
  PROVE  WakeupInv'
<1>1. ASSUME NEW f \in Foips, NEW c \in Contents, OthersWrite(f, c)
      PROVE  WakeupInv'
  <2> USE <1>1 DEF OthersWrite
  <2>1. /\ foip' \in [Foips -> Contents]
        /\ foipFeed' \in [Foips -> Seq(Contents)]
        /\ \A g \in Foips :
             foip'[g] = IF foipFeed'[g] = <<>> THEN foipCache'[g]
                        ELSE foipFeed'[g][Len(foipFeed'[g])]
        /\ \A g \in Foips : foipFeed[g] # <<>> => foipFeed'[g] # <<>>
    BY StoringIsFed DEF WakeupInv
  <2>2. WakeupsTypeOK'
    BY <2>1 DEF WakeupInv, WakeupsTypeOK, Contents
  <2>3. FeedsLeadToStore'
    BY <2>1 DEF WakeupInv, FeedsLeadToStore
  <2>4. ReadIsCurrent' /\ WorkIsDone'
    BY DEF WakeupInv, ReadIsCurrent, WorkIsDone
  <2>5. RestIsObeyed'
    BY <2>1 DEF WakeupInv, RestIsObeyed
  <2>6. QED
    BY <2>2, <2>3, <2>4, <2>5 DEF WakeupInv
<1>2. ASSUME NEW m \in Annotations, NodeAnnotated(m)
      PROVE  WakeupInv'
  <2> USE <1>2 DEF NodeAnnotated
  <2>1. /\ macFeed' \in Seq(Annotations)
        /\ macFeed' # <<>>
        /\ macFeed'[Len(macFeed')] = m
    <3>1. macFeed \in Seq(Annotations) /\ macFeed' = Append(macFeed, m)
      BY DEF WakeupInv, WakeupsTypeOK, Annotations
    <3>2. QED
      BY <3>1, AppendEndsWith
  <2>2. WakeupsTypeOK'
    BY <2>1 DEF WakeupInv, WakeupsTypeOK, Annotations
  <2>3. FeedsLeadToStore'
    BY <2>1 DEF WakeupInv, FeedsLeadToStore
  <2>4. ReadIsCurrent' /\ WorkIsDone' /\ RestIsObeyed'
    BY DEF WakeupInv, ReadIsCurrent, WorkIsDone, RestIsObeyed
  <2>5. QED
    BY <2>2, <2>3, <2>4 DEF WakeupInv
<1>3. QED
  BY <1>1, <1>2

\* A delivery of the FailoverIp watch queues the key it is about.
LEMMA FoipDeliveryKeeps ==
  ASSUME WakeupInv, NEW f \in Foips, NEW i, FoipDelivered(f, i)
  PROVE  WakeupInv'
<1> DEFINE s == foipFeed[f]
           t == SubSeq(s, i + 1, Len(s))
<1>1. /\ i \in {1, Len(s)} /\ s # <<>> /\ s \in Seq(Contents)
      /\ foipCache' = [foipCache EXCEPT ![f] = s[i]]
      /\ foipFeed' = [foipFeed EXCEPT ![f] = t]
      /\ dirty' = dirty \cup {f}
      /\ UNCHANGED <<storeVars, macFeed, macCache, delayed, worker, held>>
  BY DEF FoipDelivered, WakeupInv, WakeupsTypeOK, Contents
<1>2. /\ t \in Seq(Contents)
      /\ s[i] \in Contents
      /\ t = <<>> => s[i] = s[Len(s)]
      /\ t # <<>> => t[Len(t)] = s[Len(s)]
  BY <1>1, DeliveryKeepsLast
<1>3. foip[f] = s[Len(s)]
  BY <1>1 DEF WakeupInv, FeedsLeadToStore
<1>4. /\ foipFeed'[f] = t /\ foipCache'[f] = s[i]
      /\ \A g \in Foips \ {f} : foipFeed'[g] = foipFeed[g] /\ foipCache'[g] = foipCache[g]
  BY <1>1 DEF WakeupInv, WakeupsTypeOK
<1>5. foipFeed' \in [Foips -> Seq(Contents)] /\ foipCache' \in [Foips -> Contents]
  BY <1>1, <1>2 DEF WakeupInv, WakeupsTypeOK, Contents
<1> HIDE DEF s, t
<1>6. WakeupsTypeOK'
  BY <1>1, <1>5 DEF WakeupInv, WakeupsTypeOK, Contents, storeVars
<1>7. FeedsLeadToStore'
  BY <1>1, <1>2, <1>3, <1>4 DEF WakeupInv, FeedsLeadToStore, storeVars
<1>8. ReadIsCurrent' /\ WorkIsDone' /\ RestIsObeyed'
  <2>1. WorkIsDone'
    BY <1>1 DEF WakeupInv, WorkIsDone
  <2>2. ReadIsCurrent'
    BY <1>1, <1>4 DEF WakeupInv, WakeupsTypeOK, WorkerState, ReadIsCurrent
  <2>3. RestIsObeyed'
    BY <1>1, <1>4 DEF WakeupInv, RestIsObeyed
  <2>4. QED
    BY <2>1, <2>2, <2>3
<1>9. QED
  BY <1>6, <1>7, <1>8 DEF WakeupInv

\* A delivery of the node watch queues every cached key when the annotation
\* is another one.
LEMMA NodeDeliveryKeeps ==
  ASSUME WakeupInv, NEW i, NodeDelivered(i)
  PROVE  WakeupInv'
<1> DEFINE t == SubSeq(macFeed, i + 1, Len(macFeed))
<1>1. /\ i \in {1, Len(macFeed)} /\ macFeed # <<>> /\ macFeed \in Seq(Annotations)
      /\ macCache' = macFeed[i]
      /\ macFeed' = t
      /\ macCache' # macCache => dirty' = dirty \cup nodeToAllFoips
      /\ macCache' = macCache => dirty' = dirty
      /\ UNCHANGED <<storeVars, foipFeed, foipCache, delayed, worker, held>>
  BY DEF NodeDelivered, localNodeMACChangedPredicate, WakeupInv, WakeupsTypeOK, Annotations
<1>2. /\ t \in Seq(Annotations)
      /\ macFeed[i] \in Annotations
      /\ t = <<>> => macFeed[i] = macFeed[Len(macFeed)]
      /\ t # <<>> => t[Len(t)] = macFeed[Len(macFeed)]
  BY <1>1, DeliveryKeepsLast
<1>3. mac = macFeed[Len(macFeed)]
  BY <1>1 DEF WakeupInv, FeedsLeadToStore
<1> HIDE DEF t
<1>4. WakeupsTypeOK'
  <2>1. dirty' \subseteq Foips
    BY <1>1 DEF WakeupInv, WakeupsTypeOK, nodeToAllFoips
  <2>2. QED
    BY <1>1, <1>2, <2>1 DEF WakeupInv, WakeupsTypeOK, Annotations, storeVars
<1>5. FeedsLeadToStore'
  BY <1>1, <1>2, <1>3 DEF WakeupInv, FeedsLeadToStore, storeVars
<1>6. WorkIsDone'
  BY <1>1 DEF WakeupInv, WorkIsDone
<1>7. CASE macCache' = macCache
  BY <1>1, <1>4, <1>5, <1>6, <1>7 DEF WakeupInv, ReadIsCurrent, RestIsObeyed
<1>8. CASE macCache' # macCache
  <2>1. RestIsObeyed'
    BY <1>1, <1>8 DEF RestIsObeyed, nodeToAllFoips
  <2>2. ReadIsCurrent'
    <3> SUFFICES ASSUME worker.key # None, worker.key \notin dirty' PROVE FALSE
      BY <1>1 DEF ReadIsCurrent
    <3>1. worker.key \in Foips \ dirty
      BY <1>1, <1>8 DEF WakeupInv, WakeupsTypeOK, WorkerState
    <3>2. foipCache[worker.key] = worker.read /\ worker.read # Absent
      BY <3>1 DEF WakeupInv, ReadIsCurrent, WorkIsDone
    <3>3. worker.key \in nodeToAllFoips
      BY <3>1, <3>2 DEF nodeToAllFoips
    <3>4. QED
      BY <1>1, <1>8, <3>3
  <2>3. QED
    BY <1>4, <1>5, <1>6, <2>1, <2>2 DEF WakeupInv
<1>9. QED
  BY <1>7, <1>8

\* A restart reads everything anew.
LEMMA RestartKeeps ==
  ASSUME WakeupInv, NEW kept \in BOOLEAN, Restarts(kept)
  PROVE  WakeupInv'
<1> USE DEF Restarts, storeVars, AtRest
<1>1. WakeupsTypeOK'
  <2>1. worker' \in WorkerState
    BY DEF WorkerState
  <2>2. held' \in [Foips -> SUBSET Links]
    BY DEF WakeupInv, WakeupsTypeOK
  <2>3. QED
    BY <2>1, <2>2 DEF WakeupInv, WakeupsTypeOK
<1>2. FeedsLeadToStore'
  BY DEF FeedsLeadToStore
<1>3. ReadIsCurrent' /\ WorkIsDone' /\ RestIsObeyed'
  BY DEF ReadIsCurrent, WorkIsDone, RestIsObeyed
<1>4. QED
  BY <1>1, <1>2, <1>3 DEF WakeupInv

\* Taking a key, the end of a backoff, the read of the node and an error
\* change no interface and no object.
LEMMA QueueKeeps ==
  ASSUME WakeupInv,
         \/ \E f \in Foips : Takes(f) \/ BackoffEnds(f)
         \/ ReadsNode \/ LinkFails \/ ReportFails
  PROVE  WakeupInv'
<1>1. ASSUME NEW f \in Foips, Takes(f) PROVE WakeupInv'
  <2>1. WakeupsTypeOK'
    BY <1>1 DEF WakeupInv, WakeupsTypeOK, WorkerState, Takes, AtRest, storeVars, cacheVars
  <2>2. FeedsLeadToStore'
    BY <1>1 DEF WakeupInv, FeedsLeadToStore, Takes, storeVars, cacheVars
  <2>3. ReadIsCurrent' /\ WorkIsDone'
    BY <1>1, WakeupsAssumption DEF ReadIsCurrent, WorkIsDone, Takes, AtRest, cacheVars
  <2>4. RestIsObeyed'
    <3>1. \A g \in Foips : worker.key # g
      BY <1>1, WakeupsAssumption DEF Takes, AtRest
    <3>2. \A g \in Foips \ {f} : g \notin dirty' => g \notin dirty
      BY <1>1 DEF Takes
    <3>3. worker'.key # f => foipCache[f] = Absent
      BY <1>1 DEF Takes, AtRest
    <3>4. UNCHANGED <<foipCache, macCache, foipFeed, held, delayed>>
      BY <1>1 DEF Takes, cacheVars
    <3>5. QED
      BY <3>1, <3>2, <3>3, <3>4 DEF WakeupInv, RestIsObeyed
  <2>5. QED
    BY <2>1, <2>2, <2>3, <2>4 DEF WakeupInv
<1>2. ASSUME NEW f \in Foips, BackoffEnds(f) PROVE WakeupInv'
  BY <1>2 DEF WakeupInv, WakeupsTypeOK, FeedsLeadToStore, ReadIsCurrent, WorkIsDone,
     RestIsObeyed, BackoffEnds, storeVars, cacheVars
<1>3. ASSUME worker.pc # "rest", ReturnsError,
             UNCHANGED <<storeVars, cacheVars, dirty, held>>
      PROVE  WakeupInv'
  <2>1. worker.key \in Foips
    BY <1>3 DEF WakeupInv, WakeupsTypeOK, WorkerState, WorkIsDone
  <2>2. WakeupsTypeOK'
    BY <1>3, <2>1 DEF WakeupInv, WakeupsTypeOK, WorkerState, ReturnsError, AtRest,
       storeVars, cacheVars
  <2>3. FeedsLeadToStore' /\ ReadIsCurrent' /\ WorkIsDone'
    BY <1>3 DEF WakeupInv, FeedsLeadToStore, ReadIsCurrent, WorkIsDone, ReturnsError,
       AtRest, storeVars, cacheVars
  <2>4. RestIsObeyed'
    <3>1. delayed' = delayed \cup {worker.key}
      BY <1>3 DEF ReturnsError
    <3>2. \A f \in Foips : f \notin dirty' \cup delayed' => f \notin dirty \cup delayed /\ worker.key # f
      BY <1>3, <3>1
    <3>3. QED
      BY <1>3, <3>2 DEF WakeupInv, RestIsObeyed, cacheVars
  <2>5. QED
    BY <2>2, <2>3, <2>4 DEF WakeupInv
<1>4. ASSUME ReadsNode, macCache # NoMac PROVE WakeupInv'
  <2>1. /\ worker' = [worker EXCEPT !.pc = "apply", !.mac = macCache]
        /\ UNCHANGED <<storeVars, cacheVars, dirty, delayed, held>>
    BY <1>4 DEF ReadsNode
  <2>2. /\ worker'.key = worker.key /\ worker'.read = worker.read
        /\ worker'.pc = "apply" /\ worker'.mac = macCache
        /\ worker' \in WorkerState
    BY <2>1 DEF WakeupInv, WakeupsTypeOK, WorkerState
  <2>3. WakeupsTypeOK' /\ FeedsLeadToStore'
    BY <2>1, <2>2 DEF WakeupInv, WakeupsTypeOK, FeedsLeadToStore, storeVars, cacheVars
  <2>4. ReadIsCurrent' /\ WorkIsDone' /\ RestIsObeyed'
    BY <1>4, <2>1, <2>2
    DEF ReadsNode, WakeupInv, ReadIsCurrent, WorkIsDone, RestIsObeyed, cacheVars
  <2>5. QED
    BY <2>3, <2>4 DEF WakeupInv
<1>5. QED
  BY <1>1, <1>2, <1>3, <1>4 DEF ReadsNode, LinkFails, ReportFails

\* The interface is made to obey what was read.
LEMMA ApplyKeeps ==
  ASSUME WakeupInv, Assigns \/ Removes
  PROVE  WakeupInv'
<1> DEFINE k == worker.key
           h == IF worker.read.mine THEN held[k] \cup {worker.mac} ELSE held[k] \ {worker.mac}
<1>1. /\ worker.pc = "apply" /\ worker.mac \in Links
      /\ held' = [held EXCEPT ![k] = h]
      /\ worker' \in {AtRest, [worker EXCEPT !.pc = "report"]}
      /\ worker' = AtRest => (worker.read.mine => worker.read.listed)
      /\ worker' # AtRest => (worker.read.mine => ~worker.read.listed)
      /\ UNCHANGED <<storeVars, cacheVars, dirty, delayed>>
  BY DEF Assigns, Removes, Returns, Moves, AtRest
<1>2. k \in Foips /\ k # None
  BY <1>1 DEF WakeupInv, WakeupsTypeOK, WorkerState, WorkIsDone
<1>3. /\ held'[k] = h
      /\ \A g \in Foips \ {k} : held'[g] = held[g]
      /\ held' \in [Foips -> SUBSET Links]
      /\ worker.read.mine <=> worker.mac \in h
  BY <1>1, <1>2 DEF WakeupInv, WakeupsTypeOK
<1> HIDE DEF h
<1>4. worker' \in WorkerState
  BY <1>1 DEF WakeupInv, WakeupsTypeOK, WorkerState, AtRest
<1>5. WakeupsTypeOK' /\ FeedsLeadToStore'
  BY <1>1, <1>3, <1>4 DEF WakeupInv, WakeupsTypeOK, FeedsLeadToStore, storeVars, cacheVars
<1>6. CASE worker' = AtRest
  <2>1. ReadIsCurrent' /\ WorkIsDone'
    BY <1>6 DEF ReadIsCurrent, WorkIsDone, AtRest
  <2>2. k \notin dirty => worker.read = foipCache[k] /\ worker.mac = macCache
    BY <1>1, <1>2 DEF WakeupInv, ReadIsCurrent
  <2>3. RestIsObeyed'
    BY <1>1, <1>2, <1>3, <1>6, <2>2 DEF WakeupInv, RestIsObeyed, AtRest, cacheVars
  <2>4. QED
    BY <1>5, <2>1, <2>3 DEF WakeupInv
<1>7. CASE worker' # AtRest
  <2>1. worker' = [worker EXCEPT !.pc = "report"]
    BY <1>1, <1>7
  <2>2. /\ worker'.key = k /\ worker'.read = worker.read
        /\ worker'.pc = "report" /\ worker'.mac = worker.mac
    BY <2>1 DEF WakeupInv, WakeupsTypeOK, WorkerState
  <2>3. ReadIsCurrent'
    BY <1>1, <2>2 DEF WakeupInv, ReadIsCurrent, cacheVars
  <2>4. WorkIsDone'
    BY <1>1, <1>2, <1>3, <1>7, <2>2 DEF WakeupInv, WorkIsDone
  <2>5. RestIsObeyed'
    BY <1>1, <1>3, <2>2 DEF WakeupInv, RestIsObeyed, cacheVars
  <2>6. QED
    BY <1>5, <2>3, <2>4, <2>5 DEF WakeupInv
<1>8. QED
  BY <1>6, <1>7

\* The report is stored, or another report like it is already on its way back.
LEMMA ReportKeeps ==
  ASSUME WakeupInv, Reports
  PROVE  WakeupInv'
<1> DEFINE k == worker.key
           c == [foip[k] EXCEPT !.listed = worker.read.mine]
<1>1. /\ worker.pc = "report" /\ foip[k] # Absent
      /\ StoreFoip(k, c)
      /\ worker' = AtRest
      /\ UNCHANGED <<mac, macFeed, foipCache, macCache, dirty, delayed, held>>
  BY DEF Reports, Returns
<1>2. k \in Foips /\ k # None /\ worker.read \in Content
  BY <1>1 DEF WakeupInv, WakeupsTypeOK, WorkerState, WorkIsDone
<1>3. foip[k] \in Content /\ c \in Contents /\ c.listed = worker.read.mine
  BY <1>1, <1>2 DEF WakeupInv, WakeupsTypeOK, Content, Contents
<1> HIDE DEF c
<1>4. /\ foip' \in [Foips -> Contents]
      /\ foipFeed' \in [Foips -> Seq(Contents)]
      /\ \A g \in Foips :
           foip'[g] = IF foipFeed'[g] = <<>> THEN foipCache'[g]
                      ELSE foipFeed'[g][Len(foipFeed'[g])]
      /\ \A g \in Foips : foipFeed[g] # <<>> => foipFeed'[g] # <<>>
      /\ c # foip[k] => foipFeed'[k] # <<>>
  BY <1>1, <1>2, <1>3, StoringIsFed DEF WakeupInv
<1>5. WakeupsTypeOK' /\ FeedsLeadToStore'
  <2>1. worker' \in WorkerState
    BY <1>1 DEF AtRest, WorkerState
  <2>2. QED
    BY <1>1, <1>4, <2>1 DEF WakeupInv, WakeupsTypeOK, FeedsLeadToStore, Contents
<1>6. ReadIsCurrent' /\ WorkIsDone'
  BY <1>1 DEF ReadIsCurrent, WorkIsDone, AtRest
<1>7. k \notin dirty =>
        /\ macCache \in Links
        /\ foipCache[k].mine <=> macCache \in held[k]
        /\ foipCache[k].mine => foipFeed'[k] # <<>>
  <2>1. SUFFICES ASSUME k \notin dirty
                 PROVE  /\ macCache \in Links
                        /\ foipCache[k].mine <=> macCache \in held[k]
                        /\ foipCache[k].mine => foipFeed'[k] # <<>>
    OBVIOUS
  <2>2. worker.read = foipCache[k] /\ worker.mac = macCache
    BY <1>1, <1>2, <2>1 DEF WakeupInv, ReadIsCurrent
  <2>3. ASSUME foipCache[k].mine, foipFeed[k] = <<>> PROVE c # foip[k]
    <3>1. foip[k] = worker.read
      BY <1>2, <2>2, <2>3 DEF WakeupInv, FeedsLeadToStore
    <3>2. worker.read.mine /\ ~worker.read.listed
      BY <1>1, <2>2, <2>3 DEF WakeupInv, WorkIsDone
    <3>3. QED
      BY <1>3, <3>1, <3>2
  <2>4. QED
    BY <1>1, <1>2, <1>4, <2>2, <2>3 DEF WakeupInv, WorkIsDone
<1>8. RestIsObeyed'
  <2> SUFFICES ASSUME NEW g \in Foips, g \notin dirty \cup delayed, foipCache[g] # Absent
               PROVE  /\ macCache \in Links
                      /\ foipCache[g].mine <=> macCache \in held[g]
                      /\ foipCache[g].mine => foipCache[g].listed \/ foipFeed'[g] # <<>>
    BY <1>1 DEF RestIsObeyed
  <2>1. CASE g = k
    BY <1>7, <2>1
  <2>2. CASE g # k
    BY <1>4, <2>2 DEF WakeupInv, RestIsObeyed
  <2>3. QED
    BY <2>1, <2>2
<1>9. QED
  BY <1>5, <1>6, <1>8 DEF WakeupInv

-----------------------------------------------------------------------------
(* The theorems.                                                           *)

\* Every step of the watches, the queue and the worker keeps the invariant.
LEMMA StepKeepsWakeupInv == WakeupInv /\ [Next]_vars => WakeupInv'
<1> SUFFICES ASSUME WakeupInv, [Next]_vars PROVE WakeupInv'
  OBVIOUS
<1>1. CASE UNCHANGED vars
  BY <1>1 DEF WakeupInv, WakeupsTypeOK, FeedsLeadToStore, ReadIsCurrent, WorkIsDone,
     RestIsObeyed, vars, storeVars, cacheVars
<1>2. CASE Next
  BY <1>2, WritesKeep, FoipDeliveryKeeps, NodeDeliveryKeeps, RestartKeeps, QueueKeeps,
     ApplyKeeps, ReportKeeps
  DEF Next, Delivers, Works, Contents, Annotations
<1>3. QED
  BY <1>1, <1>2

\* The inductive invariant holds in every run: what the caches hold leads to
\* what is stored, and a reconcile works on what the caches hold or is due to
\* be repeated.
THEOREM WakeupInvAlways == Spec => []WakeupInv
BY InitWakeups, StepKeepsWakeupInv, PTL DEF Spec

\* The agent is never left asleep on a FailoverIp that its interface does not
\* obey: Reconcile, the two watches and the mapping of node events to
\* FailoverIps lose no change.
THEOREM NoWakeupLostAlways == Spec => []NoWakeupLost
<1>1. ASSUME WakeupInv PROVE NoWakeupLost
  BY <1>1 DEF WakeupInv, FeedsLeadToStore, RestIsObeyed, NoWakeupLost, Asleep, Obeyed
<1>2. QED
  BY WakeupInvAlways, <1>1, PTL
=============================================================================
