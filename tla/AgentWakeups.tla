---------------------------- MODULE AgentWakeups ----------------------------
(***************************************************************************)
(* What wakes the agent of one node: SetupWithManager of the node-interface *)
(* controller, its predicates and mapping function, and Reconcile as a      *)
(* consumer of the work queue.  NodeAgent leaves the queue out and lets an  *)
(* agent act whenever it has work; this module is about why it will.        *)
(*                                                                         *)
(* The agent never polls.  It reads two informer caches, of FailoverIps and *)
(* of nodes, which lag behind the API server independently of each other,   *)
(* and it is queued by the events of these caches only.  The watches, the   *)
(* caches and the queue (controller-runtime) are external.                  *)
(***************************************************************************)
EXTENDS Naturals, Sequences, FiniteSets

CONSTANTS
  Foips,   \* the FailoverIps that may exist
  Macs,    \* values of the MAC annotation of the node
  NoMac,   \* the node has no MAC annotation
  Links,   \* the MACs that an interface of the node has
  Absent,  \* the FailoverIp does not exist
  None,    \* no key
  MaxLag   \* bound: changes that a watch has not delivered yet

ASSUME WakeupsAssumption ==
  /\ Links \subseteq Macs
  /\ NoMac \notin Macs
  /\ None \notin Foips
  /\ MaxLag \in Nat

\* What the agent reads of a FailoverIp: whether the status names its node as
\* source or target, and whether LocalOwners lists it.
Content == [mine : BOOLEAN, listed : BOOLEAN]

ASSUME AbsentAssumption == Absent \notin Content

VARIABLES
  foip,      \* the stored FailoverIps
  mac,       \* the stored MAC annotation of the node
  foipFeed,  \* per FailoverIp: its later contents on their way to the cache
  macFeed,   \* the later annotations on their way to the cache
  foipCache, \* the FailoverIps in the informer cache
  macCache,  \* the annotation in the informer cache
  dirty,     \* keys to be reconciled
  delayed,   \* keys that wait out a backoff
  worker,    \* the reconcile in progress: its key, where it is, what it read
  held       \* per FailoverIp: the interfaces that hold the address

storeVars == <<foip, mac>>
cacheVars == <<foipFeed, macFeed, foipCache, macCache>>
vars == <<storeVars, cacheVars, dirty, delayed, worker, held>>

AtRest == [key |-> None, pc |-> "rest", read |-> Absent, mac |-> NoMac]

WorkerState ==
  [key : Foips \cup {None}, pc : {"rest", "node", "apply", "report"},
   read : Content \cup {Absent}, mac : Macs \cup {NoMac}]

WakeupsTypeOK ==
  /\ foip \in [Foips -> Content \cup {Absent}]
  /\ mac \in Macs \cup {NoMac}
  /\ foipFeed \in [Foips -> Seq(Content \cup {Absent})]
  /\ macFeed \in Seq(Macs \cup {NoMac})
  /\ foipCache \in [Foips -> Content \cup {Absent}]
  /\ macCache \in Macs \cup {NoMac}
  /\ dirty \subseteq Foips
  /\ delayed \subseteq Foips
  /\ worker \in WorkerState
  /\ held \in [Foips -> SUBSET Links]

\* Nothing exists; the agent starts on a node that holds nothing.
Init ==
  /\ foip = [f \in Foips |-> Absent]
  /\ mac \in Macs \cup {NoMac}
  /\ foipFeed = [f \in Foips |-> <<>>]
  /\ macFeed = <<>>
  /\ foipCache = foip
  /\ macCache = mac
  /\ dirty = {}
  /\ delayed = {}
  /\ worker = AtRest
  /\ held = [f \in Foips |-> {}]

-----------------------------------------------------------------------------
(* The API server and the watches.                                         *)

\* The stored object takes a content, and the watch will tell of a change.
StoreFoip(f, c) ==
  /\ foip' = [foip EXCEPT ![f] = c]
  /\ foipFeed' = IF c = foip[f] THEN foipFeed ELSE [foipFeed EXCEPT ![f] = Append(@, c)]

\* The FailoverIp is created or deleted, the controller selects or clears, or
\* another agent writes the whole list.
OthersWrite(f, c) ==
  /\ Len(foipFeed[f]) < MaxLag
  /\ c # foip[f]
  /\ StoreFoip(f, c)
  /\ UNCHANGED <<mac, macFeed, foipCache, macCache, dirty, delayed, worker, held>>

NodeAnnotated(m) ==
  /\ Len(macFeed) < MaxLag
  /\ m # mac
  /\ mac' = m
  /\ macFeed' = Append(macFeed, m)
  /\ UNCHANGED <<foip, foipFeed, foipCache, macCache, dirty, delayed, worker, held>>

\* ResourceVersionChangedPredicate lets every change of a FailoverIp through.
\* A broken watch lists again and skips to the last content.
FoipDelivered(f, i) ==
  /\ i \in {1, Len(foipFeed[f])}
  /\ foipFeed[f] # <<>>
  /\ foipCache' = [foipCache EXCEPT ![f] = foipFeed[f][i]]
  /\ foipFeed' = [foipFeed EXCEPT ![f] = SubSeq(@, i + 1, Len(@))]
  /\ dirty' = dirty \cup {f}
  /\ UNCHANGED <<storeVars, macFeed, macCache, delayed, worker, held>>

\* Mutant: only an annotation that appears counts as a change.
localNodeMACChangedPredicate_Added(old, new) == old = NoMac /\ new # NoMac

\* The predicate on updates of the agent's own node.
localNodeMACChangedPredicate(old, new) == old # new

\* The keys a node event is mapped to: the FailoverIps of the cache.
nodeToAllFoips == {f \in Foips : foipCache[f] # Absent}

NodeDelivered(i) ==
  /\ i \in {1, Len(macFeed)}
  /\ macFeed # <<>>
  /\ macCache' = macFeed[i]
  /\ macFeed' = SubSeq(macFeed, i + 1, Len(macFeed))
  /\ dirty' = IF localNodeMACChangedPredicate(macCache, macFeed[i])
                THEN dirty \cup nodeToAllFoips ELSE dirty
  /\ UNCHANGED <<storeVars, foipFeed, foipCache, delayed, worker, held>>

\* A restarted agent fills its caches from a list and is told of everything
\* in them.  After a reboot of the node the interfaces are bare.
Restarts(kept) ==
  /\ foipFeed' = [f \in Foips |-> <<>>]
  /\ macFeed' = <<>>
  /\ foipCache' = foip
  /\ macCache' = mac
  /\ dirty' = {f \in Foips : foip[f] # Absent}
  /\ delayed' = {}
  /\ worker' = AtRest
  /\ held' = [f \in Foips |-> IF kept THEN held[f] ELSE {}]
  /\ UNCHANGED storeVars

-----------------------------------------------------------------------------
(* The queue and Reconcile.                                                *)

Moves(pc) == worker' = [worker EXCEPT !.pc = pc]

Returns == worker' = AtRest

\* An error is retried with a backoff.
ReturnsError ==
  /\ worker' = AtRest
  /\ delayed' = delayed \cup {worker.key}

\* The worker takes a key; a key that is queued again meanwhile stays dirty.
\* Get of the FailoverIp: a missing one is nothing to do.
Takes(f) ==
  /\ worker = AtRest
  /\ f \in dirty
  /\ dirty' = dirty \ {f}
  /\ worker' = IF foipCache[f] = Absent THEN AtRest
               ELSE [AtRest EXCEPT !.key = f, !.pc = "node", !.read = foipCache[f]]
  /\ UNCHANGED <<storeVars, cacheVars, delayed, held>>

\* Mutant: a missing annotation is no error.
ReadsNode_MissingIgnored ==
  /\ worker.pc = "node"
  /\ IF macCache = NoMac
       THEN Returns /\ UNCHANGED delayed
       ELSE worker' = [worker EXCEPT !.pc = "apply", !.mac = macCache] /\ UNCHANGED delayed
  /\ UNCHANGED <<storeVars, cacheVars, dirty, held>>

\* Get of the node.
ReadsNode ==
  /\ worker.pc = "node"
  /\ IF macCache = NoMac
       THEN ReturnsError
       ELSE worker' = [worker EXCEPT !.pc = "apply", !.mac = macCache] /\ UNCHANGED delayed
  /\ UNCHANGED <<storeVars, cacheVars, dirty, held>>

\* findLinkByMAC finds no interface, or netlink refuses the change.
LinkFails ==
  /\ worker.pc = "apply"
  /\ ReturnsError
  /\ UNCHANGED <<storeVars, cacheVars, dirty, held>>

\* Mutant: the report is only made when the address had to be added.
Assigns_ReportsWhenAdded ==
  /\ worker.pc = "apply"
  /\ worker.mac \in Links
  /\ worker.read.mine
  /\ held' = [held EXCEPT ![worker.key] = @ \cup {worker.mac}]
  /\ IF worker.read.listed \/ worker.mac \in held[worker.key]
       THEN Returns ELSE Moves("report")
  /\ UNCHANGED <<storeVars, cacheVars, dirty, delayed>>

Assigns ==
  /\ worker.pc = "apply"
  /\ worker.mac \in Links
  /\ worker.read.mine
  /\ held' = [held EXCEPT ![worker.key] = @ \cup {worker.mac}]
  /\ IF worker.read.listed THEN Returns ELSE Moves("report")
  /\ UNCHANGED <<storeVars, cacheVars, dirty, delayed>>

Removes ==
  /\ worker.pc = "apply"
  /\ worker.mac \in Links
  /\ ~worker.read.mine
  /\ held' = [held EXCEPT ![worker.key] = @ \ {worker.mac}]
  /\ IF worker.read.listed /\ worker.mac \in held[worker.key]
       THEN Moves("report") ELSE Returns
  /\ UNCHANGED <<storeVars, cacheVars, dirty, delayed>>

\* The patch of LocalOwners.
Reports ==
  /\ worker.pc = "report"
  /\ foip[worker.key] # Absent
  /\ StoreFoip(worker.key, [foip[worker.key] EXCEPT !.listed = worker.read.mine])
  /\ Returns
  /\ UNCHANGED <<mac, macFeed, foipCache, macCache, dirty, delayed, held>>

\* The patch is lost, or the FailoverIp is gone.
ReportFails ==
  /\ worker.pc = "report"
  /\ ReturnsError
  /\ UNCHANGED <<storeVars, cacheVars, dirty, held>>

BackoffEnds(f) ==
  /\ f \in delayed
  /\ delayed' = delayed \ {f}
  /\ dirty' = dirty \cup {f}
  /\ UNCHANGED <<storeVars, cacheVars, worker, held>>

-----------------------------------------------------------------------------

Works == ReadsNode \/ Assigns \/ Removes \/ Reports

\* The failures that the state explains.
LinkMissing == LinkFails /\ worker.mac \notin Links
FoipGone == ReportFails /\ foip[worker.key] = Absent

Delivers ==
  \/ \E f \in Foips, i \in 1 .. MaxLag + 1 : FoipDelivered(f, i)
  \/ \E i \in 1 .. MaxLag : NodeDelivered(i)

Next ==
  \/ \E f \in Foips, c \in Content \cup {Absent} : OthersWrite(f, c)
  \/ \E m \in Macs \cup {NoMac} : NodeAnnotated(m)
  \/ Delivers
  \/ \E kept \in BOOLEAN : Restarts(kept)
  \/ \E f \in Foips : Takes(f) \/ BackoffEnds(f)
  \/ Works
  \/ LinkFails
  \/ ReportFails

Spec == Init /\ [][Next]_vars

\* The watches deliver, a backoff ends, the worker goes on, and the queue is
\* served in the order of arrival, so that no key is passed over for ever.
Fairness ==
  /\ \A f \in Foips :
       /\ WF_vars(\E i \in 1 .. MaxLag + 1 : FoipDelivered(f, i))
       /\ WF_vars(BackoffEnds(f))
       /\ SF_vars(Takes(f))
  /\ WF_vars(\E i \in 1 .. MaxLag : NodeDelivered(i))
  /\ WF_vars(Works \/ LinkMissing \/ FoipGone)

\* A step in which nobody else writes and nothing fails without a reason.
CalmStep ==
  \/ Delivers
  \/ \E f \in Foips : Takes(f) \/ BackoffEnds(f)
  \/ Works
  \/ LinkMissing
  \/ FoipGone

LiveSpec == Spec /\ Fairness /\ <>[][CalmStep]_vars

-----------------------------------------------------------------------------
(* Properties.                                                             *)

\* The interface and the report are what a status and an annotation ask for.
Obeyed(f, c, m) ==
  c # Absent =>
    /\ m \in Links
    /\ IF c.mine THEN m \in held[f] /\ c.listed ELSE m \notin held[f]

\* Nothing is under way that would wake the agent for a FailoverIp.
Asleep(f) ==
  /\ foipFeed[f] = <<>>
  /\ macFeed = <<>>
  /\ f \notin dirty \cup delayed
  /\ worker.key # f

\* No wakeup is lost: when the agent has no reason left to look at a
\* FailoverIp, the interface is what the stored status and the stored
\* annotation ask for, whatever order the two watches delivered in, whichever
\* changes came while a reconcile was running and whatever failed half way.
NoWakeupLost == \A f \in Foips : Asleep(f) => Obeyed(f, foip[f], mac)

\* After the last write of others the agent gets there, if the node has a MAC
\* of one of its interfaces.
AgentCatchesUp ==
  <>[](mac \in Links => \A f \in Foips : Obeyed(f, foip[f], mac))

-----------------------------------------------------------------------------
(* The inductive invariant behind NoWakeupLost.                            *)

\* A cache is one of the contents of the store, and the feed leads from it to
\* the current one.
FeedsLeadToStore ==
  /\ \A f \in Foips :
       foip[f] = IF foipFeed[f] = <<>> THEN foipCache[f] ELSE foipFeed[f][Len(foipFeed[f])]
  /\ mac = IF macFeed = <<>> THEN macCache ELSE macFeed[Len(macFeed)]

\* What a running reconcile has read is what the caches hold, or its key has
\* been queued again.
ReadIsCurrent ==
  worker.key # None /\ worker.key \notin dirty =>
    /\ worker.read = foipCache[worker.key]
    /\ worker.pc \in {"apply", "report"} => worker.mac = macCache

\* What the reconcile has done so far.
WorkIsDone ==
  /\ worker.key = None <=> worker.pc = "rest"
  /\ worker.key # None => worker.read # Absent
  /\ worker.pc = "report" =>
       /\ worker.mac \in Links
       /\ worker.read.mine <=> worker.mac \in held[worker.key]
       /\ worker.read.mine => ~worker.read.listed

\* A key that is not queued and not being worked on is obeyed as far as the
\* caches know, but for a report that is on its way back.
RestIsObeyed ==
  \A f \in Foips :
    f \notin dirty \cup delayed /\ worker.key # f /\ foipCache[f] # Absent =>
      /\ macCache \in Links
      /\ foipCache[f].mine <=> macCache \in held[f]
      /\ foipCache[f].mine => foipCache[f].listed \/ foipFeed[f] # <<>>

WakeupInv == WakeupsTypeOK /\ FeedsLeadToStore /\ ReadIsCurrent /\ WorkIsDone /\ RestIsObeyed
=============================================================================
