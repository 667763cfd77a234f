---------------------------- MODULE NetcupClient ----------------------------
(***************************************************************************)
(* internal/netcup/client.go: the access token, do, FindFailoverIP,         *)
(* RouteFailoverIP and waitForTask, with the time that passes.  Provider    *)
(* keeps of these calls only what they do to the address; this module is    *)
(* about what makes them end, and end truthfully.                           *)
(*                                                                         *)
(* Time is counted in ticks.  The token service and the tasks of the        *)
(* provider are external.                                                   *)
(***************************************************************************)
EXTENDS Naturals

CONSTANTS
  Lifetimes,    \* values of expires_in
  Margin,       \* how much earlier the client takes its token for expired
  Latency,      \* longest way of a request or of an answer
  PollInterval, \* pause between two polls
  TaskOutcomes  \* how a task may end

\* The states that waitForTask takes for a failure.
TaskFailures == {"ERROR", "CANCELED", "ROLLBACK", "WAITING_FOR_CANCEL"}

\* A refreshed token is sent without another look at its expiry, so it has to
\* outlive its own way to the client and the way of the request.
ASSUME ClientAssumption ==
  /\ Lifetimes \subseteq Nat
  /\ Margin \in Nat
  /\ Latency \in Nat
  /\ PollInterval \in Nat
  /\ Latency + Latency <= Margin
  /\ \A l \in Lifetimes : Latency + Latency < l
  /\ TaskOutcomes \subseteq {"FINISHED"} \cup TaskFailures

VARIABLES
  call,     \* what is asked for
  at,       \* how far the call is
  elapsed,  \* ticks since the current way or pause began
  fresh,    \* ticks until tokenExpiry
  life,     \* ticks for which the provider accepts the token issued last
  holds,    \* the token that the client has: that one, or none it would use
  granted,  \* expires_in of a token on its way
  task,     \* the task that the last request to route has started
  outcome   \* of a call that is over

clientVars == <<call, at, elapsed, fresh, life, holds, granted, task, outcome>>

ClientTypeOK ==
  /\ call \in {"find", "route", "poll"}
  /\ at \in {"over", "token", "refresh", "issued", "request", "pause"}
  /\ elapsed \in Nat
  /\ fresh \in Nat
  /\ life \in Nat
  /\ holds \in {"none", "last"}
  /\ granted \in Nat
  /\ task \in {"none", "RUNNING", "FINISHED"} \cup TaskFailures
  /\ outcome \in {"none", "ok", "error"}

\* New: the client has no token.
ClientInit ==
  /\ call = "find"
  /\ at = "over"
  /\ elapsed = 0
  /\ fresh = 0
  /\ life = 0
  /\ holds = "none"
  /\ granted = 0
  /\ task = "none"
  /\ outcome = "none"

\* n - m, but not below zero
Less(n, m) == IF n < m THEN 0 ELSE n - m

\* A step of the call that begins a new way or pause.
Moves(place) == at' = place /\ elapsed' = 0

Ends(result) == Moves("over") /\ outcome' = result

\* The client goes with the reconcile it was made for, and the next one has no
\* token, whether or not the provider would still accept the last.
ClientDropped ==
  /\ call' = "find"
  /\ Moves("over")
  /\ fresh' = 0
  /\ holds' = "none"
  /\ granted' = 0
  /\ task' = "none"
  /\ outcome' = "none"
  /\ UNCHANGED life

\* The client is asked for something.
Calls(c) ==
  /\ call' = c
  /\ Moves("token")
  /\ outcome' = "none"
  /\ UNCHANGED <<fresh, life, holds, granted, task>>

\* The same after a pause of the caller.
CallsAfterPause(c) ==
  /\ call' = c
  /\ Moves("pause")
  /\ outcome' = "none"
  /\ UNCHANGED <<fresh, life, holds, granted, task>>

-----------------------------------------------------------------------------
(* token.                                                                  *)

\* The token at hand is used while tokenExpiry lies ahead.
UsesToken ==
  /\ at = "token"
  /\ Moves(IF fresh > 0 THEN "request" ELSE "refresh")
  /\ UNCHANGED <<call, fresh, life, holds, granted, task, outcome>>

TokenIssued ==
  /\ at = "refresh"
  /\ Moves("issued")
  /\ \E l \in Lifetimes : granted' = l /\ life' = l
  /\ holds' = "none"
  /\ UNCHANGED <<call, fresh, task, outcome>>

\* Mutant: the margin is added.
tokenExpiry_MarginAdded(l) == l + Margin

\* Mutant: it is not set.
tokenExpiry_Unset(l) == 0

\* tokenExpiry, counted from the arrival of the token.
tokenExpiry(l) == Less(l, Margin)

TokenArrives ==
  /\ at = "issued"
  /\ Moves("request")
  /\ fresh' = tokenExpiry(granted)
  /\ holds' = "last"
  /\ granted' = 0
  /\ UNCHANGED <<call, life, task, outcome>>

-----------------------------------------------------------------------------
(* do and its callers.                                                     *)

\* The refresh is refused, or a request or an answer is lost or refused.
CallFails ==
  /\ at \in {"refresh", "issued", "request"}
  /\ Ends("error")
  /\ granted' = 0
  /\ UNCHANGED <<call, fresh, life, holds, task>>

Found ==
  /\ at = "request"
  /\ call = "find"
  /\ life > 0
  /\ Ends("ok")
  /\ UNCHANGED <<call, fresh, life, holds, granted, task>>

\* The request to route is accepted; waitForTask pauses before it polls.
Accepted ==
  /\ at = "request"
  /\ call = "route"
  /\ life > 0
  /\ task' = "RUNNING"
  /\ call' = "poll"
  /\ Moves("pause")
  /\ UNCHANGED <<fresh, life, holds, granted, outcome>>

\* It is accepted, and the answer is lost.
AcceptedUnheard ==
  /\ at = "request"
  /\ call = "route"
  /\ life > 0
  /\ task' = "RUNNING"
  /\ Ends("error")
  /\ UNCHANGED <<call, fresh, life, holds, granted>>

\* Mutant: a state that is not known to be running counts as an end.
waitForTask_DefaultEnds(state) ==
  IF state \in TaskFailures \ {"WAITING_FOR_CANCEL"} THEN "error"
  ELSE IF state = "RUNNING" THEN "again" ELSE "ok"

\* Mutant: a state is forgotten.
waitForTask_RollbackForgotten(state) ==
  IF state = "FINISHED" THEN "ok"
  ELSE IF state \in TaskFailures \ {"ROLLBACK"} THEN "error" ELSE "again"

\* What waitForTask makes of the state of the task.
waitForTask(state) ==
  IF state = "FINISHED" THEN "ok" ELSE IF state \in TaskFailures THEN "error" ELSE "again"

Polled ==
  /\ at = "request"
  /\ call = "poll"
  /\ life > 0
  /\ IF waitForTask(task) = "again"
       THEN Moves("pause") /\ UNCHANGED outcome
       ELSE Ends(waitForTask(task))
  /\ UNCHANGED <<call, fresh, life, holds, granted, task>>

PauseEnds ==
  /\ at = "pause"
  /\ elapsed = PollInterval
  /\ Moves("token")
  /\ UNCHANGED <<call, fresh, life, holds, granted, task, outcome>>

\* The provider ends the task, whether or not anybody polls it.
TaskEnds ==
  /\ task = "RUNNING"
  /\ task' \in TaskOutcomes
  /\ UNCHANGED <<call, at, elapsed, fresh, life, holds, granted, outcome>>

\* A way takes at most Latency.  The client looks at the clock and sends its
\* request at one time.
Tick ==
  /\ \/ at \in {"over", "refresh"} /\ UNCHANGED elapsed
     \/ at \in {"issued", "request"} /\ elapsed < Latency /\ elapsed' = elapsed + 1
     \/ at = "pause" /\ elapsed < PollInterval /\ elapsed' = elapsed + 1
  /\ fresh' = Less(fresh, 1)
  /\ life' = Less(life, 1)
  /\ UNCHANGED <<call, at, holds, granted, task, outcome>>

\* What needs no answer of the token service.
ClientStep ==
  \/ UsesToken
  \/ TokenArrives
  \/ CallFails
  \/ Found
  \/ Accepted
  \/ AcceptedUnheard
  \/ Polled
  \/ PauseEnds

-----------------------------------------------------------------------------

\* No request reaches the provider with a token it no longer accepts, however
\* long a task is polled, and even if expires_in is below the margin: there is
\* no retry after a 401 that would make up for it.
TokensArriveFresh == at = "request" => life > 0

\* Within a reconcile the client does not ask for another token while the
\* provider accepts the one it has for longer than the margin.  The next reconcile
\* makes a new client (failoverip_controller.go:180), which always asks.
TokensAreReused == at = "refresh" /\ holds = "last" => life <= Margin
=============================================================================
