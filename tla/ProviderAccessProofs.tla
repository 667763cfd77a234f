------------------------ MODULE ProviderAccessProofs ------------------------
(***************************************************************************)
(* Proofs about the access to the provider, for any lifetimes of tokens,    *)
(* any margin, any intervals and any number of FailoverIps.                 *)
(***************************************************************************)
EXTENDS ProviderAccess, TLAPS

-----------------------------------------------------------------------------
(* The client.                                                             *)

\* The client takes the token it has for expired earlier than the provider, by
\* at most the margin and at least the margin less the way of the token, and a
\* request on its way has a token that outlasts the rest of the way.
TokenInv ==
  /\ elapsed <= Latency \/ at = "pause"
  /\ fresh > 0 => holds = "last" /\ life >= fresh + Margin - Latency
  /\ holds = "last" => life <= fresh + Margin
  /\ at \in {"refresh", "issued"} => fresh = 0
  /\ at = "issued" => granted \in Lifetimes /\ life <= granted /\ life + elapsed >= granted
  /\ at = "request" => holds = "last" /\ life + elapsed > Latency

\* What the call, its task and the stage of the reconcile have to do with each
\* other.
RouteInv ==
  /\ IF stage = "idle" THEN at = "over" ELSE job # None
  /\ stage \in {"find", "verify"} => call = "find"
  /\ stage = "route" => call \in {"route", "poll"}
  /\ stage = "route" /\ outcome = "ok" => task = "FINISHED"
  /\ stage = "verify" => task = "FINISHED"
  /\ at # "over" => outcome = "none"

\* The loop of netcup-auth has the age of a grant on its clock.
FlowInv ==
  /\ codeLeft <= left \/ flow = "failed"
  /\ flow = "failed" => codeLeft = 0 \/ cause = "unanswered"
  /\ flow = "sleep" => slept <= Interval
  /\ flow \in {"check", "poll"} => slept <= Delay
  /\ user = "granted" =>
       /\ flow = "check" => leftThen <= codeLeft + slept
       /\ flow = "sleep" => leftThen <= codeLeft + Delay + slept
       /\ flow = "poll" => leftThen <= codeLeft + Delay + Interval + slept
       /\ flow = "failed" => cause = "unanswered" \/ leftThen <= Delay + Interval + Delay

AccessInv == AccessTypeOK /\ TokenInv /\ RouteInv /\ FlowInv

\* At first there is neither a token nor a request.
LEMMA InitAccess == Init => AccessInv
<1> SUFFICES ASSUME Init PROVE AccessInv
  OBVIOUS
<1>1. ClientTypeOK /\ TokenInv
  BY ClientAssumption DEF Init, ClientInit, ClientTypeOK, TokenInv
<1>2. FlowTypeOK /\ FlowInv
  BY DeviceFlowAssumption DEF Init, FlowInit, FlowTypeOK, FlowInv
<1>3. AccessTypeOK
  BY <1>1, <1>2, AccessAssumption DEF Init, AccessTypeOK
<1>4. RouteInv
  BY DEF Init, ClientInit, RouteInv
<1>5. QED
  BY <1>1, <1>2, <1>3, <1>4 DEF AccessInv

\* A tick takes at most one from the time that is left.
LEMMA LessOne ==
  ASSUME NEW n \in Nat
  PROVE  /\ Less(n, 1) \in Nat
         /\ n > 0 => Less(n, 1) = n - 1
         /\ n = 0 => Less(n, 1) = 0
BY DEF Less

\* The expiry that the client computes.
LEMMA ExpiryHasMargin ==
  ASSUME NEW l \in Nat
  PROVE  /\ tokenExpiry(l) \in Nat
         /\ l <= tokenExpiry(l) + Margin
         /\ tokenExpiry(l) > 0 => l = tokenExpiry(l) + Margin
BY ClientAssumption DEF tokenExpiry, Less

\* What the caller does with its client.
ClientIsUsed ==
  \/ ClientDropped
  \/ at = "over" /\ \E c \in {"find", "route"} : Calls(c) \/ CallsAfterPause(c)

\* The steps of the client and of time keep tokenExpiry true.
LEMMA ClientKeeps ==
  ASSUME ClientTypeOK, TokenInv,
         ClientIsUsed \/ ClientStep \/ TokenIssued \/ TaskEnds \/ Tick
  PROVE  ClientTypeOK' /\ TokenInv'
<1> USE ClientAssumption DEF ClientTypeOK, TokenInv
<1>1. CASE ClientDropped
  BY <1>1 DEF ClientDropped, Moves
<1>2. CASE at = "over" /\ \E c \in {"find", "route"} : Calls(c) \/ CallsAfterPause(c)
  BY <1>2 DEF Calls, CallsAfterPause, Moves
<1>3. CASE UsesToken
  <2>1. fresh > 0 => life > Latency
    OBVIOUS
  <2>2. QED
    BY <1>3, <2>1 DEF UsesToken, Moves
<1>4. CASE TokenIssued
  BY <1>4 DEF TokenIssued, Moves
<1>5. CASE TokenArrives
  <2>1. /\ at' = "request" /\ elapsed' = 0 /\ fresh' = tokenExpiry(granted) /\ granted' = 0
        /\ holds' = "last"
        /\ UNCHANGED <<call, life, task, outcome>>
    BY <1>5 DEF TokenArrives, Moves
  <2>2. granted \in Lifetimes /\ life <= granted /\ life + Latency >= granted
    BY <1>5 DEF TokenArrives
  <2>3. life > Latency
    BY <2>2
  <2>4. fresh' > 0 => life >= fresh' + Margin - Latency
    BY <2>1, <2>2, ExpiryHasMargin
  <2>5. life <= fresh' + Margin /\ fresh' \in Nat
    BY <2>1, <2>2, ExpiryHasMargin
  <2>6. QED
    BY <2>1, <2>3, <2>4, <2>5
<1>6. CASE CallFails
  BY <1>6 DEF CallFails, Ends, Moves
<1>7. CASE Found \/ Accepted \/ AcceptedUnheard
  BY <1>7 DEF Found, Accepted, AcceptedUnheard, Ends, Moves
<1>8. CASE Polled
  BY <1>8 DEF Polled, Ends, Moves, waitForTask
<1>9. CASE PauseEnds
  BY <1>9 DEF PauseEnds, Moves
<1>10. CASE TaskEnds
  BY <1>10 DEF TaskEnds
<1>11. CASE Tick
  <2>1. /\ fresh' = Less(fresh, 1) /\ life' = Less(life, 1)
        /\ UNCHANGED <<call, at, holds, granted, task, outcome>>
    BY <1>11 DEF Tick
  <2>2. /\ fresh' \in Nat /\ life' \in Nat
        /\ fresh' = IF fresh > 0 THEN fresh - 1 ELSE 0
        /\ life' = IF life > 0 THEN life - 1 ELSE 0
    BY <2>1, LessOne
  <2>3. /\ at \in {"over", "refresh"} => elapsed' = elapsed
        /\ at \in {"issued", "request"} => elapsed < Latency /\ elapsed' = elapsed + 1
        /\ at \in {"over", "refresh", "issued", "request", "pause"}
        /\ elapsed' \in Nat
    BY <1>11 DEF Tick
  <2>4. fresh > 0 => life > 0
    OBVIOUS
  <2>5. QED
    BY <2>1, <2>2, <2>3, <2>4
<1>12. QED
  BY <1>1, <1>2, <1>3, <1>4, <1>5, <1>6, <1>7, <1>8, <1>9, <1>10, <1>11
  DEF ClientIsUsed, ClientStep

\* The steps of netcup-auth keep its deadline ahead of the code it waits for.
LEMMA FlowKeeps ==
  ASSUME FlowTypeOK, FlowInv,
         startDeviceFlow \/ UserDecides \/ FlowStep \/ FlowEnds("off")
  PROVE  FlowTypeOK' /\ FlowInv'
<1> USE DeviceFlowAssumption DEF FlowTypeOK, FlowInv
<1>1. CASE startDeviceFlow
  BY <1>1 DEF startDeviceFlow
<1>2. CASE UserDecides
  BY <1>2 DEF UserDecides
<1>3. ASSUME NEW r \in {"off", "printed"}, FlowEnds(r)
      PROVE  FlowTypeOK' /\ FlowInv'
  BY <1>3 DEF FlowEnds
<1>4. CASE ChecksDeadline
  <2>1. left > 0 => GoesOn("sleep")
    BY <1>4 DEF ChecksDeadline
  <2>2. left = 0 => Fails("over")
    BY <1>4 DEF ChecksDeadline
  <2>3. CASE left > 0
    BY <1>4, <2>1, <2>3 DEF ChecksDeadline, GoesOn
  <2>4. CASE left = 0
    BY <1>4, <2>2, <2>4 DEF ChecksDeadline, Fails
  <2>5. QED
    BY <2>3, <2>4
<1>5. CASE Polls
  BY <1>5 DEF Polls, GoesOn
<1>6. CASE PollAnswered
  <2>1. PICK answer \in Answers :
          \/ pollOnce(answer) = "check" /\ GoesOn("check")
          \/ pollOnce(answer) = "token" /\ GoesOn("token")
          \/ pollOnce(answer) = "failed" /\ Fails("over")
    BY <1>6 DEF PollAnswered, pollOnce
  <2>2. CASE pollOnce(answer) = "check" /\ GoesOn("check")
    <3>1. user = "undecided"
      BY <2>2 DEF pollOnce, Answers
    <3>2. QED
      BY <1>6, <2>2, <3>1 DEF PollAnswered, GoesOn
  <2>3. CASE pollOnce(answer) = "token" /\ GoesOn("token")
    BY <1>6, <2>3 DEF PollAnswered, GoesOn
  <2>4. CASE pollOnce(answer) = "failed" /\ Fails("over")
    <3>1. codeLeft = 0 \/ user = "denied"
      BY <2>4 DEF pollOnce, Answers
    <3>2. QED
      BY <1>6, <2>4, <3>1 DEF PollAnswered, Fails
  <2>5. QED
    BY <2>1, <2>2, <2>3, <2>4
<1>7. CASE PollLost \/ fetchUserID \/ FlowEnds("off")
  <2>1. CASE Fails("unanswered")
    BY <2>1 DEF Fails
  <2>2. QED
    BY <1>3, <1>7, <2>1 DEF PollLost, fetchUserID
<1>8. CASE FlowTick
  BY <1>8 DEF FlowTick
<1>9. QED
  BY <1>1, <1>2, <1>4, <1>5, <1>6, <1>7, <1>8 DEF FlowStep

-----------------------------------------------------------------------------
(* The worker.                                                             *)

\* Which of the parts above a step of the whole is a step of.
LEMMA StepsOfParts ==
  ASSUME AccessInv, Next
  PROVE  /\ \/ ClientIsUsed \/ ClientStep \/ TokenIssued \/ TaskEnds \/ Tick
            \/ UNCHANGED clientVars
         /\ \/ startDeviceFlow \/ UserDecides \/ FlowStep \/ FlowEnds("off")
            \/ UNCHANGED flowVars
<1>1. CASE \E f \in Foips : Wakes(f)
  BY <1>1 DEF Wakes
<1>2. ASSUME NEW f \in Foips, Starts(f)
      PROVE  ClientIsUsed /\ UNCHANGED flowVars
  <2>1. at = "over"
    BY <1>2 DEF Starts, AccessInv, RouteInv
  <2>2. QED
    BY <1>2, <2>1 DEF Starts, ClientIsUsed
<1>3. CASE WorkerStep
  <2>1. ClientIsUsed /\ UNCHANGED flowVars
    BY <1>3 DEF WorkerStep, ReturnsError, ReturnsAfterFind, Routes, BeginsToVerify,
       VerifiesAgain, ReturnsAfterVerify, CallReturned, Returns, ClientIsUsed
  <2>2. QED
    BY <2>1
<1>4. CASE ClientActs \/ ClientTicks \/ ProviderActs
  BY <1>4 DEF ClientActs, ClientTicks, ProviderActs
<1>5. CASE IsRevoked \/ RunsNetcupAuth \/ StoresSecret \/ FlowActs
  BY <1>5 DEF IsRevoked, RunsNetcupAuth, StoresSecret, FlowActs
<1>6. QED
  BY <1>1, <1>2, <1>3, <1>4, <1>5 DEF Next

\* Every step keeps the type of the worker, its queue and its tries.
LEMMA AccessTypeKept ==
  ASSUME AccessInv, Next, ClientTypeOK', FlowTypeOK'
  PROVE  AccessTypeOK'
<1> USE AccessAssumption DEF AccessInv, AccessTypeOK
<1>1. CASE \E f \in Foips : Wakes(f) \/ Starts(f)
  BY <1>1 DEF Wakes, Starts
<1>2. ASSUME NEW again \in BOOLEAN, Returns(again), stage # "idle"
      PROVE  AccessTypeOK'
  <2>1. queued' \subseteq Foips
    BY <1>2 DEF Returns, RouteInv
  <2>2. QED
    BY <1>2, <2>1 DEF Returns
<1>3. CASE WorkerStep
  <2>1. CASE Routes \/ BeginsToVerify \/ VerifiesAgain
    BY <2>1 DEF Routes, BeginsToVerify, VerifiesAgain
  <2>2. QED
    BY <1>2, <1>3, <2>1 DEF WorkerStep, ReturnsError, ReturnsAfterFind, ReturnsAfterVerify,
       CallReturned
<1>4. CASE ClientActs \/ ClientTicks \/ ProviderActs \/ FlowActs
  BY <1>4 DEF ClientActs, ClientTicks, ProviderActs, FlowActs, workerVars
<1>5. CASE IsRevoked \/ RunsNetcupAuth \/ StoresSecret
  BY <1>5 DEF IsRevoked, RunsNetcupAuth, StoresSecret, workerVars
<1>6. QED
  BY <1>1, <1>3, <1>4, <1>5 DEF Next

\* Every step keeps the stage of the worker in line with its task.
LEMMA RouteKept ==
  ASSUME AccessInv, Next
  PROVE  RouteInv'
<1> USE DEF AccessInv, RouteInv
<1>1. CASE \E f \in Foips : Wakes(f) \/ Starts(f)
  BY <1>1, AccessAssumption DEF Wakes, Starts, Calls, Moves, clientVars
<1>2. CASE WorkerStep
  <2>1. ASSUME NEW again, Returns(again) PROVE RouteInv'
    BY <2>1 DEF Returns, ClientDropped, Moves
  <2>2. CASE Routes \/ BeginsToVerify \/ VerifiesAgain
    BY <2>2 DEF Routes, BeginsToVerify, VerifiesAgain, CallReturned, Calls,
       CallsAfterPause, Moves
  <2>3. QED
    BY <1>2, <2>1, <2>2 DEF WorkerStep, ReturnsError, ReturnsAfterFind, ReturnsAfterVerify
<1>3. ASSUME ClientActs \/ ClientTicks \/ ProviderActs PROVE RouteInv'
  <2>1. UNCHANGED <<stage, job>>
    BY <1>3 DEF ClientActs, ClientTicks, ProviderActs, workerVars
  <2>2. CASE UsesToken \/ TokenIssued \/ TokenArrives \/ PauseEnds \/ Tick
    BY <2>1, <2>2 DEF UsesToken, TokenIssued, TokenArrives, PauseEnds, Tick, Moves
  <2>3. CASE CallFails \/ Found \/ Accepted \/ AcceptedUnheard
    BY <2>1, <2>3 DEF CallFails, Found, Accepted, AcceptedUnheard, Ends, Moves
  <2>4. CASE Polled
    BY <2>1, <2>4 DEF Polled, Ends, Moves, waitForTask
  <2>5. CASE TaskEnds
    BY <2>1, <2>5 DEF TaskEnds
  <2>6. QED
    BY <1>3, <2>2, <2>3, <2>4, <2>5
    DEF ClientActs, ClientTicks, ProviderActs, ClientStep
<1>4. CASE IsRevoked \/ RunsNetcupAuth \/ StoresSecret \/ FlowActs
  BY <1>4 DEF IsRevoked, RunsNetcupAuth, StoresSecret, FlowActs, clientVars, workerVars
<1>5. QED
  BY <1>1, <1>2, <1>3, <1>4 DEF Next

\* Every step of the worker, the client, the flow and the provider keeps the
\* invariant.
LEMMA StepKeepsAccess == AccessInv /\ [Next]_vars => AccessInv'
<1> SUFFICES ASSUME AccessInv, [Next]_vars PROVE AccessInv'
  OBVIOUS
<1>1. CASE UNCHANGED vars
  BY <1>1 DEF vars, clientVars, flowVars, workerVars, AccessInv, AccessTypeOK, ClientTypeOK,
     FlowTypeOK, TokenInv, RouteInv, FlowInv
<1>2. CASE Next
  <2>1. ClientTypeOK' /\ TokenInv'
    <3>1. CASE UNCHANGED clientVars
      BY <3>1 DEF AccessInv, AccessTypeOK, clientVars, ClientTypeOK, TokenInv
    <3>2. QED
      BY <1>2, <3>1, StepsOfParts, ClientKeeps DEF AccessInv, AccessTypeOK
  <2>2. FlowTypeOK' /\ FlowInv'
    <3>1. CASE UNCHANGED flowVars
      BY <3>1 DEF AccessInv, AccessTypeOK, flowVars, FlowTypeOK, FlowInv
    <3>2. QED
      BY <1>2, <3>1, StepsOfParts, FlowKeeps DEF AccessInv, AccessTypeOK
  <2>3. QED
    BY <1>2, <2>1, <2>2, AccessTypeKept, RouteKept DEF AccessInv
<1>3. QED
  BY <1>1, <1>2

-----------------------------------------------------------------------------
(* The theorems.                                                           *)

\* The inductive invariant holds in every run.
THEOREM AccessInvAlways == Spec => []AccessInv
BY InitAccess, StepKeepsAccess, PTL DEF Spec

\* The state of client, flow and worker stays well typed: in particular the
\* attempts to verify a route keep to providerVerifyAttempts.
THEOREM AccessTypeHolds == Spec => []AccessTypeOK
<1>1. AccessInv => AccessTypeOK
  BY DEF AccessInv
<1>2. QED
  BY AccessInvAlways, <1>1, PTL

\* No request of the client reaches the provider with an expired token, for any
\* lifetimes, any margin and any duration of the tasks.
THEOREM TokensArriveFreshAlways == Spec => []TokensArriveFresh
<1>1. ASSUME AccessInv PROVE TokensArriveFresh
  BY <1>1, ClientAssumption DEF AccessInv, AccessTypeOK, ClientTypeOK, TokenInv, TokensArriveFresh
<1>2. QED
  BY AccessInvAlways, <1>1, PTL

\* Nor does a client ask for another token while the one it has is good for
\* longer than the margin; that is so within a reconcile, each of which makes a
\* client of its own.
THEOREM TokensAreReusedAlways == Spec => []TokensAreReused
<1>1. ASSUME AccessInv PROVE TokensAreReused
  BY <1>1, ClientAssumption DEF AccessInv, AccessTypeOK, ClientTypeOK, TokenInv, TokensAreReused
<1>2. QED
  BY AccessInvAlways, <1>1, PTL

\* The controller verifies a route only after waitForTask has seen its task
\* finished.
THEOREM OnlyFinishedIsVerifiedAlways == Spec => []OnlyFinishedIsVerified
<1>1. ASSUME AccessInv PROVE OnlyFinishedIsVerified
  BY <1>1 DEF AccessInv, RouteInv, OnlyFinishedIsVerified
<1>2. QED
  BY AccessInvAlways, <1>1, PTL

\* netcup-auth loses a grant only if that came too late or if a poll or the
\* request for the user ID got no proper answer, for any interval and any life
\* of the device code.
THEOREM GrantIsNotLostAlways == Spec => []GrantIsNotLost
<1>1. ASSUME AccessInv PROVE GrantIsNotLost
  BY <1>1 DEF AccessInv, FlowInv, GrantIsNotLost
<1>2. QED
  BY AccessInvAlways, <1>1, PTL
=============================================================================
