--------------------------- MODULE ProviderAccess ---------------------------
(***************************************************************************)
(* How the operator gets at the provider: the controller's only worker,     *)
(* which holds one client for the length of a reconcile, the Secret with    *)
(* the refresh token, and the administrator who runs netcup-auth for a new  *)
(* one.  What the controller decides between its calls is the matter of     *)
(* FoipController and open here.                                            *)
(*                                                                         *)
(* The work queue (controller-runtime), the Secret and the administrator    *)
(* are external.                                                            *)
(***************************************************************************)
EXTENDS NetcupClient, DeviceFlow

CONSTANTS
  Foips,         \* the FailoverIps of the cluster
  None,          \* no FailoverIp
  VerifyAttempts \* providerVerifyAttempts

ASSUME AccessAssumption ==
  /\ None \notin Foips
  /\ VerifyAttempts \in Nat \ {0}

VARIABLES
  queued, \* FailoverIps to be reconciled, now or after a delay
  job,    \* the FailoverIp that the worker reconciles
  stage,  \* what the worker waits for
  tries,  \* verifications of the current route so far
  secret  \* whether the refresh token in the Secret is good

workerVars == <<queued, job, stage, tries>>
vars == <<clientVars, flowVars, workerVars, secret>>

AccessTypeOK ==
  /\ ClientTypeOK
  /\ FlowTypeOK
  /\ queued \subseteq Foips
  /\ job \in Foips \cup {None}
  /\ stage \in {"idle", "find", "route", "verify"}
  /\ tries \in 0 .. VerifyAttempts
  /\ secret \in {"good", "revoked"}

Init ==
  /\ ClientInit
  /\ FlowInit
  /\ queued = Foips
  /\ job = None
  /\ stage = "idle"
  /\ tries = 0
  /\ secret = "good"

-----------------------------------------------------------------------------
(* The worker.                                                             *)

Wakes(f) ==
  /\ f \notin queued
  /\ queued' = queued \cup {f}
  /\ UNCHANGED <<clientVars, flowVars, job, stage, tries, secret>>

\* Reconcile reads the Secret, makes a client and looks the address up.
Starts(f) ==
  /\ stage = "idle"
  /\ f \in queued
  /\ queued' = queued \ {f}
  /\ job' = f
  /\ stage' = "find"
  /\ tries' = 0
  /\ Calls("find")
  /\ UNCHANGED <<flowVars, secret>>

\* Reconcile returns and its client goes with it; after an error, or with
\* RequeueAfter, the key comes back.
Returns(again) ==
  /\ queued' = IF again THEN queued \cup {job} ELSE queued
  /\ job' = None
  /\ stage' = "idle"
  /\ tries' = 0
  /\ ClientDropped
  /\ UNCHANGED <<flowVars, secret>>

CallReturned == at = "over" /\ stage # "idle"

\* Any call may fail.
ReturnsError ==
  /\ CallReturned
  /\ outcome = "error"
  /\ Returns(TRUE)

\* The address is where it should be, or it is not yet time to route it.
ReturnsAfterFind ==
  /\ CallReturned
  /\ stage = "find"
  /\ outcome = "ok"
  /\ \E again \in BOOLEAN : Returns(again)

Routes ==
  /\ CallReturned
  /\ stage = "find"
  /\ outcome = "ok"
  /\ stage' = "route"
  /\ Calls("route")
  /\ UNCHANGED <<queued, job, tries, flowVars, secret>>

\* RouteFailoverIP returned nil.
BeginsToVerify ==
  /\ CallReturned
  /\ stage = "route"
  /\ outcome = "ok"
  /\ stage' = "verify"
  /\ tries' = 1
  /\ Calls("find")
  /\ UNCHANGED <<queued, job, flowVars, secret>>

\* Mutant: the attempts are not counted against their bound.
VerifiesAgain_Unbounded ==
  /\ CallReturned
  /\ stage = "verify"
  /\ outcome = "ok"
  /\ tries' = tries + 1
  /\ CallsAfterPause("find")
  /\ UNCHANGED <<queued, job, stage, flowVars, secret>>

\* The provider reports another owner.
VerifiesAgain ==
  /\ CallReturned
  /\ stage = "verify"
  /\ outcome = "ok"
  /\ tries < VerifyAttempts
  /\ tries' = tries + 1
  /\ CallsAfterPause("find")
  /\ UNCHANGED <<queued, job, stage, flowVars, secret>>

\* The owner is confirmed, or the attempts are used up.
ReturnsAfterVerify ==
  /\ CallReturned
  /\ stage = "verify"
  /\ outcome = "ok"
  /\ Returns(TRUE)

-----------------------------------------------------------------------------
(* The refresh token.                                                      *)

IsRevoked ==
  /\ secret = "good"
  /\ secret' = "revoked"
  /\ UNCHANGED <<clientVars, flowVars, workerVars>>

RunsNetcupAuth ==
  /\ secret = "revoked"
  /\ startDeviceFlow
  /\ UNCHANGED <<clientVars, workerVars, secret>>

\* The administrator stores the token, and secretToFoips wakes whoever uses it.
StoresSecret ==
  /\ secret = "revoked"
  /\ flow = "printed"
  /\ secret' = "good"
  /\ queued' = Foips
  /\ FlowEnds("off")
  /\ UNCHANGED <<clientVars, job, stage, tries>>

-----------------------------------------------------------------------------

WorkerStep ==
  \/ ReturnsError
  \/ ReturnsAfterFind
  \/ Routes
  \/ BeginsToVerify
  \/ VerifiesAgain
  \/ ReturnsAfterVerify

\* A revoked refresh token is refused.
ClientActs ==
  /\ ClientStep \/ (secret = "good" /\ TokenIssued)
  /\ UNCHANGED <<flowVars, workerVars, secret>>

ClientTicks == Tick /\ UNCHANGED <<flowVars, workerVars, secret>>

ProviderActs == TaskEnds /\ UNCHANGED <<flowVars, workerVars, secret>>

FlowActs ==
  /\ UserDecides \/ FlowStep
  /\ UNCHANGED <<clientVars, workerVars, secret>>

Next ==
  \/ \E f \in Foips : Wakes(f) \/ Starts(f)
  \/ WorkerStep
  \/ ClientActs
  \/ ClientTicks
  \/ ProviderActs
  \/ IsRevoked
  \/ RunsNetcupAuth
  \/ StoresSecret
  \/ FlowActs

Spec == Init /\ [][Next]_vars

\* Time passes, the worker and the client go on, requests are answered, tasks
\* end, and the queue is served in the order of arrival.
Fairness ==
  /\ WF_vars(ClientTicks)
  /\ WF_vars(WorkerStep)
  /\ WF_vars(ClientActs)
  /\ WF_vars(ProviderActs)
  /\ \A f \in Foips : SF_vars(Starts(f))

LiveSpec == Spec /\ Fairness

-----------------------------------------------------------------------------

\* The controller goes on to verify only a route whose task has finished.
OnlyFinishedIsVerified == stage = "verify" => task = "FINISHED"

\* The only worker serves every FailoverIp: no reconcile polls for ever, with
\* whatever state its task ends, and a refused or expired token delays only its
\* own key.
EveryoneIsServed == \A f \in Foips : f \in queued ~> job = f
=============================================================================
