----------------------------- MODULE DeviceFlow -----------------------------
(***************************************************************************)
(* cmd/netcup-auth: the OAuth2 device flow with which an administrator gets *)
(* a new refresh token, polling until the grant is given, refused or too    *)
(* late.  The authorization server and the user are external.               *)
(***************************************************************************)
EXTENDS Naturals

CONSTANTS
  Interval,  \* pause before a poll, as the server asks for it
  ExpiresIn, \* life of the device code
  Delay      \* longest way of the device code, or of a poll to the server

ASSUME DeviceFlowAssumption ==
  /\ Interval \in Nat
  /\ ExpiresIn \in Nat
  /\ Delay \in Nat

VARIABLES
  flow,      \* where pollForToken is
  left,      \* ticks to its deadline
  slept,     \* ticks since the pause or the poll began
  codeLeft,  \* ticks for which the server accepts the device code
  user,      \* what the user has decided
  leftThen,  \* history: codeLeft when the user granted
  cause      \* history: why the flow failed

flowVars == <<flow, left, slept, codeLeft, user, leftThen, cause>>

FlowTypeOK ==
  /\ flow \in {"off", "check", "sleep", "poll", "token", "printed", "failed"}
  /\ left \in 0 .. ExpiresIn
  /\ slept \in 0 .. Interval + Delay
  /\ codeLeft \in 0 .. ExpiresIn
  /\ user \in {"undecided", "granted", "denied"}
  /\ leftThen \in 0 .. ExpiresIn
  /\ cause \in {"none", "over", "unanswered"}

FlowInit ==
  /\ flow = "off"
  /\ left = 0
  /\ slept = 0
  /\ codeLeft = 0
  /\ user = "undecided"
  /\ leftThen = 0
  /\ cause = "none"

\* startDeviceFlow: the code has aged on its way when the deadline is set.
startDeviceFlow ==
  /\ flow \in {"off", "failed"}
  /\ flow' = "check"
  /\ left' = ExpiresIn
  /\ slept' = 0
  /\ \E age \in 0 .. Delay : age <= ExpiresIn /\ codeLeft' = ExpiresIn - age
  /\ user' = "undecided"
  /\ leftThen' = 0
  /\ cause' = "none"

UserDecides ==
  /\ flow \in {"check", "sleep", "poll", "failed"}
  /\ user = "undecided"
  /\ codeLeft > 0
  /\ user' \in {"granted", "denied"}
  /\ leftThen' = IF user' = "granted" THEN codeLeft ELSE 0
  /\ codeLeft' = IF flow = "failed" THEN 0 ELSE codeLeft
  /\ UNCHANGED <<flow, left, slept, cause>>

GoesOn(place) ==
  /\ flow' = place
  /\ slept' = 0
  /\ UNCHANGED <<left, codeLeft, user, leftThen, cause>>

\* The program ends with an error; the page in the browser stays open until the
\* user has decided.
Fails(why) ==
  /\ flow' = "failed"
  /\ left' = 0
  /\ slept' = 0
  /\ codeLeft' = IF user = "undecided" THEN codeLeft ELSE 0
  /\ cause' = why
  /\ UNCHANGED <<user, leftThen>>

\* The refresh token is printed, or stored.
FlowEnds(result) ==
  /\ flow' = result
  /\ left' = 0
  /\ slept' = 0
  /\ codeLeft' = 0
  /\ user' = "undecided"
  /\ leftThen' = 0
  /\ cause' = "none"

\* The loop condition.
ChecksDeadline ==
  /\ flow = "check"
  /\ IF left > 0 THEN GoesOn("sleep") ELSE Fails("over")

Polls ==
  /\ flow = "sleep"
  /\ slept = Interval
  /\ GoesOn("poll")

\* The answers of the token endpoint.  A user who has not decided may be
\* polled for too often.
Answers ==
  IF codeLeft = 0 THEN {"expired_token"}
  ELSE IF user = "granted" THEN {"token"}
  ELSE IF user = "denied" THEN {"access_denied"}
  ELSE {"authorization_pending", "slow_down"}

\* Mutant: slow_down is an error like any other.
pollOnce_SlowDownFatal(answer) ==
  IF answer = "token" THEN "token"
  ELSE IF answer = "authorization_pending" THEN "check" ELSE "failed"

\* pollOnce, and what pollForToken does with its result: both kinds of
\* "not yet" go on with the same interval.
pollOnce(answer) ==
  IF answer = "token" THEN "token"
  ELSE IF answer \in {"authorization_pending", "slow_down"} THEN "check" ELSE "failed"

PollAnswered ==
  /\ flow = "poll"
  /\ \E answer \in Answers :
       CASE pollOnce(answer) = "check" -> GoesOn("check")
         [] pollOnce(answer) = "token" -> GoesOn("token")
         [] OTHER -> Fails("over")

\* A poll is not repeated when it does not get through, or when its answer is
\* lost or none of those above.
PollLost ==
  /\ flow = "poll"
  /\ Fails("unanswered")

\* main prints the refresh token only together with the user ID.
fetchUserID ==
  /\ flow = "token"
  /\ FlowEnds("printed") \/ Fails("unanswered")

\* In "check" the answer is on its way back.
FlowTick ==
  /\ \/ flow = "sleep" /\ slept < Interval
     \/ flow \in {"poll", "check"} /\ slept < Delay
  /\ slept' = slept + 1
  /\ left' = IF left = 0 THEN 0 ELSE left - 1
  /\ codeLeft' = IF codeLeft = 0 THEN 0 ELSE codeLeft - 1
  /\ UNCHANGED <<flow, user, leftThen, cause>>

FlowStep ==
  \/ ChecksDeadline
  \/ Polls
  \/ PollAnswered
  \/ PollLost
  \/ fetchUserID
  \/ FlowTick

-----------------------------------------------------------------------------

\* A grant is given in vain for two reasons only, whatever the server has said
\* before: a poll or the request for the user ID got no proper answer, for
\* neither of which there is a second try (main.go:108, 149 and 47), or the
\* grant came less than an interval and the ways of an answer and of the next
\* poll before the code expired.
GrantIsNotLost ==
  flow = "failed" /\ user = "granted" =>
    cause = "unanswered" \/ leftThen <= Delay + Interval + Delay
=============================================================================
