--------------------------- MODULE StatusApiClient ---------------------------
(***************************************************************************)
(* One call of StatusApiClient.update_job_status                           *)
(* (src/status_api/client.py): up to MaxAttempts PATCHes of one command,   *)
(* with a sleep after each one that is retried, and what the Backend does  *)
(* with each of them.                                                      *)
(***************************************************************************)
EXTENDS StatusApiPolicy, Sequences

(* RETRY_DELAYS_SECONDS; there is one delay less than there are attempts. *)
RetryDelays == <<1, 2>>

ASSUME DelaysAssumption == MaxAttempts <= Len(RetryDelays) + 1

VARIABLES
  at,        \* "patch", "sleep", or how the call has ended
  attempt,   \* the loop variable
  patches,   \* history: what became of each PATCH
  slept      \* history: seconds slept

vars == <<at, attempt, patches, slept>>

Ended == at \in {"returned", "failed", "raised"}

(* A PATCH: the code the Backend answered with, 0 for no answer; whether it *)
(* applied the command; and what session.patch made of it.                  *)
Patches == [code : Codes \cup {0}, applied : BOOLEAN, answer : Answers]

TypeOK ==
  /\ at \in {"patch", "sleep", "returned", "failed", "raised"}
  /\ attempt \in 1..MaxAttempts
  /\ at = "sleep" => attempt \in DOMAIN RetryDelays
  /\ patches \in Seq(Patches) /\ Len(patches) <= MaxAttempts
  /\ slept \in Nat

Init == at = "patch" /\ attempt = 1 /\ patches = <<>> /\ slept = 0

(* session.patch reads the whole body before it returns the response.  The *)
(* command is applied under a 2xx, refused under another code below 500,   *)
(* and either way round under anything else.                               *)
Plausible(p) ==
  /\ \/ p.code # 0 /\ p.answer \in {Http(p.code), Raised("BrokenAnswer")}
     \/ p.code = 0 /\ p.answer \in {Raised("Timeout"), Raised("ConnectionError")}
  /\ 200 <= p.code /\ p.code < 300 => p.applied
  /\ p.code \in (100..199) \cup (300..499) => ~ p.applied

Send(p) ==
  /\ at = "patch" /\ Plausible(p)
  /\ patches' = Append(patches, p)
  /\ UNCHANGED <<attempt, slept>>

Return == \E p \in Patches : Send(p) /\ Accepted(p.answer) /\ at' = "returned"

Retry == \E p \in Patches : Send(p) /\ Retried(p.answer, attempt) /\ at' = "sleep"

RaiseFailure == \E p \in Patches : Send(p) /\ Failed(p.answer, attempt) /\ at' = "failed"

RaiseOther == \E p \in Patches : Send(p) /\ Untyped(p.answer) /\ at' = "raised"

(* Bug: the delay is indexed as if Python counted from one. *)
WakeUpLate ==
  /\ at = "sleep"
  /\ slept' = slept + RetryDelays[attempt + 1]
  /\ attempt' = attempt + 1 /\ at' = "patch"
  /\ UNCHANGED patches

WakeUp ==
  /\ at = "sleep"
  /\ slept' = slept + RetryDelays[attempt]
  /\ attempt' = attempt + 1 /\ at' = "patch"
  /\ UNCHANGED patches

Next == Return \/ Retry \/ RaiseFailure \/ RaiseOther \/ WakeUp

Spec == Init /\ [][Next]_vars

-----------------------------------------------------------------------------
Last(s) == s[Len(s)]

(* BR-013: nothing follows the first answer that is not a 5xx, so a final   *)
(* answer is never overruled by a later attempt.                            *)
StopsAtFinalAnswer ==
  /\ \A i \in 1..Len(patches) :
       Between(patches[i].answer, 500, 600) \/ (i = Len(patches) /\ Ended)
  /\ Ended => Len(patches) = attempt

(* A call that returns has its command applied, by the last of its PATCHes  *)
(* at the latest; one that fails before the last attempt is not for a 5xx.  *)
OutcomeFollowsLastAnswer ==
  /\ at = "returned" => Last(patches).applied /\ Between(Last(patches).answer, 200, 300)
  /\ at = "failed" =>
       /\ ~ Between(Last(patches).answer, 200, 300)
       /\ FailureKind(Last(patches).answer) = "HTTP_5XX" => Len(patches) = MaxAttempts
  /\ at = "raised" => Last(patches).answer = Raised("BrokenAnswer")

(* BR-013: the sleeps are those of the attempts before this one, 1 second   *)
(* and then 2, so that a call sleeps for 3 seconds at most.                 *)
BackoffIsBounded == slept = (attempt * (attempt - 1)) \div 2
=============================================================================
