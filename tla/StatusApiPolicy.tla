-------------------------- MODULE StatusApiPolicy --------------------------
(* What StatusApiClient.update_job_status decides about one answer to one  *)
(* PATCH (src/status_api/client.py).  Pure operators: the state machines   *)
(* that issue the PATCHes are StatusApiClient and Orchestrator.            *)
EXTENDS Naturals

CONSTANTS
  Codes,        \* the HTTP status codes an answer may carry
  MaxAttempts   \* MAX_ATTEMPTS, 3 in the code

ASSUME CodesAssumption == Codes \subseteq 100..999
ASSUME MaxAttemptsAssumption == MaxAttempts \in Nat \ {0}

(***************************************************************************)
(* One answer: an HTTP response, or an exception out of session.patch.     *)
(* "BrokenAnswer" is every requests exception that is neither Timeout nor  *)
(* ConnectionError: a body cut short or undecodable, too many redirects.   *)
(***************************************************************************)
Http(code) == [kind |-> "http", code |-> code]
Raised(exception) == [kind |-> exception, code |-> 0]

Exceptions == {"Timeout", "ConnectionError", "BrokenAnswer"}
Answers == {Http(c) : c \in Codes} \cup {Raised(e) : e \in Exceptions}

Between(answer, low, high) ==
  answer.kind = "http" /\ low <= answer.code /\ answer.code < high

\* The exceptions the two except clauses turn into a StatusApiFailure.
Caught == {"Timeout", "ConnectionError"}

(* The StatusApiFailureKind of an answer that is final. *)
FailureKind(answer) ==
  CASE answer.kind = "Timeout"         -> "TIMEOUT"
    [] answer.kind = "ConnectionError" -> "CONNECTION"
    [] Between(answer, 500, 600)       -> "HTTP_5XX"
    [] Between(answer, 400, 500)       -> "HTTP_4XX"
    [] OTHER                           -> "HTTP_OTHER"

(***************************************************************************)
(* The four ways the loop body ends on an answer to attempt n.             *)
(***************************************************************************)
(* Bug: a redirect counts as accepted. *)
AcceptedBelow400(answer) == Between(answer, 200, 400)

Accepted(answer) == Between(answer, 200, 300)

(* Bug: one attempt too many. *)
RetriedOneTooMany(answer, n) == Between(answer, 500, 600) /\ n <= MaxAttempts

(* Bug: a timeout is retried like a 5xx. *)
RetriedOnTimeout(answer, n) ==
  (Between(answer, 500, 600) \/ answer.kind = "Timeout") /\ n < MaxAttempts

Retried(answer, n) == Between(answer, 500, 600) /\ n < MaxAttempts

\* The exception is not one the client knows: it leaves the call as it is.
Untyped(answer) == answer.kind \notin Caught \cup {"http"}

(* _raise_failure: a typed exception, a 5xx to the last attempt, or any      *)
(* other code that is no 2xx.                                              *)
Failed(answer, n) ==
  \/ answer.kind \in Caught
  \/ Between(answer, 500, 600) /\ n >= MaxAttempts
  \/ /\ answer.kind = "http"
     /\ ~ Between(answer, 200, 300) /\ ~ Between(answer, 500, 600)
=============================================================================
