----------------------- MODULE StatusApiClientProofs -----------------------
(***************************************************************************)
(* Theorems about modules StatusApiPolicy and StatusApiClient, for every   *)
(* set of HTTP codes.                                                      *)
(***************************************************************************)
EXTENDS StatusApiClient, TLAPS

(* An answer is an HTTP code or one of the exceptions of session.patch.      *)
LEMMA AnswerKinds ==
  ASSUME NEW answer \in Answers
  PROVE  /\ answer.kind \in {"http", "Timeout", "ConnectionError", "BrokenAnswer"}
         /\ answer.kind = "http" => answer.code \in Nat
BY CodesAssumption DEF Answers, Http, Raised, Exceptions

(* The conditions of the loop body, each as the code states it, leave no    *)
(* answer of any attempt without a branch and give none to two, so that the *)
(* AssertionError behind the loop is never reached                          *)
(* (src/status_api/client.py:139).                                          *)
THEOREM OneBranch ==
  ASSUME NEW answer \in Answers, NEW n \in 1..MaxAttempts
  PROVE  /\ Accepted(answer) \/ Retried(answer, n) \/ Failed(answer, n) \/ Untyped(answer)
         /\ ~ (Accepted(answer) /\ Retried(answer, n))
         /\ ~ (Accepted(answer) /\ Failed(answer, n))
         /\ ~ (Accepted(answer) /\ Untyped(answer))
         /\ ~ (Retried(answer, n) /\ Failed(answer, n))
         /\ ~ (Retried(answer, n) /\ Untyped(answer))
         /\ ~ (Failed(answer, n) /\ Untyped(answer))
  <1>1. answer.kind \in {"http", "Timeout", "ConnectionError", "BrokenAnswer"}
        /\ (answer.kind = "http" => answer.code \in Nat)
    BY AnswerKinds
  <1>2. MaxAttempts \in Nat
    BY MaxAttemptsAssumption
  <1> QED BY <1>1, <1>2 DEF Accepted, Retried, Failed, Untyped, Between, Caught

(* A failure is typed after the class of the answer, and an answer the      *)
(* client retries until the attempts are used up is an HTTP_5XX.            *)
THEOREM FailureIsClassified ==
  ASSUME NEW answer \in Answers, NEW n \in 1..MaxAttempts, Failed(answer, n)
  PROVE  /\ FailureKind(answer) = "HTTP_5XX" <=> Between(answer, 500, 600)
         /\ FailureKind(answer) = "HTTP_5XX" => n = MaxAttempts
         /\ FailureKind(answer) \in {"TIMEOUT", "CONNECTION"} <=> answer.kind \in Caught
  <1>1. answer.kind \in {"http", "Timeout", "ConnectionError", "BrokenAnswer"}
        /\ (answer.kind = "http" => answer.code \in Nat)
    BY AnswerKinds
  <1>2. MaxAttempts \in Nat
    BY MaxAttemptsAssumption
  <1> QED BY <1>1, <1>2 DEF Retried, Failed, Untyped, Between, Caught, FailureKind

-----------------------------------------------------------------------------
(* Where the loop is and how many PATCHes it has sent. *)
CountOK ==
  /\ at = "patch" => Len(patches) = attempt - 1
  /\ at # "patch" => Len(patches) = attempt
  /\ at = "sleep" => attempt < MaxAttempts

IInv ==
  TypeOK /\ CountOK /\ StopsAtFinalAnswer /\ OutcomeFollowsLastAnswer /\ BackoffIsBounded

(* What sending one PATCH does, whatever becomes of it. *)
LEMMA SendEffect ==
  ASSUME IInv, NEW p \in Patches, Send(p)
  PROVE  /\ at = "patch" /\ attempt' = attempt /\ slept' = slept
         /\ patches' \in Seq(Patches) /\ Len(patches') = attempt
         /\ attempt \in 1..MaxAttempts
         /\ Last(patches') = p /\ patches'[attempt] = p
         /\ \A i \in 1..(attempt - 1) : patches'[i] = patches[i]
BY MaxAttemptsAssumption DEF IInv, TypeOK, CountOK, Send, Last

(* What session.patch can make of a PATCH. *)
LEMMA AnswerOfPatch ==
  ASSUME NEW p \in Patches, Send(p)
  PROVE  p.answer \in {Http(p.code), Raised("BrokenAnswer"), Raised("Timeout"),
                       Raised("ConnectionError")}
BY DEF Send, Plausible

(* A call starts with its invariant. *)
LEMMA InitIInv == Init => IInv
BY MaxAttemptsAssumption
DEF Init, IInv, TypeOK, CountOK, StopsAtFinalAnswer, OutcomeFollowsLastAnswer,
    BackoffIsBounded, Ended

(* Every answer and every sleep keep it. *)
LEMMA NextIInv == IInv /\ [Next]_vars => IInv'
  <1> SUFFICES ASSUME IInv, [Next]_vars PROVE IInv'
    OBVIOUS
  <1> USE MaxAttemptsAssumption
  <1>1. ASSUME NEW p \in Patches, Send(p), p.answer \in Answers,
               \/ Retried(p.answer, attempt) /\ at' = "sleep"
               \/ /\ Accepted(p.answer) \/ Failed(p.answer, attempt) \/ Untyped(p.answer)
                  /\ at' \in {"returned", "failed", "raised"}
        PROVE  TypeOK' /\ CountOK' /\ StopsAtFinalAnswer' /\ BackoffIsBounded'
    <2>0. at' = "sleep" => attempt' \in DOMAIN RetryDelays
      <3>1. at' = "sleep" => attempt \in Nat /\ 1 <= attempt /\ attempt < MaxAttempts
        BY <1>1, SendEffect DEF Retried
      <3>2. DOMAIN RetryDelays = 1..2 /\ Len(RetryDelays) = 2
        BY DEF RetryDelays
      <3>3. attempt' = attempt
        BY <1>1, SendEffect
      <3> QED BY <3>1, <3>2, <3>3, DelaysAssumption
    <2>1. TypeOK' /\ CountOK'
      BY <1>1, <2>0, SendEffect DEF IInv, TypeOK, CountOK, Retried
    <2>2. BackoffIsBounded'
      BY <1>1, SendEffect DEF IInv, BackoffIsBounded
    <2>3. \A i \in 1..(attempt - 1) : Between(patches[i].answer, 500, 600)
      BY <1>1, SendEffect DEF IInv, StopsAtFinalAnswer, CountOK, Ended
    <2>4. \A i \in 1..(attempt - 1) : Between(patches'[i].answer, 500, 600)
      BY <1>1, <2>3, SendEffect
    <2>5. Ended' \/ Between(p.answer, 500, 600)
      BY <1>1 DEF Ended, Retried
    <2>6. StopsAtFinalAnswer'
      BY <1>1, <2>4, <2>5, SendEffect DEF StopsAtFinalAnswer, Ended
    <2> QED BY <2>1, <2>2, <2>6
  <1>2. ASSUME NEW p \in Patches PROVE p.answer \in Answers
    BY DEF Patches
  <1>3. CASE Return
    <2>1. PICK p \in Patches : Send(p) /\ Accepted(p.answer) /\ at' = "returned"
      BY <1>3 DEF Return
    <2>2. OutcomeFollowsLastAnswer'
      <3>1. Between(p.answer, 200, 300) /\ p.answer.kind = "http"
        BY <2>1 DEF Accepted, Between
      <3>2. p.answer = Http(p.code)
        BY <2>1, <3>1, AnswerOfPatch DEF Raised
      <3>3. p.applied
        BY <2>1, <3>1, <3>2 DEF Send, Plausible, Between, Http
      <3> QED BY <2>1, <3>1, <3>3, SendEffect DEF OutcomeFollowsLastAnswer
    <2> QED BY <1>1, <1>2, <2>1, <2>2 DEF IInv
  <1>4. CASE Retry
    <2>1. PICK p \in Patches : Send(p) /\ Retried(p.answer, attempt) /\ at' = "sleep"
      BY <1>4 DEF Retry
    <2>2. OutcomeFollowsLastAnswer'
      BY <2>1 DEF OutcomeFollowsLastAnswer
    <2> QED BY <1>1, <1>2, <2>1, <2>2 DEF IInv
  <1>5. CASE RaiseFailure
    <2>1. PICK p \in Patches : Send(p) /\ Failed(p.answer, attempt) /\ at' = "failed"
      BY <1>5 DEF RaiseFailure
    <2>2. p.answer \in Answers /\ attempt \in 1..MaxAttempts
      BY <1>2, <2>1, SendEffect
    <2>3. ~ Between(p.answer, 200, 300)
      BY <2>1, <2>2, OneBranch DEF Accepted
    <2>4. FailureKind(p.answer) = "HTTP_5XX" => attempt = MaxAttempts
      BY <2>1, <2>2, FailureIsClassified
    <2>5. OutcomeFollowsLastAnswer'
      BY <2>1, <2>3, <2>4, SendEffect DEF OutcomeFollowsLastAnswer
    <2> QED BY <1>1, <1>2, <2>1, <2>5 DEF IInv
  <1>6. CASE RaiseOther
    <2>1. PICK p \in Patches : Send(p) /\ Untyped(p.answer) /\ at' = "raised"
      BY <1>6 DEF RaiseOther
    <2>2. p.answer = Raised("BrokenAnswer")
      <3>1. p.answer.kind \notin {"Timeout", "ConnectionError", "http"}
        BY <2>1 DEF Untyped, Caught
      <3> QED BY <2>1, <3>1, AnswerOfPatch DEF Http, Raised
    <2>3. OutcomeFollowsLastAnswer'
      BY <2>1, <2>2, SendEffect DEF OutcomeFollowsLastAnswer
    <2> QED BY <1>1, <1>2, <2>1, <2>3 DEF IInv
  <1>7. CASE WakeUp
    <2>1. TypeOK' /\ CountOK'
      BY <1>7, DelaysAssumption DEF IInv, TypeOK, CountOK, WakeUp, RetryDelays
    <2>2. StopsAtFinalAnswer' /\ OutcomeFollowsLastAnswer'
      BY <1>7 DEF IInv, StopsAtFinalAnswer, OutcomeFollowsLastAnswer, WakeUp, Ended, CountOK
    <2>3. attempt \in {1, 2}
      BY <1>7, DelaysAssumption DEF IInv, TypeOK, CountOK, WakeUp, RetryDelays
    <2>4. BackoffIsBounded'
      BY <1>7, <2>3 DEF IInv, BackoffIsBounded, WakeUp, RetryDelays
    <2> QED BY <2>1, <2>2, <2>4 DEF IInv
  <1>8. CASE UNCHANGED vars
    BY <1>8 DEF vars, IInv, TypeOK, CountOK, StopsAtFinalAnswer,
       OutcomeFollowsLastAnswer, BackoffIsBounded, Ended
  <1> QED BY <1>3, <1>4, <1>5, <1>6, <1>7, <1>8 DEF Next

(* The invariant holds throughout a call. *)
THEOREM Invariance == Spec => []IInv
BY InitIInv, NextIInv, PTL DEF Spec

(* A call stays within its attempts. *)
THEOREM TypeCorrect == Spec => []TypeOK
BY Invariance, PTL DEF IInv

(* Nothing follows a final answer, whatever codes the Backend uses. *)
THEOREM FinalAnswerIsFinal == Spec => []StopsAtFinalAnswer
BY Invariance, PTL DEF IInv

(* The outcome of a call is that of its last PATCH. *)
THEOREM OutcomeIsHonest == Spec => []OutcomeFollowsLastAnswer
BY Invariance, PTL DEF IInv

(* The sleeps of a call are the prescribed ones. *)
THEOREM Backoff == Spec => []BackoffIsBounded
BY Invariance, PTL DEF IInv
=============================================================================
