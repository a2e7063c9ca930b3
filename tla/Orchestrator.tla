---------------------------- MODULE Orchestrator ----------------------------
(***************************************************************************)
(* WorkerOrchestrator (src/worker/orchestrator.py): the polling loop and   *)
(* the life of a Job, run by one or more Worker processes against the      *)
(* three services they share: the SQS Queue, the Backend that takes the    *)
(* status PATCHes, and the S3 object of each Job's artifact.               *)
(*                                                                         *)
(* A delivery is named by the receive count SQS gives it, which stands for *)
(* its receipt handle.  The position pc[w] of a Worker is named after the  *)
(* call it is about to make; where that call is a status PATCH, after the  *)
(* status it reports.                                                      *)
(***************************************************************************)
EXTENDS StatusApiPolicy, FiniteSets

CONSTANTS
  Workers,      \* Worker processes that poll the one Queue
  Jobs,         \* one message per Job
  Malformed,    \* the Jobs whose message body SQSMessage.from_raw refuses
  NoJob,        \* what an idle Worker works on
  MaxReceives,  \* maxReceiveCount of the Queue's redrive policy
  MaxLapses,    \* bound: leases lost while a Worker still holds them
  MaxLate,      \* bound: PATCHes applied after their answer was given up
  MaxCrashes    \* bound: processes that die outside a shutdown

ASSUME JobsAssumption == Malformed \subseteq Jobs /\ NoJob \notin Jobs
ASSUME BoundsAssumption ==
  /\ MaxReceives \in Nat \ {0}
  /\ MaxLapses \in Nat /\ MaxLate \in Nat /\ MaxCrashes \in Nat

VARIABLES
  \* the Queue
  queue,        \* queue[j]: where the message of j is
  receives,     \* receives[j]: ApproximateReceiveCount of the message
  \* the Backend
  status,       \* status[j]: the last command applied, and whose it was
  late,         \* commands the client gave up on that may still be applied
  \* the artifact bucket
  artifact,     \* artifact[j]: the delivery that last wrote the APK, 0 none
  \* the Workers
  pc, job, handle, attempt, shutdown,
  \* history
  accepted,     \* accepted[j]: the deliveries whose SUCCESS got a 2xx answer
  lapses, lates, crashes

queueVars   == <<queue, receives>>
backendVars == <<status, late, lates>>
workerVars  == <<pc, job, handle, attempt, shutdown>>
vars == <<queueVars, backendVars, artifact, workerVars, accepted, lapses, crashes>>

Deliveries == 1..MaxReceives

(* JobStatus, in the order one delivery reports them. *)
Intermediate == {"ANALYZING", "GENERATING_CODE", "BUILDING"}
Reports == Intermediate \cup {"SUCCESS", "FAILED"}

Idle == {"down", "stopped", "top", "cleanup", "receive"}
Local == {"prepare", "download", "generate", "build"}
Busy == Local \cup Reports \cup {"upload", "verify", "delete", "finally"}

Commands == [job : Jobs, by : Deliveries, st : Reports]

TypeOK ==
  /\ queue \in [Jobs -> {"visible", "inflight", "deleted", "dlq"}]
  /\ receives \in [Jobs -> 0..MaxReceives]
  /\ status \in [Jobs -> [by : 0..MaxReceives, st : Reports \cup {"QUEUED"}]]
  /\ late \subseteq Commands
  /\ artifact \in [Jobs -> 0..MaxReceives]
  /\ pc \in [Workers -> Idle \cup Busy]
  /\ job \in [Workers -> Jobs \cup {NoJob}]
  /\ handle \in [Workers -> 0..MaxReceives]
  /\ attempt \in [Workers -> 1..MaxAttempts]
  /\ shutdown \in [Workers -> BOOLEAN]
  /\ accepted \in [Jobs -> SUBSET Deliveries]
  /\ lapses \in 0..MaxLapses
  /\ lates \in 0..MaxLate
  /\ crashes \in 0..MaxCrashes

Init ==
  /\ queue = [j \in Jobs |-> "visible"]
  /\ receives = [j \in Jobs |-> 0]
  /\ status = [j \in Jobs |-> [by |-> 0, st |-> "QUEUED"]]
  /\ late = {}
  /\ artifact = [j \in Jobs |-> 0]
  /\ pc = [w \in Workers |-> "down"]
  /\ job = [w \in Workers |-> NoJob]
  /\ handle = [w \in Workers |-> 0]
  /\ attempt = [w \in Workers |-> 1]
  /\ shutdown = [w \in Workers |-> FALSE]
  /\ accepted = [j \in Jobs |-> {}]
  /\ lapses = 0 /\ lates = 0 /\ crashes = 0

(* Every call of update_job_status starts at its first attempt. *)
Goto(w, p) ==
  /\ pc' = [pc EXCEPT ![w] = p]
  /\ attempt' = [attempt EXCEPT ![w] = 1]

At(w, p) == pc[w] = p

-----------------------------------------------------------------------------
(* The polling loop: main, WorkerOrchestrator.run *)

(* A fresh process: no Job, no shutdown request, signal handlers installed. *)
Start(w) ==
  /\ At(w, "down")
  /\ Goto(w, "top")
  /\ shutdown' = [shutdown EXCEPT ![w] = FALSE]
  /\ UNCHANGED <<queueVars, backendVars, artifact, job, handle, accepted,
                 lapses, crashes>>

(* SIGTERM or SIGINT: _handle_shutdown only raises the flag. *)
Signal(w) ==
  /\ pc[w] \notin {"down", "stopped"} /\ ~ shutdown[w]
  /\ shutdown' = [shutdown EXCEPT ![w] = TRUE]
  /\ UNCHANGED <<queueVars, backendVars, artifact, pc, job, handle, attempt,
                 accepted, lapses, crashes>>

(* Bug: the loop looks at the flag only after an empty poll. *)
LoopTopIgnoresFlag(w) ==
  /\ At(w, "top")
  /\ Goto(w, "cleanup")
  /\ UNCHANGED <<queueVars, backendVars, artifact, job, handle, shutdown,
                 accepted, lapses, crashes>>

(* while not self._shutdown_requested: the only place the flag ends the loop. *)
LoopTop(w) ==
  /\ At(w, "top")
  /\ Goto(w, IF shutdown[w] THEN "stopped" ELSE "cleanup")
  /\ UNCHANGED <<queueVars, backendVars, artifact, job, handle, shutdown,
                 accepted, lapses, crashes>>

CleanupOldWorkdirs(w) ==
  /\ At(w, "cleanup")
  /\ Goto(w, "receive")
  /\ UNCHANGED <<queueVars, backendVars, artifact, job, handle, shutdown,
                 accepted, lapses, crashes>>

(* An empty short poll, or a ReceiveMessage that failed: either way round. *)
ReceiveNothing(w) ==
  /\ At(w, "receive")
  /\ Goto(w, "top")
  /\ UNCHANGED <<queueVars, backendVars, artifact, job, handle, shutdown,
                 accepted, lapses, crashes>>

(* SQS hands out the message of j: invisible from now on, counted. *)
HandOut(w, j) ==
  /\ At(w, "receive")
  /\ queue[j] = "visible" /\ receives[j] < MaxReceives
  /\ queue' = [queue EXCEPT ![j] = "inflight"]
  /\ receives' = [receives EXCEPT ![j] = @ + 1]
  /\ UNCHANGED <<backendVars, artifact, shutdown, accepted, lapses, crashes>>

ReceiveMessage(w, j) ==
  /\ HandOut(w, j)
  /\ j \notin Malformed
  /\ Goto(w, "prepare")
  /\ job' = [job EXCEPT ![w] = j]
  /\ handle' = [handle EXCEPT ![w] = receives[j] + 1]

(* The answer never arrives, or from_raw raises: run() logs and continues, *)
(* and nobody holds the message that SQS has handed out.                   *)
LoseMessage(w, j) ==
  /\ HandOut(w, j)
  /\ Goto(w, "top")
  /\ UNCHANGED <<job, handle>>

-----------------------------------------------------------------------------
(* One delivery: process_job and its four phases *)

(* Bug: the except of process_job logs the exception and returns. *)
LocalStepUnreported(w, here, next) ==
  /\ At(w, here)
  /\ Goto(w, next) \/ Goto(w, "finally")
  /\ UNCHANGED <<queueVars, backendVars, artifact, job, handle, shutdown,
                 accepted, lapses, crashes>>

(* A step of the delivery that touches nothing the services hold; any      *)
(* exception out of it is classified and reported by _handle_failure.      *)
LocalStep(w, here, next) ==
  /\ At(w, here)
  /\ Goto(w, next) \/ Goto(w, "FAILED")
  /\ UNCHANGED <<queueVars, backendVars, artifact, job, handle, shutdown,
                 accepted, lapses, crashes>>

PrepareWorkdir(w) == LocalStep(w, "prepare", "ANALYZING")
DownloadInputs(w) == LocalStep(w, "download", "GENERATING_CODE")
GenerateCode(w)   == LocalStep(w, "generate", "BUILDING")

(* Bug: SUCCESS is reported as soon as the build is done. *)
BuildApkThenSuccess(w) == LocalStep(w, "build", "SUCCESS")

BuildApk(w) == LocalStep(w, "build", "upload")

(* upload_source is best effort and nothing reads its object; then         *)
(* upload_file of the APK, which may raise with the object written or not. *)
WriteArtifact(w) == artifact' = [artifact EXCEPT ![job[w]] = handle[w]]

(* Bug: a failed upload of the APK is swallowed like that of the source. *)
UploadArtifactBestEffort(w) ==
  /\ At(w, "upload")
  /\ WriteArtifact(w) \/ UNCHANGED artifact
  /\ Goto(w, "verify")
  /\ UNCHANGED <<queueVars, backendVars, job, handle, shutdown, accepted,
                 lapses, crashes>>

UploadArtifact(w) ==
  /\ At(w, "upload")
  /\ \/ WriteArtifact(w) /\ Goto(w, "verify")
     \/ WriteArtifact(w) /\ Goto(w, "FAILED")
     \/ UNCHANGED artifact /\ Goto(w, "FAILED")
  /\ UNCHANGED <<queueVars, backendVars, job, handle, shutdown, accepted,
                 lapses, crashes>>

(* head_object and the size comparison: the call may fail, and the APK of   *)
(* another delivery may or may not have the size of this one.               *)
VerifyArtifact(w) ==
  /\ At(w, "verify")
  /\ \/ artifact[job[w]] # 0 /\ Goto(w, "SUCCESS")
     \/ Goto(w, "FAILED")
  /\ UNCHANGED <<queueVars, backendVars, artifact, job, handle, shutdown,
                 accepted, lapses, crashes>>

(* delete_message: the message may be gone or not, and whether the call    *)
(* returned or raised the Job's processing ends here.                      *)
RemoveMessage(w) ==
  /\ queue[job[w]] \in {"visible", "inflight"}
  /\ queue' = [queue EXCEPT ![job[w]] = "deleted"]

(* Bug: delete_message without the try of _phase_finalize. *)
DeleteMessageUncontained(w) ==
  /\ At(w, "delete")
  /\ RemoveMessage(w) \/ UNCHANGED queue
  /\ Goto(w, "finally") \/ Goto(w, "FAILED")
  /\ UNCHANGED <<receives, backendVars, artifact, job, handle, shutdown,
                 accepted, lapses, crashes>>

DeleteMessage(w) ==
  /\ At(w, "delete")
  /\ RemoveMessage(w) \/ UNCHANGED queue
  /\ Goto(w, "finally")
  /\ UNCHANGED <<receives, backendVars, artifact, job, handle, shutdown,
                 accepted, lapses, crashes>>

(* finally: extender.stop(), and process_job returns to the loop. *)
Forget(w) ==
  /\ job' = [job EXCEPT ![w] = NoJob]
  /\ handle' = [handle EXCEPT ![w] = 0]

StopExtender(w) ==
  /\ At(w, "finally")
  /\ Goto(w, "top")
  /\ Forget(w)
  /\ UNCHANGED <<queueVars, backendVars, artifact, shutdown, accepted, lapses,
                 crashes>>

-----------------------------------------------------------------------------
(* Status reports: one action for each way an attempt of the PATCH ends *)

Command(w) == [job |-> job[w], by |-> handle[w], st |-> pc[w]]

(* Where the Backend, which applies commands as they come, leaves this one:  *)
(* not applied, applied, or still to be applied when the client has its      *)
(* answer or has stopped waiting for one.                                    *)
Lost == UNCHANGED backendVars

Now(w) ==
  /\ status' = [status EXCEPT ![job[w]] = [by |-> handle[w], st |-> pc[w]]]
  /\ UNCHANGED <<late, lates>>

Late(w) ==
  /\ lates < MaxLate
  /\ late' = late \cup {Command(w)}
  /\ lates' = lates + 1
  /\ UNCHANGED status

Uncertain(w) == Lost \/ Now(w) \/ Late(w)

(* A 2xx is given for an applied command, a 4xx or 3xx for a refused one;  *)
(* after anything else the client cannot know.                             *)
Landing(w, answer) ==
  IF Between(answer, 200, 300) THEN Now(w)
  ELSE IF Between(answer, 100, 500) THEN Lost
  ELSE Uncertain(w)

NextPhase(st) ==
  CASE st = "ANALYZING"       -> "download"
    [] st = "GENERATING_CODE" -> "generate"
    [] st = "BUILDING"        -> "build"
    [] st = "SUCCESS"         -> "delete"
    [] st = "FAILED"          -> "finally"

(* Bug: SUCCESS is best effort too. *)
OnAnyFailureGoOn(st) == NextPhase(st)

(* Bug: FAILED is reported until the Backend takes it. *)
OnStatusApiFailureInsist(st) ==
  IF st \in {"SUCCESS", "FAILED"} THEN "FAILED" ELSE NextPhase(st)

(* _report_intermediate_status warns and goes on, _report_success lets the  *)
(* failure propagate, _handle_failure logs it.                              *)
OnStatusApiFailure(st) == IF st = "SUCCESS" THEN "FAILED" ELSE NextPhase(st)

(* Only _handle_failure catches what is not a StatusApiFailure. *)
OnOtherException(st) == IF st = "FAILED" THEN "finally" ELSE "FAILED"

Reporting(w) == pc[w] \in Reports

ReportAccepted(w) ==
  /\ Reporting(w)
  /\ \E answer \in Answers : Accepted(answer) /\ Landing(w, answer)
  /\ Goto(w, NextPhase(pc[w]))
  /\ accepted' = IF pc[w] = "SUCCESS"
                 THEN [accepted EXCEPT ![job[w]] = @ \cup {handle[w]}]
                 ELSE accepted
  /\ UNCHANGED <<queueVars, artifact, job, handle, shutdown, lapses, crashes>>

ReportRetried(w) ==
  /\ Reporting(w)
  /\ \E answer \in Answers : Retried(answer, attempt[w]) /\ Landing(w, answer)
  /\ attempt' = [attempt EXCEPT ![w] = @ + 1]
  /\ UNCHANGED <<queueVars, artifact, pc, job, handle, shutdown, accepted,
                 lapses, crashes>>

ReportFailed(w) ==
  /\ Reporting(w)
  /\ \E answer \in Answers : Failed(answer, attempt[w]) /\ Landing(w, answer)
  /\ Goto(w, OnStatusApiFailure(pc[w]))
  /\ UNCHANGED <<queueVars, artifact, job, handle, shutdown, accepted, lapses,
                 crashes>>

ReportBroken(w) ==
  /\ Reporting(w)
  /\ \E answer \in Answers : Untyped(answer) /\ Landing(w, answer)
  /\ Goto(w, OnOtherException(pc[w]))
  /\ UNCHANGED <<queueVars, artifact, job, handle, shutdown, accepted, lapses,
                 crashes>>

-----------------------------------------------------------------------------
(* What ends a process between two of its steps *)

(* The call in progress may have taken effect on the other side. *)
InFlight(w) ==
  \/ UNCHANGED <<queue, artifact, backendVars>>
  \/ Reporting(w) /\ Uncertain(w) /\ UNCHANGED <<queue, artifact>>
  \/ At(w, "upload") /\ WriteArtifact(w) /\ UNCHANGED <<queue, backendVars>>
  \/ At(w, "delete") /\ RemoveMessage(w) /\ UNCHANGED <<artifact, backendVars>>

Die(w, next) ==
  /\ pc[w] \notin {"down", "stopped"}
  /\ InFlight(w)
  /\ Goto(w, next)
  /\ Forget(w)
  /\ UNCHANGED <<receives, shutdown, accepted, lapses>>

(* Killed, or an exception out of the loop: Restart=on-failure. *)
Crash(w) ==
  /\ ~ shutdown[w] /\ crashes < MaxCrashes
  /\ Die(w, "down")
  /\ crashes' = crashes + 1

(* TimeoutStopSec has passed since the SIGTERM: SIGKILL, and no restart. *)
Kill(w) ==
  /\ shutdown[w]
  /\ Die(w, "stopped")
  /\ UNCHANGED crashes

-----------------------------------------------------------------------------
(* The services *)

(* Bug: the extender is stopped when the build is done. *)
HoldsUntilBuilt(w, j) ==
  /\ pc[w] \in Local \cup Intermediate
  /\ job[w] = j /\ handle[w] = receives[j]

(* While a Worker processes the current delivery its VisibilityExtender    *)
(* keeps the lease; a stale handle keeps nothing.                          *)
Holds(w, j) == pc[w] \in Busy /\ job[w] = j /\ handle[w] = receives[j]

(* A lease that runs out under its holder (extensions failed, a host that   *)
(* slept, the 12 h ceiling, a duplicate the Standard Queue delivers) is a   *)
(* lapse; one that nobody holds just runs out.                              *)
ExpireLease(j) ==
  /\ queue[j] = "inflight"
  /\ queue' = [queue EXCEPT ![j] = "visible"]
  /\ IF \E w \in Workers : Holds(w, j)
     THEN lapses < MaxLapses /\ lapses' = lapses + 1
     ELSE UNCHANGED lapses
  /\ UNCHANGED <<receives, backendVars, artifact, workerVars, accepted, crashes>>

(* A poll that finds the receive count used up moves the message instead. *)
Redrive(j) ==
  /\ \E w \in Workers : At(w, "receive")
  /\ queue[j] = "visible" /\ receives[j] = MaxReceives
  /\ queue' = [queue EXCEPT ![j] = "dlq"]
  /\ UNCHANGED <<receives, backendVars, artifact, workerVars, accepted, lapses,
                 crashes>>

DeliverLate(c) ==
  /\ status' = [status EXCEPT ![c.job] = [by |-> c.by, st |-> c.st]]
  /\ late' = late \ {c}
  /\ UNCHANGED <<queueVars, lates, artifact, workerVars, accepted, lapses, crashes>>

-----------------------------------------------------------------------------
Report(w) ==
  ReportAccepted(w) \/ ReportRetried(w) \/ ReportFailed(w) \/ ReportBroken(w)

(* What the process does by itself, whatever the services answer. *)
Step(w) ==
  \/ Start(w) \/ LoopTop(w) \/ CleanupOldWorkdirs(w) \/ ReceiveNothing(w)
  \/ \E j \in Jobs : ReceiveMessage(w, j) \/ LoseMessage(w, j)
  \/ PrepareWorkdir(w) \/ DownloadInputs(w) \/ GenerateCode(w) \/ BuildApk(w)
  \/ UploadArtifact(w) \/ VerifyArtifact(w) \/ DeleteMessage(w)
  \/ Report(w) \/ StopExtender(w)

Environment ==
  \/ \E w \in Workers : Signal(w) \/ Crash(w) \/ Kill(w)
  \/ \E j \in Jobs : ExpireLease(j) \/ Redrive(j)
  \/ \E c \in late : DeliverLate(c)

Next == (\E w \in Workers : Step(w)) \/ Environment

Spec == Init /\ [][Next]_vars

(***************************************************************************)
(* A process that can go on does; every call returns; a lease nobody holds *)
(* runs out; short polls that keep finding visible messages do not miss    *)
(* the same one for ever.  Nothing is assumed of signals, crashes, lapses, *)
(* late commands, or of which answer a call gets.                          *)
(***************************************************************************)
Fairness ==
  /\ \A w \in Workers : WF_vars(Step(w))
  /\ \A j \in Jobs :
       /\ WF_vars(ExpireLease(j) /\ UNCHANGED lapses)
       /\ SF_vars(\E w \in Workers : ReceiveMessage(w, j) \/ LoseMessage(w, j))
       /\ SF_vars(Redrive(j))

FairSpec == Spec /\ Fairness
=============================================================================
