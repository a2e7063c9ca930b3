----------------------- MODULE OrchestratorProperties -----------------------
(* What must be true of the Worker of module Orchestrator. *)
EXTENDS Orchestrator

-----------------------------------------------------------------------------
(* The deletion gate *)

(* The message of a Job leaves the Queue only after some delivery of it had *)
(* its SUCCESS accepted, with the artifact in the bucket: the order of      *)
(* _phase_finalize, whatever crashes, lapses and late commands do.          *)
AckedOnlyAfterAcceptedSuccess ==
  \A j \in Jobs : queue[j] = "deleted" => accepted[j] # {} /\ artifact[j] # 0

(* Nobody ever reads SUCCESS off the Backend for a Job without an artifact, *)
(* not even from a command that is applied after its Worker has died.       *)
SuccessMeansArtifact ==
  /\ \A j \in Jobs : status[j].st = "SUCCESS" => artifact[j] # 0
  /\ \A c \in late : c.st = "SUCCESS" => artifact[c.job] # 0

(* Unless a lease has lapsed, what SUCCESS announces and what the deletion  *)
(* gate rests on is the APK this delivery uploaded, never one that an       *)
(* earlier delivery left under the same key.                                *)
SuccessAnnouncesOwnArtifact ==
  lapses = 0 => \A w \in Workers :
    pc[w] \in {"SUCCESS", "delete"} => artifact[job[w]] = handle[w]

(* Unless a lease has lapsed, the APK that the client of an acknowledged    *)
(* Job downloads is and remains that of a delivery whose SUCCESS the        *)
(* Backend accepted: no other delivery writes to its key any more.          *)
AckedArtifactWasAnnounced ==
  lapses = 0 =>
    \A j \in Jobs : queue[j] = "deleted" => artifact[j] \in accepted[j]

-----------------------------------------------------------------------------
(* Verdicts *)

(* A delivery whose SUCCESS was accepted never also reports FAILED: the     *)
(* failure of delete_message is contained in _phase_finalize.               *)
FailedVerdictIsHonest ==
  /\ \A j \in Jobs : status[j].st = "FAILED" => status[j].by \notin accepted[j]
  /\ \A c \in late : c.st = "FAILED" => c.by \notin accepted[c.job]

(* With no lapse and no late command, the Backend of an acknowledged Job    *)
(* says SUCCESS and keeps saying it: nobody is left to overwrite it.        *)
AckedJobStaysSuccess ==
  lapses = 0 /\ lates = 0 =>
    \A j \in Jobs : queue[j] = "deleted" => status[j].st = "SUCCESS"

(* With no lapse and no late command, a SUCCESS that was accepted stands    *)
(* until a later delivery of the Job reports something: neither the failure *)
(* of delete_message nor anything else its own delivery does replaces it.   *)
SuccessStandsUntilRedelivery ==
  lapses = 0 /\ lates = 0 =>
    \A j \in Jobs : \A d \in accepted[j] :
      status[j] = [by |-> d, st |-> "SUCCESS"] \/ status[j].by > d

(* With no lapse and no late command the Backend sees the deliveries of a   *)
(* Job one after the other and the phases of each in order.                 *)
Rank(st) ==
  CASE st = "QUEUED" -> 0 [] st = "ANALYZING" -> 1 [] st = "GENERATING_CODE" -> 2
    [] st = "BUILDING" -> 3 [] st = "SUCCESS" -> 4 [] st = "FAILED" -> 5

InOrder(a, b) == a.by < b.by \/ (a.by = b.by /\ Rank(a.st) <= Rank(b.st))

BackendNeverRunsBackwards ==
  [][lapses = 0 /\ lates' = 0 => \A j \in Jobs : InOrder(status[j], status'[j])]_vars

-----------------------------------------------------------------------------
(* Deliveries and processes *)

(* Unless a lease has lapsed, two processes never work on one Job at once,  *)
(* across crashes, restarts and redeliveries.                               *)
ExclusiveProcessing ==
  lapses = 0 => \A v, w \in Workers :
    pc[v] \in Busy /\ pc[w] \in Busy /\ job[v] = job[w] => v = w

(* Every message is acknowledged or ends in the DLQ, unless all Workers are *)
(* told to stop.                                                            *)
EveryJobSettles ==
  \A j \in Jobs : <>(\/ queue[j] \in {"deleted", "dlq"}
                     \/ \A w \in Workers : pc[w] = "stopped")

(* A shutdown request ends the process, the Job it is working on included,  *)
(* without anybody killing it.                                              *)
GracefulStop == \A w \in Workers : shutdown[w] ~> pc[w] = "stopped"

(* The positions of a process from the poll to its end, by how many of them *)
(* lie between.                                                             *)
StepsLeft ==
  [cleanup |-> 16, receive |-> 15, prepare |-> 14, ANALYZING |-> 13,
   download |-> 12, GENERATING_CODE |-> 11, generate |-> 10, BUILDING |-> 9,
   build |-> 8, upload |-> 7, verify |-> 6, SUCCESS |-> 5, delete |-> 4,
   FAILED |-> 3, finally |-> 2, top |-> 1, stopped |-> 0, down |-> 0]

(* A step to a later position, or to a later attempt of the same report. *)
Nearer(w) ==
  \/ StepsLeft[pc'[w]] < StepsLeft[pc[w]]
  \/ pc'[w] = pc[w] /\ attempt'[w] \in (attempt[w] + 1)..MaxAttempts

(* Whatever the services answer, each step a process takes with a delivery  *)
(* in hand brings it nearer to the end of the delivery, and each step it    *)
(* takes after a shutdown request nearer to its exit: no retry and no error *)
(* path leads back, and the loop is not entered again.                      *)
EachStepNearsTheEnd ==
  [][\A w \in Workers :
       (pc[w] \in Busy \/ shutdown[w]) /\ ~ Nearer(w) => ~ Step(w)]_vars

-----------------------------------------------------------------------------
(* The Worker keeps the ledger of module JobLedger. *)
Outcome(q) ==
  CASE q = "deleted" -> "acknowledged" [] q = "dlq" -> "abandoned" [] OTHER -> "owed"

Ledger == INSTANCE JobLedger WITH
  deliveries <- receives,
  stored <- {j \in Jobs : artifact[j] # 0},
  confirmed <- {j \in Jobs : accepted[j] # {}},
  settled <- [j \in Jobs |-> Outcome(queue[j])]

(* Orchestrator implements JobLedger: every step of any Worker or service   *)
(* is a step of the ledger or leaves it alone.                              *)
KeepsLedger == Ledger!Spec

(* Each report belongs to the phase it announces. *)
PhaseOf(p) ==
  CASE p = "prepare"                                   -> "preparing"
    [] p \in {"ANALYZING", "download"}                 -> "ANALYZING"
    [] p \in {"GENERATING_CODE", "generate"}           -> "GENERATING_CODE"
    [] p \in {"BUILDING", "build"}                     -> "BUILDING"
    [] p \in {"upload", "verify", "SUCCESS"}           -> "finalizing"
    [] p = "FAILED"                                    -> "failing"
    [] p \in {"down", "stopped"}                       -> "dead"
    [] p \in {"top", "cleanup", "receive", "delete", "finally"} -> "idle"

Phased == INSTANCE DeliveryPhases WITH
  phase <- [w \in Workers |-> PhaseOf(pc[w])]

(* Orchestrator implements DeliveryPhases: every Worker goes through the    *)
(* phases in their order, and every delivery it does not die in has exactly *)
(* one verdict: an accepted SUCCESS or a report of FAILED.                  *)
KeepsPhases == Phased!Spec

-----------------------------------------------------------------------------
(* What the repository says of the program and the code does not do *)

(* _report_intermediate_status: "Report an intermediate phase without       *)
(* failing local Job processing" (src/worker/orchestrator.py:196).          *)
IntermediateStatusNeverFailsJob ==
  [][\A w \in Workers : pc[w] \in Intermediate => pc'[w] # "FAILED"]_vars

(* "accepted SUCCESS stays authoritative" (src/worker/orchestrator.py:186), *)
(* "without contradictory FAILED" (src/aidlc-docs/aidlc-state.md:76).       *)
AcceptedSuccessStaysAuthoritative ==
  \A j \in Jobs : accepted[j] # {} => status[j].st # "FAILED"
=============================================================================
