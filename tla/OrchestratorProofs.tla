------------------------- MODULE OrchestratorProofs -------------------------
(***************************************************************************)
(* Theorems about module Orchestrator, for any number of Workers and Jobs, *)
(* any redrive limit and any number of attempts, lapses, late commands and *)
(* crashes.  The safety invariants are not inductive: IInv adds what makes *)
(* them so, in six parts, each preserved by a lemma of its own.            *)
(***************************************************************************)
EXTENDS OrchestratorProperties, TLAPS

USE DEF queueVars, backendVars, workerVars, vars, At

-----------------------------------------------------------------------------
(* The inductive invariant *)

(* A Worker with a delivery in hand works on a well-formed Job of the Queue. *)
BusyOK ==
  \A w \in Workers : pc[w] \in Busy =>
    job[w] \in Jobs \ Malformed /\ handle[w] \in 1..receives[job[w]]

(* A delivery is in the hands of one Worker at most. *)
OneOwner ==
  \A v, w \in Workers :
    pc[v] \in Busy /\ pc[w] \in Busy /\ job[v] = job[w] /\ handle[v] = handle[w]
      => v = w

(* Nothing is recorded of a delivery that has not happened yet. *)
HistoryOK ==
  /\ \A j \in Jobs : accepted[j] \subseteq 1..receives[j]
  /\ \A j \in Jobs : status[j].by <= receives[j]
  /\ \A c \in late : c.by <= receives[c.job]

(* A Worker past the check of the artifact has one to announce, and a Worker *)
(* about to delete has had its own SUCCESS accepted.                         *)
GateOK ==
  /\ \A w \in Workers :
       /\ pc[w] \in {"SUCCESS", "delete"} => artifact[job[w]] # 0
       /\ pc[w] = "delete" => handle[w] \in accepted[job[w]]
  /\ \A j \in Jobs : accepted[j] # {} => artifact[j] # 0

(* A delivery with a FAILED verdict is over or about to be; one with an     *)
(* accepted SUCCESS is past every report.                                   *)
VerdictOK ==
  /\ \A w \in Workers, j \in Jobs :
       pc[w] \in Busy /\ job[w] = j /\ status[j].st = "FAILED" /\ status[j].by = handle[w]
         => pc[w] \in {"FAILED", "finally"}
  /\ \A w \in Workers, c \in late :
       pc[w] \in Busy /\ job[w] = c.job /\ c.st = "FAILED" /\ c.by = handle[w]
         => pc[w] \in {"FAILED", "finally"}
  /\ \A w \in Workers :
       pc[w] \in Busy /\ handle[w] \in accepted[job[w]]
         => pc[w] \in {"delete", "finally"}

(* Unless a lease has lapsed, a Worker works on the last delivery of its    *)
(* Job, whose message nobody else can receive.                              *)
LeaseOK ==
  lapses = 0 => \A w \in Workers : pc[w] \in Busy =>
    handle[w] = receives[job[w]] /\ queue[job[w]] \in {"inflight", "deleted"}

IInv ==
  /\ TypeOK /\ BusyOK /\ OneOwner /\ HistoryOK /\ GateOK /\ VerdictOK /\ LeaseOK
  /\ AckedOnlyAfterAcceptedSuccess /\ SuccessMeansArtifact
  /\ FailedVerdictIsHonest

-----------------------------------------------------------------------------
(* What a report leaves at the Backend, whatever the answer *)

(* Whatever the answer, the command is lost, applied or still to come. *)
LEMMA LandingIsUncertain ==
  ASSUME NEW w \in Workers, NEW answer, Landing(w, answer)
  PROVE  Uncertain(w)
BY DEF Landing, Uncertain

(* A 2xx answer is given to a command that has been applied. *)
LEMMA AcceptedIsApplied ==
  ASSUME NEW w \in Workers, NEW answer, Accepted(answer), Landing(w, answer)
  PROVE  Now(w)
BY DEF Accepted, Landing

(* How the position of a reporting Worker can change. *)
Reported(w, p) ==
  \/ p = pc[w] /\ UNCHANGED accepted
  \/ pc[w] \in Intermediate /\ p \in Local \cup {"FAILED"} /\ UNCHANGED accepted
  \/ pc[w] = "SUCCESS" /\ p = "FAILED" /\ UNCHANGED accepted
  \/ pc[w] = "FAILED" /\ p = "finally" /\ UNCHANGED accepted
  \/ /\ pc[w] = "SUCCESS" /\ p = "delete" /\ Now(w)
     /\ accepted' = [accepted EXCEPT ![job[w]] = @ \cup {handle[w]}]

(* A report moves its Worker only, and records only an accepted SUCCESS. *)
LEMMA ReportEffect ==
  ASSUME TypeOK, NEW w \in Workers, Report(w)
  PROVE  /\ pc[w] \in Reports
         /\ Uncertain(w)
         /\ UNCHANGED <<queueVars, artifact, job, handle, shutdown, lapses, crashes>>
         /\ attempt' \in [Workers -> 1..MaxAttempts]
         /\ \E p \in Busy : pc' = [pc EXCEPT ![w] = p] /\ Reported(w, p)
  <1>1. PICK answer \in Answers : Landing(w, answer)
    BY DEF Report, ReportAccepted, ReportRetried, ReportFailed, ReportBroken
  <1>2. Uncertain(w)
    BY <1>1, LandingIsUncertain
  <1>3. UNCHANGED <<queueVars, artifact, job, handle, shutdown, lapses, crashes>>
    BY DEF Report, ReportAccepted, ReportRetried, ReportFailed, ReportBroken
  <1>4. pc[w] \in Reports
    BY DEF Report, ReportAccepted, ReportRetried, ReportFailed, ReportBroken, Reporting
  <1>5. attempt' \in [Workers -> 1..MaxAttempts]
    BY MaxAttemptsAssumption
    DEF Report, ReportAccepted, ReportRetried, ReportFailed, ReportBroken, Goto,
        Retried, TypeOK
  <1>6. \E p \in Busy : pc' = [pc EXCEPT ![w] = p] /\ Reported(w, p)
    <2> USE <1>4 DEF Reported, Busy, Reports, Intermediate, Local, Goto
    <2>1. CASE ReportAccepted(w)
      <3>1. Now(w)
        BY <2>1, AcceptedIsApplied DEF ReportAccepted
      <3>2. pc' = [pc EXCEPT ![w] = NextPhase(pc[w])]
        BY <2>1 DEF ReportAccepted
      <3>3. NextPhase(pc[w]) \in Busy /\ Reported(w, NextPhase(pc[w]))
        BY <2>1, <3>1 DEF ReportAccepted, NextPhase
      <3> QED BY <3>2, <3>3
    <2>2. CASE ReportRetried(w)
      <3>1. pc' = [pc EXCEPT ![w] = pc[w]]
        BY <2>2 DEF ReportRetried, TypeOK
      <3> QED BY <2>2, <3>1 DEF ReportRetried
    <2>3. CASE ReportFailed(w)
      <3>1. pc' = [pc EXCEPT ![w] = OnStatusApiFailure(pc[w])]
        BY <2>3 DEF ReportFailed
      <3>2. /\ OnStatusApiFailure(pc[w]) \in Busy
            /\ Reported(w, OnStatusApiFailure(pc[w]))
        BY <2>3 DEF ReportFailed, OnStatusApiFailure, NextPhase
      <3> QED BY <3>1, <3>2
    <2>4. CASE ReportBroken(w)
      <3>1. pc' = [pc EXCEPT ![w] = OnOtherException(pc[w])]
        BY <2>4 DEF ReportBroken
      <3>2. /\ OnOtherException(pc[w]) \in Busy
            /\ Reported(w, OnOtherException(pc[w]))
        BY <2>4 DEF ReportBroken, OnOtherException
      <3> QED BY <3>1, <3>2
    <2> QED BY <2>1, <2>2, <2>3, <2>4 DEF Report
  <1> QED BY <1>2, <1>3, <1>4, <1>5, <1>6

(* What a command can change at the Backend, now or later. *)
LEMMA LandingEffect ==
  ASSUME TypeOK, BusyOK, NEW w \in Workers, pc[w] \in Reports, Uncertain(w)
  PROVE  /\ status' \in [Jobs -> [by : 0..MaxReceives, st : Reports \cup {"QUEUED"}]]
         /\ late' \subseteq Commands
         /\ lates' \in 0..MaxLate
         /\ \A j \in Jobs :
              \/ status'[j] = status[j]
              \/ j = job[w] /\ status'[j] = [by |-> handle[w], st |-> pc[w]]
         /\ late' \subseteq late \cup {Command(w)}
  <1>1. job[w] \in Jobs /\ handle[w] \in Deliveries
    BY BoundsAssumption DEF BusyOK, Busy, TypeOK, Deliveries
  <1>2. Command(w) \in Commands
    BY <1>1 DEF Command, Commands
  <1>3. CASE Lost
    BY <1>3 DEF Lost, TypeOK
  <1>4. CASE Now(w)
    BY <1>1, <1>4, BoundsAssumption DEF Now, TypeOK, Deliveries
  <1>5. CASE Late(w)
    BY <1>2, <1>5, BoundsAssumption DEF Late, TypeOK
  <1> QED BY <1>3, <1>4, <1>5 DEF Uncertain

(* A process that dies forgets its delivery; of the services it can only    *)
(* have touched what the call in progress was about.                        *)
LEMMA DeathEffect ==
  ASSUME TypeOK, NEW w \in Workers, Crash(w) \/ Kill(w)
  PROVE  /\ \E p \in {"down", "stopped"} : pc' = [pc EXCEPT ![w] = p]
         /\ attempt' \in [Workers -> 1..MaxAttempts]
         /\ Forget(w) /\ InFlight(w)
         /\ crashes' \in 0..MaxCrashes
         /\ UNCHANGED <<receives, shutdown, accepted, lapses>>
BY BoundsAssumption, MaxAttemptsAssumption DEF Crash, Kill, Die, Goto, TypeOK

-----------------------------------------------------------------------------
(* Types *)

(* Every step keeps the types of the variables. *)
LEMMA TypeInductive ==
  ASSUME TypeOK, BusyOK, [Next]_vars
  PROVE  TypeOK'
  <1> USE JobsAssumption, BoundsAssumption, MaxAttemptsAssumption
      DEF TypeOK, Busy, Idle, Reports, Intermediate, Local, Goto
  <1>1. ASSUME NEW w \in Workers,
               Start(w) \/ LoopTop(w) \/ CleanupOldWorkdirs(w) \/ ReceiveNothing(w)
               \/ Signal(w)
        PROVE  TypeOK'
    <2>1. CASE Signal(w)
      BY <2>1 DEF Signal
    <2>2. CASE Start(w)
      BY <2>2 DEF Start
    <2>3. CASE LoopTop(w)
      BY <2>3 DEF LoopTop
    <2>4. CASE CleanupOldWorkdirs(w) \/ ReceiveNothing(w)
      BY <2>4 DEF CleanupOldWorkdirs, ReceiveNothing
    <2> QED BY <1>1, <2>1, <2>2, <2>3, <2>4
  <1>2. ASSUME NEW w \in Workers, NEW j \in Jobs,
               ReceiveMessage(w, j) \/ LoseMessage(w, j)
        PROVE  TypeOK'
    <2>1. CASE ReceiveMessage(w, j)
      BY <2>1 DEF ReceiveMessage, HandOut
    <2>2. CASE LoseMessage(w, j)
      BY <2>2 DEF LoseMessage, HandOut
    <2> QED BY <1>2, <2>1, <2>2
  <1>3. ASSUME NEW w \in Workers,
               PrepareWorkdir(w) \/ DownloadInputs(w) \/ GenerateCode(w)
               \/ BuildApk(w) \/ VerifyArtifact(w)
        PROVE  TypeOK'
    BY <1>3 DEF PrepareWorkdir, DownloadInputs, GenerateCode, BuildApk,
                VerifyArtifact, LocalStep
  <1>4. ASSUME NEW w \in Workers, UploadArtifact(w)
        PROVE  TypeOK'
    BY <1>4 DEF UploadArtifact, WriteArtifact
  <1>5. ASSUME NEW w \in Workers, DeleteMessage(w)
        PROVE  TypeOK'
    BY <1>5 DEF DeleteMessage, RemoveMessage
  <1>6. ASSUME NEW w \in Workers, Report(w)
        PROVE  TypeOK'
    <2>1. PICK p \in Busy : pc' = [pc EXCEPT ![w] = p] /\ Reported(w, p)
      BY <1>6, ReportEffect
    <2>2. accepted' \in [Jobs -> SUBSET Deliveries]
      <3>1. pc[w] \in Busy => handle[w] \in Deliveries
        BY DEF BusyOK, Deliveries
      <3> QED BY <2>1, <3>1 DEF Reported
    <2> QED BY <1>6, <2>1, <2>2, ReportEffect, LandingEffect
  <1>7. ASSUME NEW w \in Workers, StopExtender(w)
        PROVE  TypeOK'
    BY <1>7 DEF StopExtender, Forget
  <1>8. ASSUME NEW w \in Workers, Crash(w) \/ Kill(w)
        PROVE  TypeOK'
    <2>1. /\ queue' \in [Jobs -> {"visible", "inflight", "deleted", "dlq"}]
          /\ artifact' \in [Jobs -> 0..MaxReceives]
      BY <1>8, DeathEffect DEF InFlight, WriteArtifact, RemoveMessage
    <2>2. /\ status' \in [Jobs -> [by : 0..MaxReceives, st : Reports \cup {"QUEUED"}]]
          /\ late' \subseteq Commands
          /\ lates' \in 0..MaxLate
      BY <1>8, DeathEffect, LandingEffect DEF InFlight, Reporting
    <2>3. job' \in [Workers -> Jobs \cup {NoJob}] /\ handle' \in [Workers -> 0..MaxReceives]
      <3>1. /\ job' = [job EXCEPT ![w] = NoJob]
            /\ handle' = [handle EXCEPT ![w] = 0]
        BY <1>8, DeathEffect DEF Forget
      <3>2. 0 \in 0..MaxReceives
        OBVIOUS
      <3> QED BY <3>1, <3>2
    <2>4. PICK p \in {"down", "stopped"} : pc' = [pc EXCEPT ![w] = p]
      BY <1>8, DeathEffect
    <2>5. pc' \in [Workers -> Idle \cup Busy]
      BY <2>4
    <2>6. /\ attempt' \in [Workers -> 1..MaxAttempts]
          /\ crashes' \in 0..MaxCrashes
          /\ UNCHANGED <<receives, shutdown, accepted, lapses>>
      BY <1>8, DeathEffect
    <2> HIDE DEF Busy, Idle, Reports, Intermediate, Local
    <2> QED BY <2>1, <2>2, <2>3, <2>5, <2>6
  <1>9. ASSUME NEW j \in Jobs, ExpireLease(j) \/ Redrive(j)
        PROVE  TypeOK'
    BY <1>9 DEF ExpireLease, Redrive
  <1>10. ASSUME NEW c \in late, DeliverLate(c)
         PROVE  TypeOK'
    BY <1>10 DEF DeliverLate, Commands, Deliveries
  <1>11. CASE UNCHANGED vars
    BY <1>11
  <1> QED BY <1>1, <1>2, <1>3, <1>4, <1>5, <1>6, <1>7, <1>8, <1>9, <1>10, <1>11
          DEF Next, Step, Environment

-----------------------------------------------------------------------------
(* What one step can do to each part of the state *)

(* The way of a Worker: idle, taking a delivery, or with its delivery in    *)
(* hand where it was or one position further.                               *)
Forward(w) ==
  \/ pc'[w] = pc[w]
  \/ pc[w] \in Local /\ pc'[w] \in Intermediate \cup {"upload", "FAILED"}
  \/ pc[w] \in Intermediate /\ pc'[w] \in Local \cup {"FAILED"}
  \/ pc[w] = "upload" /\ pc'[w] = "verify" /\ WriteArtifact(w)
  \/ pc[w] = "verify" /\ pc'[w] = "SUCCESS" /\ artifact[job[w]] # 0
  \/ pc[w] \in {"upload", "verify", "SUCCESS"} /\ pc'[w] = "FAILED"
  \/ /\ pc[w] = "SUCCESS" /\ pc'[w] = "delete" /\ Now(w)
     /\ accepted' = [accepted EXCEPT ![job[w]] = @ \cup {handle[w]}]
  \/ pc[w] \in {"delete", "FAILED"} /\ pc'[w] = "finally"

Moves(w) ==
  \/ pc'[w] \in Idle
  \/ \E j \in Jobs : ReceiveMessage(w, j)
  \/ /\ pc[w] \in Busy /\ pc'[w] \in Busy
     /\ job'[w] = job[w] /\ handle'[w] = handle[w]
     /\ Forward(w)

(* A Worker that a step does not touch moves nowhere. *)
LEMMA StaysPut ==
  ASSUME TypeOK, NEW v \in Workers,
         pc'[v] = pc[v], job'[v] = job[v], handle'[v] = handle[v]
  PROVE  Moves(v)
BY DEF TypeOK, Moves, Forward

(* Every step takes every Worker along the way that Moves describes. *)
LEMMA WorkerEffect ==
  ASSUME TypeOK, [Next]_vars, NEW v \in Workers
  PROVE  Moves(v)
  <1> USE DEF TypeOK, Busy, Idle, Reports, Intermediate, Local, Goto
  <1>1. ASSUME NEW w \in Workers,
               \/ Start(w) \/ LoopTop(w) \/ CleanupOldWorkdirs(w)
               \/ ReceiveNothing(w) \/ Signal(w)
               \/ \E j \in Jobs : LoseMessage(w, j)
        PROVE  Moves(v)
    <2>1. CASE v = w /\ ~ Signal(w)
      BY <1>1, <2>1 DEF Start, LoopTop, CleanupOldWorkdirs, ReceiveNothing,
                        LoseMessage, Moves
    <2>2. CASE v # w \/ Signal(w)
      BY <1>1, <2>2, StaysPut DEF Start, LoopTop, CleanupOldWorkdirs,
         ReceiveNothing, LoseMessage, Signal
    <2> QED BY <2>1, <2>2
  <1>2. ASSUME NEW w \in Workers, NEW j \in Jobs, ReceiveMessage(w, j)
        PROVE  Moves(v)
    <2>1. CASE v = w
      BY <1>2, <2>1 DEF Moves
    <2>2. CASE v # w
      BY <1>2, <2>2, StaysPut DEF ReceiveMessage
    <2> QED BY <2>1, <2>2
  <1>3. ASSUME NEW w \in Workers,
               \/ PrepareWorkdir(w) \/ DownloadInputs(w) \/ GenerateCode(w)
               \/ BuildApk(w) \/ VerifyArtifact(w) \/ UploadArtifact(w)
               \/ DeleteMessage(w) \/ StopExtender(w)
        PROVE  Moves(v)
    <2>1. CASE v # w
      BY <1>3, <2>1, StaysPut DEF PrepareWorkdir, DownloadInputs, GenerateCode,
         BuildApk, VerifyArtifact, LocalStep, UploadArtifact, DeleteMessage,
         StopExtender, Forget
    <2>2. CASE v = w /\ StopExtender(w)
      BY <2>2 DEF StopExtender, Moves
    <2>3. CASE v = w /\ UploadArtifact(w)
      BY <2>3 DEF UploadArtifact, Moves, Forward
    <2>4. CASE v = w /\ (VerifyArtifact(w) \/ DeleteMessage(w))
      BY <2>4 DEF VerifyArtifact, DeleteMessage, Moves, Forward
    <2>5. CASE v = w /\ (PrepareWorkdir(w) \/ DownloadInputs(w)
                         \/ GenerateCode(w) \/ BuildApk(w))
      BY <2>5 DEF PrepareWorkdir, DownloadInputs, GenerateCode, BuildApk,
         LocalStep, Moves, Forward
    <2> QED BY <1>3, <2>1, <2>2, <2>3, <2>4, <2>5
  <1>4. ASSUME NEW w \in Workers, Report(w)
        PROVE  Moves(v)
    <2>1. PICK p \in Busy : pc' = [pc EXCEPT ![w] = p] /\ Reported(w, p)
      BY <1>4, ReportEffect
    <2>2. job' = job /\ handle' = handle /\ pc[w] \in Busy
      BY <1>4, ReportEffect
    <2>3. CASE v = w
      <3>1. pc'[w] = p
        BY <2>1
      <3>2. Forward(w)
        BY <2>1, <3>1 DEF Reported, Forward
      <3> QED BY <2>2, <2>3, <3>1, <3>2 DEF Moves
    <2>4. CASE v # w
      BY <2>1, <2>2, <2>4, StaysPut
    <2> QED BY <2>3, <2>4
  <1>5. ASSUME NEW w \in Workers, Crash(w) \/ Kill(w)
        PROVE  Moves(v)
    <2>1. CASE v = w
      BY <1>5, <2>1, DeathEffect DEF Moves
    <2>2. CASE v # w
      BY <1>5, <2>2, DeathEffect, StaysPut DEF Forget
    <2> QED BY <2>1, <2>2
  <1>6. ASSUME \/ \E j \in Jobs : ExpireLease(j) \/ Redrive(j)
               \/ \E c \in late : DeliverLate(c)
               \/ UNCHANGED vars
        PROVE  Moves(v)
    BY <1>6, StaysPut DEF ExpireLease, Redrive, DeliverLate
  <1> QED BY <1>1, <1>2, <1>3, <1>4, <1>5, <1>6 DEF Next, Step, Environment

(* The actions that leave the Queue, the Backend, the artifacts and the     *)
(* history alone.                                                           *)
Internal(w) ==
  \/ Start(w) \/ LoopTop(w) \/ CleanupOldWorkdirs(w) \/ ReceiveNothing(w)
  \/ Signal(w) \/ PrepareWorkdir(w) \/ DownloadInputs(w) \/ GenerateCode(w)
  \/ BuildApk(w) \/ VerifyArtifact(w) \/ StopExtender(w)

(* The steps inside a process leave the services and the history alone. *)
LEMMA InternalEffect ==
  ASSUME NEW w \in Workers, Internal(w)
  PROVE  UNCHANGED <<queueVars, backendVars, artifact, accepted, lapses>>
BY DEF Internal, Start, LoopTop, CleanupOldWorkdirs, ReceiveNothing, Signal,
   PrepareWorkdir, DownloadInputs, GenerateCode, BuildApk, LocalStep,
   VerifyArtifact, StopExtender

(* The steps that can touch the services, and all the others as one case. *)
LEMMA NextCases ==
  ASSUME [Next]_vars
  PROVE  \/ UNCHANGED vars
         \/ \E w \in Workers :
              \/ Internal(w) \/ UploadArtifact(w) \/ DeleteMessage(w) \/ Report(w)
              \/ Crash(w) \/ Kill(w)
              \/ \E j \in Jobs : ReceiveMessage(w, j) \/ LoseMessage(w, j)
         \/ \E j \in Jobs : ExpireLease(j) \/ Redrive(j)
         \/ \E c \in late : DeliverLate(c)
BY DEF Next, Step, Environment, Internal

(* The message of a Job. *)
LEMMA QueueEffect ==
  ASSUME TypeOK, [Next]_vars, NEW j \in Jobs
  PROVE  \/ queue'[j] = queue[j] /\ receives'[j] = receives[j]
         \/ \E w \in Workers : HandOut(w, j)
         \/ ExpireLease(j)
         \/ Redrive(j)
         \/ /\ \E w \in Workers : pc[w] = "delete" /\ job[w] = j
            /\ queue[j] \in {"visible", "inflight"} /\ queue'[j] = "deleted"
            /\ receives'[j] = receives[j]
  <1> USE DEF TypeOK
  <1>1. ASSUME NEW w \in Workers, Internal(w) \/ UploadArtifact(w) \/ Report(w)
        PROVE  queue' = queue /\ receives' = receives
    BY <1>1, InternalEffect, ReportEffect DEF UploadArtifact
  <1>2. ASSUME NEW w \in Workers, DeleteMessage(w)
        PROVE  /\ queue'[j] # queue[j] =>
                    /\ pc[w] = "delete" /\ job[w] = j
                    /\ queue[j] \in {"visible", "inflight"} /\ queue'[j] = "deleted"
               /\ receives' = receives
    BY <1>2 DEF DeleteMessage, RemoveMessage
  <1>3. ASSUME NEW w \in Workers, Crash(w) \/ Kill(w)
        PROVE  /\ queue'[j] # queue[j] =>
                    /\ pc[w] = "delete" /\ job[w] = j
                    /\ queue[j] \in {"visible", "inflight"} /\ queue'[j] = "deleted"
               /\ receives' = receives
    BY <1>3, DeathEffect DEF InFlight, RemoveMessage
  <1>4. ASSUME NEW w \in Workers, NEW i \in Jobs,
               ReceiveMessage(w, i) \/ LoseMessage(w, i)
        PROVE  HandOut(w, i) /\ (i # j => queue'[j] = queue[j] /\ receives'[j] = receives[j])
    BY <1>4 DEF ReceiveMessage, LoseMessage, HandOut
  <1>5. ASSUME NEW i \in Jobs, ExpireLease(i) \/ Redrive(i), i # j
        PROVE  queue'[j] = queue[j] /\ receives'[j] = receives[j]
    BY <1>5 DEF ExpireLease, Redrive
  <1>6. ASSUME NEW c \in late, DeliverLate(c)
        PROVE  queue' = queue /\ receives' = receives
    BY <1>6 DEF DeliverLate
  <1> QED BY NextCases, <1>1, <1>2, <1>3, <1>4, <1>5, <1>6

(* The artifact of a Job. *)
LEMMA ArtifactEffect ==
  ASSUME TypeOK, [Next]_vars, NEW j \in Jobs
  PROVE  \/ artifact'[j] = artifact[j]
         \/ \E w \in Workers :
              pc[w] = "upload" /\ job[w] = j /\ artifact'[j] = handle[w]
  <1>1. ASSUME NEW w \in Workers,
               \/ Internal(w) \/ DeleteMessage(w) \/ Report(w)
               \/ \E i \in Jobs : ReceiveMessage(w, i) \/ LoseMessage(w, i)
        PROVE  artifact' = artifact
    BY <1>1, InternalEffect, ReportEffect
    DEF DeleteMessage, ReceiveMessage, LoseMessage, HandOut
  <1>2. ASSUME NEW w \in Workers, UploadArtifact(w) \/ Crash(w) \/ Kill(w),
               artifact'[j] # artifact[j]
        PROVE  pc[w] = "upload" /\ job[w] = j /\ artifact'[j] = handle[w]
    BY <1>2, DeathEffect DEF UploadArtifact, InFlight, WriteArtifact, TypeOK
  <1>3. ASSUME \/ \E i \in Jobs : ExpireLease(i) \/ Redrive(i)
               \/ \E c \in late : DeliverLate(c)
        PROVE  artifact' = artifact
    BY <1>3 DEF ExpireLease, Redrive, DeliverLate
  <1> QED BY NextCases, <1>1, <1>2, <1>3

(* The deliveries of a Job whose SUCCESS was accepted. *)
LEMMA AcceptedEffect ==
  ASSUME TypeOK, [Next]_vars, NEW j \in Jobs
  PROVE  \/ accepted'[j] = accepted[j]
         \/ \E w \in Workers :
              /\ pc[w] = "SUCCESS" /\ pc'[w] = "delete" /\ job[w] = j
              /\ accepted'[j] = accepted[j] \cup {handle[w]}
  <1>1. ASSUME NEW w \in Workers,
               \/ Internal(w) \/ UploadArtifact(w) \/ DeleteMessage(w)
               \/ Crash(w) \/ Kill(w)
               \/ \E i \in Jobs : ReceiveMessage(w, i) \/ LoseMessage(w, i)
        PROVE  accepted' = accepted
    BY <1>1, InternalEffect, DeathEffect
    DEF UploadArtifact, DeleteMessage, ReceiveMessage, LoseMessage, HandOut
  <1>2. ASSUME NEW w \in Workers, Report(w), accepted'[j] # accepted[j]
        PROVE  /\ pc[w] = "SUCCESS" /\ pc'[w] = "delete" /\ job[w] = j
               /\ accepted'[j] = accepted[j] \cup {handle[w]}
    BY <1>2, ReportEffect DEF Reported, TypeOK
  <1>3. ASSUME \/ \E i \in Jobs : ExpireLease(i) \/ Redrive(i)
               \/ \E c \in late : DeliverLate(c)
        PROVE  accepted' = accepted
    BY <1>3 DEF ExpireLease, Redrive, DeliverLate
  <1> QED BY NextCases, <1>1, <1>2, <1>3

(* What the Backend says of a Job, and what it may yet be told. *)
ByWorker(w, j) ==
  /\ pc[w] \in Reports /\ job[w] = j
  /\ status'[j] = [by |-> handle[w], st |-> pc[w]]

ByLate(c, j) == c.job = j /\ status'[j] = [by |-> c.by, st |-> c.st]

(* A status, and a command still to come, is a Worker's or an old one. *)
LEMMA BackendEffect ==
  ASSUME TypeOK, BusyOK, [Next]_vars
  PROVE  /\ \A j \in Jobs :
              \/ status'[j] = status[j]
              \/ \E w \in Workers : ByWorker(w, j)
              \/ \E c \in late : ByLate(c, j)
         /\ \A c \in late' :
              c \in late \/ \E w \in Workers : pc[w] \in Reports /\ c = Command(w)
  <1>1. ASSUME NEW w \in Workers,
               \/ Internal(w) \/ UploadArtifact(w) \/ DeleteMessage(w)
               \/ \E i \in Jobs : ReceiveMessage(w, i) \/ LoseMessage(w, i)
        PROVE  status' = status /\ late' = late
    BY <1>1, InternalEffect
    DEF UploadArtifact, DeleteMessage, ReceiveMessage, LoseMessage, HandOut
  <1>2. ASSUME NEW w \in Workers, Report(w) \/ Crash(w) \/ Kill(w)
        PROVE  /\ \A j \in Jobs : status'[j] = status[j] \/ ByWorker(w, j)
               /\ \A c \in late' : c \in late \/ (pc[w] \in Reports /\ c = Command(w))
    <2>1. CASE pc[w] \in Reports /\ Uncertain(w)
      <3>1. /\ \A j \in Jobs :
                 \/ status'[j] = status[j]
                 \/ j = job[w] /\ status'[j] = [by |-> handle[w], st |-> pc[w]]
            /\ late' \subseteq late \cup {Command(w)}
        BY <2>1, LandingEffect
      <3> QED BY <2>1, <3>1 DEF ByWorker
    <2>2. CASE status' = status /\ late' = late
      BY <2>2
    <2>3. CASE Report(w)
      BY <2>1, <2>3, ReportEffect
    <2>4. CASE Crash(w) \/ Kill(w)
      <3>1. InFlight(w)
        BY <2>4, DeathEffect
      <3> QED BY <2>1, <2>2, <3>1 DEF InFlight, Reporting
    <2> QED BY <1>2, <2>3, <2>4
  <1>3. ASSUME NEW i \in Jobs, ExpireLease(i) \/ Redrive(i)
        PROVE  status' = status /\ late' = late
    BY <1>3 DEF ExpireLease, Redrive
  <1>4. ASSUME NEW c \in late, DeliverLate(c)
        PROVE  /\ \A j \in Jobs : status'[j] = status[j] \/ ByLate(c, j)
               /\ late' \subseteq late
    BY <1>4 DEF DeliverLate, ByLate, TypeOK, Commands
  <1> QED BY NextCases, <1>1, <1>2, <1>3, <1>4

(* A receive count never goes down. *)
LEMMA ReceivesGrow ==
  ASSUME TypeOK, [Next]_vars, NEW j \in Jobs
  PROVE  receives[j] <= receives'[j]
BY QueueEffect DEF HandOut, ExpireLease, Redrive, TypeOK

(* The lapses counted so far never become fewer. *)
LEMMA LapsesGrow ==
  ASSUME TypeOK, [Next]_vars
  PROVE  lapses' \in Nat /\ lapses <= lapses'
  <1>1. ASSUME NEW w \in Workers,
               \/ Internal(w) \/ UploadArtifact(w) \/ DeleteMessage(w) \/ Report(w)
               \/ Crash(w) \/ Kill(w)
               \/ \E j \in Jobs : ReceiveMessage(w, j) \/ LoseMessage(w, j)
        PROVE  lapses' = lapses
    BY <1>1, InternalEffect, ReportEffect, DeathEffect
    DEF UploadArtifact, DeleteMessage, ReceiveMessage, LoseMessage, HandOut
  <1>2. ASSUME NEW j \in Jobs, ExpireLease(j) \/ Redrive(j)
        PROVE  lapses' = lapses \/ lapses' = lapses + 1
    BY <1>2 DEF ExpireLease, Redrive
  <1>3. ASSUME NEW c \in late, DeliverLate(c)
        PROVE  lapses' = lapses
    BY <1>3 DEF DeliverLate
  <1> QED BY NextCases, <1>1, <1>2, <1>3, BoundsAssumption DEF TypeOK

-----------------------------------------------------------------------------
(* Each part of the inductive invariant is preserved *)

(* A delivery in hand stays one of a well-formed Job. *)
LEMMA BusyInductive ==
  ASSUME TypeOK, BusyOK, [Next]_vars
  PROVE  BusyOK'
  <1> SUFFICES ASSUME NEW w \in Workers, pc'[w] \in Busy
               PROVE  job'[w] \in Jobs \ Malformed /\ handle'[w] \in 1..receives'[job'[w]]
    BY DEF BusyOK
  <1>1. Moves(w) /\ pc'[w] \notin Idle
    BY WorkerEffect DEF Busy, Idle, Local, Reports, Intermediate
  <1>2. CASE \E j \in Jobs : ReceiveMessage(w, j)
    BY <1>2 DEF ReceiveMessage, HandOut, TypeOK
  <1>3. CASE pc[w] \in Busy /\ job'[w] = job[w] /\ handle'[w] = handle[w]
    <2>1. receives[job[w]] <= receives'[job[w]] /\ job[w] \in Jobs
      BY <1>3, ReceivesGrow DEF BusyOK
    <2>2. receives'[job[w]] \in 0..MaxReceives
      BY <2>1, TypeInductive DEF TypeOK
    <2> QED BY <1>3, <2>1, <2>2, BoundsAssumption DEF BusyOK, TypeOK
  <1> QED BY <1>1, <1>2, <1>3 DEF Moves

(* The receive count makes every new delivery a fresh one. *)
LEMMA OneOwnerInductive ==
  ASSUME TypeOK, BusyOK, OneOwner, [Next]_vars
  PROVE  OneOwner'
  <1> DEFINE Keeps(w) == pc[w] \in Busy /\ job'[w] = job[w] /\ handle'[w] = handle[w]
  <1>1. ASSUME NEW w \in Workers, pc'[w] \in Busy
        PROVE  Keeps(w) \/ \E j \in Jobs : ReceiveMessage(w, j)
    BY <1>1, WorkerEffect DEF Moves, Busy, Idle, Local, Reports, Intermediate
  <1>2. ASSUME NEW v \in Workers, NEW w \in Workers, NEW j \in Jobs,
               ReceiveMessage(w, j), Keeps(v), job'[v] = job'[w],
               handle'[v] = handle'[w]
        PROVE  FALSE
    <2>1. handle[v] \in 1..receives[j]
      BY <1>2 DEF ReceiveMessage, BusyOK, TypeOK
    <2>2. handle[v] = receives[j] + 1
      BY <1>2 DEF ReceiveMessage, TypeOK
    <2> QED BY <2>1, <2>2 DEF TypeOK
  <1>3. ASSUME NEW v \in Workers, NEW w \in Workers, NEW i \in Jobs, NEW j \in Jobs,
               ReceiveMessage(w, j), ReceiveMessage(v, i), v # w
        PROVE  FALSE
    BY <1>3 DEF ReceiveMessage, HandOut, Goto, TypeOK
  <1> QED BY <1>1, <1>2, <1>3 DEF OneOwner

(* Statuses and accepted deliveries never run ahead of the receive count. *)
LEMMA HistoryInductive ==
  ASSUME TypeOK, BusyOK, HistoryOK, [Next]_vars
  PROVE  HistoryOK'
  <1>1. \A j \in Jobs : receives[j] <= receives'[j]
    BY ReceivesGrow
  <1>2. TypeOK'
    BY TypeInductive
  <1>3. ASSUME NEW w \in Workers, pc[w] \in Reports
        PROVE  job[w] \in Jobs /\ handle[w] \in 1..receives[job[w]]
    BY <1>3 DEF BusyOK, Busy
  <1>4. ASSUME NEW j \in Jobs
        PROVE  accepted'[j] \subseteq 1..receives'[j]
    <2>1. accepted[j] \subseteq 1..receives'[j]
      BY <1>1, <1>2 DEF HistoryOK, TypeOK
    <2>2. ASSUME NEW w \in Workers, pc[w] = "SUCCESS", job[w] = j
          PROVE  handle[w] \in 1..receives'[j]
      BY <1>1, <1>2, <1>3, <2>2 DEF Reports, TypeOK
    <2> QED BY <2>1, <2>2, AcceptedEffect
  <1>5. ASSUME NEW j \in Jobs
        PROVE  status'[j].by <= receives'[j]
    <2>1. CASE status'[j] = status[j]
      BY <1>1, <1>2, <2>1 DEF HistoryOK, TypeOK
    <2>2. ASSUME NEW w \in Workers, ByWorker(w, j)
          PROVE  status'[j].by <= receives'[j]
      BY <1>1, <1>2, <1>3, <2>2 DEF ByWorker, TypeOK
    <2>3. ASSUME NEW c \in late, ByLate(c, j)
          PROVE  status'[j].by <= receives'[j]
      BY <1>1, <1>2, <2>3 DEF ByLate, HistoryOK, TypeOK, Commands, Deliveries
    <2> QED BY <2>1, <2>2, <2>3, BackendEffect
  <1>6. ASSUME NEW c \in late'
        PROVE  c.by <= receives'[c.job]
    <2>1. CASE c \in late
      BY <1>1, <1>2, <2>1 DEF HistoryOK, TypeOK, Commands, Deliveries
    <2>2. ASSUME NEW w \in Workers, pc[w] \in Reports, c = Command(w)
          PROVE  c.by <= receives'[c.job]
      BY <1>1, <1>2, <1>3, <2>2 DEF Command, TypeOK
    <2> QED BY <2>1, <2>2, BackendEffect
  <1> QED BY <1>4, <1>5, <1>6 DEF HistoryOK

(* An artifact, once written, is only ever overwritten. *)
LEMMA ArtifactsStay ==
  ASSUME TypeOK, BusyOK, [Next]_vars, NEW j \in Jobs, artifact[j] # 0
  PROVE  artifact'[j] # 0
BY ArtifactEffect DEF BusyOK, Busy, TypeOK

(* An accepted SUCCESS stays accepted. *)
LEMMA AcceptedStays ==
  ASSUME TypeOK, [Next]_vars, NEW j \in Jobs
  PROVE  accepted[j] \subseteq accepted'[j]
BY AcceptedEffect

(* The artifact check and the accepted SUCCESS come before the deletion. *)
LEMMA GateInductive ==
  ASSUME TypeOK, BusyOK, GateOK, [Next]_vars
  PROVE  GateOK'
  <1>1. ASSUME NEW w \in Workers, pc'[w] \in {"SUCCESS", "delete"}
        PROVE  /\ artifact'[job'[w]] # 0
               /\ pc'[w] = "delete" => handle'[w] \in accepted'[job'[w]]
    <2>1. pc[w] \in Busy /\ job'[w] = job[w] /\ handle'[w] = handle[w] /\ Forward(w)
      BY <1>1, WorkerEffect DEF Moves, Idle, ReceiveMessage, Goto, TypeOK
    <2>2. job[w] \in Jobs
      BY <2>1 DEF BusyOK
    <2>3. artifact[job[w]] # 0
      BY <1>1, <2>1 DEF Forward, GateOK, Intermediate, Local
    <2>4. ASSUME pc'[w] = "delete"
          PROVE  handle[w] \in accepted'[job[w]]
      <3>1. CASE pc[w] = "delete"
        BY <2>2, <3>1, AcceptedStays DEF GateOK
      <3>2. CASE pc[w] # "delete"
        <4>1. accepted' = [accepted EXCEPT ![job[w]] = @ \cup {handle[w]}]
          BY <2>1, <2>4, <3>2 DEF Forward, Intermediate, Local
        <4> QED BY <2>2, <4>1 DEF TypeOK
      <3> QED BY <3>1, <3>2
    <2> QED BY <2>1, <2>2, <2>3, <2>4, ArtifactsStay
  <1>2. ASSUME NEW j \in Jobs, accepted'[j] # {}
        PROVE  artifact'[j] # 0
    <2>1. artifact[j] # 0
      BY <1>2, AcceptedEffect DEF GateOK
    <2> QED BY <2>1, ArtifactsStay
  <1> QED BY <1>1, <1>2 DEF GateOK

(* Where a Worker can be after a step that leaves it its delivery. *)
LEMMA LateStage ==
  ASSUME TypeOK, [Next]_vars, NEW w \in Workers, pc'[w] \in Busy,
         \A j \in Jobs : ~ ReceiveMessage(w, j)
  PROVE  /\ pc[w] \in Busy /\ job'[w] = job[w] /\ handle'[w] = handle[w]
         /\ pc[w] \in {"FAILED", "finally"} => pc'[w] \in {"FAILED", "finally"}
         /\ pc[w] \in {"delete", "finally"} => pc'[w] \in {"delete", "finally"}
         /\ pc[w] = "finally" => pc'[w] = "finally"
  <1>1. Moves(w) /\ pc'[w] \notin Idle
    BY WorkerEffect DEF Busy, Idle, Local, Reports, Intermediate
  <1> QED BY <1>1 DEF Moves, Forward, Local, Intermediate

(* No report follows a FAILED verdict or an accepted SUCCESS. *)
LEMMA VerdictInductive ==
  ASSUME TypeOK, BusyOK, OneOwner, HistoryOK, VerdictOK, [Next]_vars
  PROVE  VerdictOK'
  <1> DEFINE Took(w) == \E j \in Jobs : ReceiveMessage(w, j)
  <1>1. ASSUME NEW w \in Workers, Took(w)
        PROVE  /\ job'[w] \in Jobs
               /\ handle'[w] = receives[job'[w]] + 1
               /\ status' = status /\ late' = late /\ accepted' = accepted
    BY <1>1 DEF ReceiveMessage, HandOut, TypeOK
  <1>2. ASSUME NEW w \in Workers, pc'[w] \in Busy, ~ Took(w)
        PROVE  /\ pc[w] \in Busy /\ job'[w] = job[w] /\ handle'[w] = handle[w]
               /\ job[w] \in Jobs
               /\ pc[w] \in {"FAILED", "finally"} => pc'[w] \in {"FAILED", "finally"}
               /\ pc[w] \in {"delete", "finally"} => pc'[w] \in {"delete", "finally"}
    BY <1>2, LateStage DEF BusyOK
  <1>3. ASSUME NEW w \in Workers, NEW j \in Jobs, pc'[w] \in Busy, job'[w] = j,
               status'[j].st = "FAILED", status'[j].by = handle'[w]
        PROVE  pc'[w] \in {"FAILED", "finally"}
    <2>1. CASE Took(w)
      BY <1>1, <1>3, <2>1 DEF HistoryOK, TypeOK
    <2>2. CASE ~ Took(w)
      <3>1. CASE status'[j] = status[j]
        BY <1>2, <1>3, <2>2, <3>1 DEF VerdictOK
      <3>2. ASSUME NEW v \in Workers, ByWorker(v, j)
            PROVE  pc'[w] \in {"FAILED", "finally"}
        <4>1. v = w
          BY <1>2, <1>3, <2>2, <3>2 DEF ByWorker, OneOwner, Busy
        <4> QED BY <1>2, <1>3, <2>2, <3>2, <4>1 DEF ByWorker
      <3>3. ASSUME NEW c \in late, ByLate(c, j)
            PROVE  pc'[w] \in {"FAILED", "finally"}
        BY <1>2, <1>3, <2>2, <3>3 DEF ByLate, VerdictOK
      <3> QED BY <3>1, <3>2, <3>3, BackendEffect
    <2> QED BY <2>1, <2>2
  <1>4. ASSUME NEW w \in Workers, NEW c \in late', pc'[w] \in Busy, job'[w] = c.job,
               c.st = "FAILED", c.by = handle'[w]
        PROVE  pc'[w] \in {"FAILED", "finally"}
    <2>1. CASE Took(w)
      BY <1>1, <1>4, <2>1 DEF HistoryOK, TypeOK
    <2>2. CASE ~ Took(w)
      <3>1. CASE c \in late
        BY <1>2, <1>4, <2>2, <3>1 DEF VerdictOK
      <3>2. ASSUME NEW v \in Workers, pc[v] \in Reports, c = Command(v)
            PROVE  pc'[w] \in {"FAILED", "finally"}
        <4>1. v = w
          BY <1>2, <1>4, <2>2, <3>2 DEF Command, OneOwner, Busy
        <4> QED BY <1>2, <1>4, <2>2, <3>2, <4>1 DEF Command
      <3> QED BY <3>1, <3>2, BackendEffect
    <2> QED BY <2>1, <2>2
  <1>5. ASSUME NEW w \in Workers, pc'[w] \in Busy, handle'[w] \in accepted'[job'[w]]
        PROVE  pc'[w] \in {"delete", "finally"}
    <2>1. CASE Took(w)
      BY <1>1, <1>5, <2>1 DEF HistoryOK, TypeOK
    <2>2. CASE ~ Took(w)
      <3>1. CASE handle[w] \in accepted[job[w]]
        BY <1>2, <1>5, <2>2, <3>1 DEF VerdictOK
      <3>2. CASE handle[w] \notin accepted[job[w]]
        <4>1. PICK v \in Workers : /\ pc[v] = "SUCCESS" /\ pc'[v] = "delete"
                                   /\ job[v] = job[w]
                                   /\ accepted'[job[w]] = accepted[job[w]] \cup {handle[v]}
          BY <1>2, <1>5, <2>2, <3>2, AcceptedEffect
        <4>2. v = w
          BY <1>2, <1>5, <2>2, <3>2, <4>1 DEF OneOwner, Busy, Reports
        <4> QED BY <4>1, <4>2
      <3> QED BY <3>1, <3>2
    <2> QED BY <2>1, <2>2
  <1> QED BY <1>3, <1>4, <1>5 DEF VerdictOK

(* The two verdicts of one delivery exclude each other. *)
LEMMA HonestInductive ==
  ASSUME TypeOK, BusyOK, OneOwner, VerdictOK, FailedVerdictIsHonest, [Next]_vars
  PROVE  FailedVerdictIsHonest'
  <1>1. ASSUME NEW j \in Jobs, NEW d \in accepted'[j], d \notin accepted[j]
        PROVE  \E v \in Workers : pc[v] = "SUCCESS" /\ job[v] = j /\ handle[v] = d
    BY <1>1, AcceptedEffect
  <1>2. ASSUME NEW w \in Workers, NEW j \in Jobs, pc[w] = "FAILED", job[w] = j
        PROVE  handle[w] \notin accepted'[j]
    <2>1. handle[w] \notin accepted[j]
      BY <1>2 DEF VerdictOK, Busy, Reports
    <2> QED BY <1>1, <1>2, <2>1 DEF OneOwner, Busy, Reports
  <1>3. ASSUME NEW c \in late, c.st = "FAILED"
        PROVE  c.by \notin accepted'[c.job]
    <2>1. c.by \notin accepted[c.job] /\ c.job \in Jobs
      BY <1>3 DEF FailedVerdictIsHonest, TypeOK, Commands
    <2> QED BY <1>1, <1>3, <2>1 DEF VerdictOK, Busy, Reports
  <1>4. ASSUME NEW j \in Jobs, status'[j].st = "FAILED"
        PROVE  status'[j].by \notin accepted'[j]
    <2>1. CASE status'[j] = status[j]
      <3>1. status[j].by \notin accepted[j]
        BY <1>4, <2>1 DEF FailedVerdictIsHonest
      <3> QED BY <1>1, <1>4, <2>1, <3>1 DEF VerdictOK, Busy, Reports
    <2>2. ASSUME NEW w \in Workers, ByWorker(w, j)
          PROVE  status'[j].by \notin accepted'[j]
      BY <1>2, <1>4, <2>2 DEF ByWorker
    <2>3. ASSUME NEW c \in late, ByLate(c, j)
          PROVE  status'[j].by \notin accepted'[j]
      BY <1>3, <1>4, <2>3 DEF ByLate
    <2> QED BY <2>1, <2>2, <2>3, BackendEffect
  <1>5. ASSUME NEW c \in late', c.st = "FAILED"
        PROVE  c.by \notin accepted'[c.job]
    <2>1. CASE c \in late
      BY <1>3, <1>5, <2>1
    <2>2. ASSUME NEW w \in Workers, pc[w] \in Reports, c = Command(w)
          PROVE  c.by \notin accepted'[c.job]
      BY <1>2, <1>5, <2>2 DEF Command, BusyOK, Busy
    <2> QED BY <2>1, <2>2, BackendEffect
  <1> QED BY <1>4, <1>5 DEF FailedVerdictIsHonest

(* Only a lapse parts a Worker from the message it works on. *)
LEMMA LeaseInductive ==
  ASSUME TypeOK, BusyOK, LeaseOK, [Next]_vars
  PROVE  LeaseOK'
  <1> SUFFICES ASSUME lapses' = 0, NEW w \in Workers, pc'[w] \in Busy
               PROVE  /\ handle'[w] = receives'[job'[w]]
                      /\ queue'[job'[w]] \in {"inflight", "deleted"}
    BY DEF LeaseOK
  <1>1. lapses = 0
    BY LapsesGrow DEF TypeOK
  <1>2. CASE \E j \in Jobs : ReceiveMessage(w, j)
    BY <1>2 DEF ReceiveMessage, HandOut, TypeOK
  <1>3. CASE \A j \in Jobs : ~ ReceiveMessage(w, j)
    <2>1. /\ pc[w] \in Busy /\ job'[w] = job[w] /\ handle'[w] = handle[w]
          /\ job[w] \in Jobs
      BY <1>3, LateStage DEF BusyOK
    <2>2. handle[w] = receives[job[w]] /\ queue[job[w]] \in {"inflight", "deleted"}
      BY <1>1, <2>1 DEF LeaseOK
    <2>3. ~ ExpireLease(job[w])
      BY <1>1, <2>1, <2>2 DEF ExpireLease, Holds
    <2> QED BY <2>1, <2>2, <2>3, QueueEffect DEF HandOut, Redrive
  <1> QED BY <1>2, <1>3

-----------------------------------------------------------------------------
(* The safety properties *)

(* Every step keeps the deletion gate. *)
LEMMA AckedInductive ==
  ASSUME TypeOK, BusyOK, GateOK, AckedOnlyAfterAcceptedSuccess, [Next]_vars
  PROVE  AckedOnlyAfterAcceptedSuccess'
  <1> SUFFICES ASSUME NEW j \in Jobs, queue'[j] = "deleted"
               PROVE  accepted'[j] # {} /\ artifact'[j] # 0
    BY DEF AckedOnlyAfterAcceptedSuccess
  <1>1. accepted[j] # {} /\ artifact[j] # 0
    <2>1. CASE queue[j] = "deleted"
      BY <2>1 DEF AckedOnlyAfterAcceptedSuccess
    <2>2. CASE \E w \in Workers : pc[w] = "delete" /\ job[w] = j
      BY <2>2 DEF GateOK
    <2> QED BY <2>1, <2>2, QueueEffect DEF HandOut, ExpireLease, Redrive, TypeOK
  <1> QED BY <1>1, AcceptedStays, ArtifactsStay

(* Every step keeps the artifact behind each SUCCESS. *)
LEMMA SuccessInductive ==
  ASSUME TypeOK, BusyOK, GateOK, SuccessMeansArtifact, [Next]_vars
  PROVE  SuccessMeansArtifact'
  <1>1. ASSUME NEW w \in Workers, pc[w] = "SUCCESS"
        PROVE  job[w] \in Jobs /\ artifact[job[w]] # 0
    BY <1>1 DEF GateOK, BusyOK, Busy, Reports
  <1>2. ASSUME NEW c \in late, c.st = "SUCCESS"
        PROVE  c.job \in Jobs /\ artifact[c.job] # 0
    BY <1>2 DEF SuccessMeansArtifact, TypeOK, Commands
  <1>3. ASSUME NEW j \in Jobs, status'[j].st = "SUCCESS"
        PROVE  artifact'[j] # 0
    <2>1. CASE status'[j] = status[j]
      BY <1>3, <2>1, ArtifactsStay DEF SuccessMeansArtifact
    <2>2. ASSUME NEW w \in Workers, ByWorker(w, j)
          PROVE  artifact'[j] # 0
      BY <1>1, <1>3, <2>2, ArtifactsStay DEF ByWorker
    <2>3. ASSUME NEW c \in late, ByLate(c, j)
          PROVE  artifact'[j] # 0
      BY <1>2, <1>3, <2>3, ArtifactsStay DEF ByLate
    <2> QED BY <2>1, <2>2, <2>3, BackendEffect
  <1>4. ASSUME NEW c \in late', c.st = "SUCCESS"
        PROVE  artifact'[c.job] # 0
    <2>1. c.job \in Jobs /\ artifact[c.job] # 0
      BY <1>1, <1>2, <1>4, BackendEffect DEF Command
    <2> QED BY <2>1, ArtifactsStay
  <1> QED BY <1>3, <1>4 DEF SuccessMeansArtifact

(* The invariant holds of the state the system starts in. *)
THEOREM InitIInv == Init => IInv
  <1> SUFFICES ASSUME Init PROVE IInv
    OBVIOUS
  <1> USE BoundsAssumption, MaxAttemptsAssumption
      DEF Init, Busy, Local, Reports, Intermediate, Idle
  <1>1. TypeOK
    BY DEF TypeOK
  <1>2. BusyOK /\ OneOwner /\ LeaseOK
    BY DEF BusyOK, OneOwner, LeaseOK
  <1>3. HistoryOK
    BY DEF HistoryOK
  <1>4. GateOK /\ AckedOnlyAfterAcceptedSuccess /\ SuccessMeansArtifact
    BY DEF GateOK, AckedOnlyAfterAcceptedSuccess, SuccessMeansArtifact
  <1>5. VerdictOK /\ FailedVerdictIsHonest
    BY DEF VerdictOK, FailedVerdictIsHonest
  <1> QED BY <1>1, <1>2, <1>3, <1>4, <1>5 DEF IInv

(* Every step preserves the invariant. *)
THEOREM NextIInv == IInv /\ [Next]_vars => IInv'
BY TypeInductive, BusyInductive, OneOwnerInductive, HistoryInductive,
   GateInductive, VerdictInductive, LeaseInductive, AckedInductive,
   SuccessInductive, HonestInductive
DEF IInv

(* IInv holds of every reachable state. *)
THEOREM Invariance == Spec => []IInv
BY InitIInv, NextIInv, PTL DEF Spec

(* Every variable keeps its type: the counters their bounds, the attempts   *)
(* of a report theirs, commands their Job and delivery.                     *)
THEOREM TypeCorrect == Spec => []TypeOK
BY Invariance, PTL DEF IInv

(* The deletion gate of _phase_finalize holds. *)
THEOREM DeletionGate == Spec => []AckedOnlyAfterAcceptedSuccess
BY Invariance, PTL DEF IInv

(* The Backend never says SUCCESS of a Job without an artifact. *)
THEOREM SuccessIsBacked == Spec => []SuccessMeansArtifact
BY Invariance, PTL DEF IInv

(* No delivery reports FAILED after its SUCCESS was accepted. *)
THEOREM HonestVerdict == Spec => []FailedVerdictIsHonest
BY Invariance, PTL DEF IInv

(* As long as no lease lapses, no two processes work on one Job. *)
THEOREM Exclusion == Spec => []ExclusiveProcessing
  <1>1. IInv => ExclusiveProcessing
    BY DEF IInv, LeaseOK, OneOwner, ExclusiveProcessing
  <1> QED BY <1>1, Invariance, PTL
-----------------------------------------------------------------------------
(* Progress without fairness *)

(* A process that waits for its restart has no shutdown request: a shutdown  *)
(* request is never followed by a restart.                                   *)
DownOK == \A w \in Workers : pc[w] = "down" => ~ shutdown[w]

(* No step restarts a process that was told to stop. *)
LEMMA DownInductive ==
  ASSUME TypeOK, DownOK, [Next]_vars
  PROVE  DownOK'
  <1> USE DEF DownOK, TypeOK
  <1>1. ASSUME NEW w \in Workers, Start(w)
        PROVE  DownOK'
    BY <1>1 DEF Start, Goto
  <1>2. ASSUME NEW w \in Workers, Signal(w)
        PROVE  DownOK'
    BY <1>2 DEF Signal
  <1>3. ASSUME NEW w \in Workers, Crash(w)
        PROVE  DownOK'
    BY <1>3 DEF Crash, Die, Goto
  <1>4. ASSUME NEW w \in Workers, Kill(w)
        PROVE  DownOK'
    BY <1>4 DEF Kill, Die, Goto
  <1>5. ASSUME UNCHANGED shutdown,
               \A w \in Workers : pc'[w] = "down" => pc[w] = "down"
        PROVE  DownOK'
    BY <1>5
  <1>6. ASSUME NEW w \in Workers, Report(w)
        PROVE  DownOK'
    <2>1. PICK p \in Busy : pc' = [pc EXCEPT ![w] = p]
      BY <1>6, ReportEffect
    <2>2. UNCHANGED shutdown /\ p # "down"
      BY <1>6, ReportEffect DEF Busy, Local, Reports, Intermediate
    <2> QED BY <1>5, <2>1, <2>2
  <1>7. ASSUME NEW w \in Workers,
               \/ LoopTop(w) \/ CleanupOldWorkdirs(w) \/ ReceiveNothing(w)
               \/ StopExtender(w)
               \/ \E j \in Jobs : ReceiveMessage(w, j) \/ LoseMessage(w, j)
        PROVE  DownOK'
    <2>1. /\ UNCHANGED shutdown
          /\ \E p \in {"stopped", "cleanup", "receive", "top", "prepare"} :
               pc' = [pc EXCEPT ![w] = p]
      BY <1>7 DEF LoopTop, CleanupOldWorkdirs, ReceiveNothing, StopExtender,
         ReceiveMessage, LoseMessage, HandOut, Goto
    <2> QED BY <1>5, <2>1
  <1>8. ASSUME NEW w \in Workers,
               \/ PrepareWorkdir(w) \/ DownloadInputs(w) \/ GenerateCode(w)
               \/ BuildApk(w) \/ UploadArtifact(w) \/ VerifyArtifact(w)
               \/ DeleteMessage(w)
        PROVE  DownOK'
    <2>1. /\ UNCHANGED shutdown
          /\ \E p \in Busy \cup {"FAILED"} : pc' = [pc EXCEPT ![w] = p]
      BY <1>8 DEF PrepareWorkdir, DownloadInputs, GenerateCode, BuildApk, LocalStep,
         UploadArtifact, VerifyArtifact, DeleteMessage, Goto, Busy, Reports,
         Intermediate, Local
    <2>2. "down" \notin Busy
      BY DEF Busy, Local, Reports, Intermediate
    <2> QED BY <1>5, <2>1, <2>2
  <1>9. ASSUME \/ \E j \in Jobs : ExpireLease(j) \/ Redrive(j)
               \/ \E c \in late : DeliverLate(c)
               \/ UNCHANGED vars
        PROVE  DownOK'
    BY <1>9 DEF ExpireLease, Redrive, DeliverLate
  <1> QED BY <1>1, <1>2, <1>3, <1>4, <1>6, <1>7, <1>8, <1>9
          DEF Next, Step, Environment

(* Going to a later position brings a Worker nearer to the end. *)
LEMMA LaterPosition ==
  ASSUME TypeOK, NEW w \in Workers, NEW p, Goto(w, p),
         StepsLeft[p] < StepsLeft[pc[w]]
  PROVE  Nearer(w)
  <1>1. pc'[w] = p
    BY DEF Goto, TypeOK
  <1> QED BY <1>1 DEF Nearer

(* A report goes on to what follows it, or is repeated. *)
LEMMA ReportNears ==
  ASSUME TypeOK, NEW w \in Workers, Report(w)
  PROVE  Nearer(w)
  <1>1. CASE ReportRetried(w)
    <2>1. attempt[w] \in Nat /\ attempt[w] < MaxAttempts /\ MaxAttempts \in Nat
      BY <1>1, MaxAttemptsAssumption DEF ReportRetried, Retried, TypeOK
    <2>2. pc'[w] = pc[w] /\ attempt'[w] = attempt[w] + 1
      BY <1>1 DEF ReportRetried, TypeOK
    <2> QED BY <2>1, <2>2, MaxAttemptsAssumption DEF Nearer
  <1>2. ASSUME NEW p \in {NextPhase(pc[w]), OnStatusApiFailure(pc[w]),
                          OnOtherException(pc[w])}
        PROVE  StepsLeft[p] < StepsLeft[pc[w]]
    <2>1. pc[w] \in Reports
      BY ReportEffect
    <2>2. /\ pc[w] = "ANALYZING" => p \in {"download", "FAILED"}
          /\ pc[w] = "GENERATING_CODE" => p \in {"generate", "FAILED"}
          /\ pc[w] = "BUILDING" => p \in {"build", "FAILED"}
          /\ pc[w] = "SUCCESS" => p \in {"delete", "FAILED"}
          /\ pc[w] = "FAILED" => p = "finally"
      BY <1>2 DEF NextPhase, OnStatusApiFailure, OnOtherException
    <2> QED BY <2>1, <2>2 DEF StepsLeft, Reports, Intermediate
  <1>3. CASE ReportAccepted(w) \/ ReportFailed(w) \/ ReportBroken(w)
    <2>1. PICK p \in {NextPhase(pc[w]), OnStatusApiFailure(pc[w]),
                      OnOtherException(pc[w])} : Goto(w, p)
      BY <1>3 DEF ReportAccepted, ReportFailed, ReportBroken
    <2> QED BY <1>2, <2>1, LaterPosition
  <1> QED BY <1>1, <1>3 DEF Report

(* The steps of a delivery that are not reports. *)
LEMMA PhaseNears ==
  ASSUME TypeOK, NEW w \in Workers,
         \/ PrepareWorkdir(w) \/ DownloadInputs(w) \/ GenerateCode(w)
         \/ BuildApk(w) \/ UploadArtifact(w) \/ VerifyArtifact(w)
         \/ DeleteMessage(w) \/ StopExtender(w)
  PROVE  Nearer(w)
  <1>1. CASE PrepareWorkdir(w) \/ DownloadInputs(w) \/ GenerateCode(w) \/ BuildApk(w)
    <2>1. \E p \in {"ANALYZING", "GENERATING_CODE", "BUILDING", "upload", "FAILED"} :
            /\ Goto(w, p)
            /\ p # "FAILED" =>
                 <<pc[w], p>> \in
                   {<<"prepare", "ANALYZING">>, <<"download", "GENERATING_CODE">>,
                    <<"generate", "BUILDING">>, <<"build", "upload">>}
            /\ pc[w] \in {"prepare", "download", "generate", "build"}
      BY <1>1 DEF PrepareWorkdir, DownloadInputs, GenerateCode, BuildApk, LocalStep
    <2>2. PICK p : Goto(w, p) /\ StepsLeft[p] < StepsLeft[pc[w]]
      BY <2>1 DEF StepsLeft
    <2> QED BY <2>2, LaterPosition
  <1>2. CASE UploadArtifact(w)
    <2>1. pc[w] = "upload" /\ \E p \in {"verify", "FAILED"} : Goto(w, p)
      BY <1>2 DEF UploadArtifact
    <2> QED BY <2>1, LaterPosition DEF StepsLeft
  <1>3. CASE VerifyArtifact(w)
    <2>1. pc[w] = "verify" /\ \E p \in {"SUCCESS", "FAILED"} : Goto(w, p)
      BY <1>3 DEF VerifyArtifact
    <2> QED BY <2>1, LaterPosition DEF StepsLeft
  <1>4. CASE DeleteMessage(w)
    <2>1. pc[w] = "delete" /\ Goto(w, "finally")
      BY <1>4 DEF DeleteMessage
    <2> QED BY <2>1, LaterPosition DEF StepsLeft
  <1>5. CASE StopExtender(w)
    <2>1. pc[w] = "finally" /\ Goto(w, "top")
      BY <1>5 DEF StopExtender
    <2> QED BY <2>1, LaterPosition DEF StepsLeft
  <1> QED BY <1>1, <1>2, <1>3, <1>4, <1>5

(* The steps of the loop, once a shutdown is requested. *)
LEMMA LoopNears ==
  ASSUME TypeOK, DownOK, NEW w \in Workers, shutdown[w],
         \/ Start(w) \/ LoopTop(w) \/ CleanupOldWorkdirs(w) \/ ReceiveNothing(w)
         \/ \E j \in Jobs : ReceiveMessage(w, j) \/ LoseMessage(w, j)
  PROVE  Nearer(w)
  <1>1. ~ Start(w)
    BY DEF Start, DownOK
  <1>2. CASE LoopTop(w)
    <2>1. pc[w] = "top" /\ Goto(w, "stopped")
      BY <1>2 DEF LoopTop
    <2> QED BY <2>1, LaterPosition DEF StepsLeft
  <1>3. CASE CleanupOldWorkdirs(w)
    <2>1. pc[w] = "cleanup" /\ Goto(w, "receive")
      BY <1>3 DEF CleanupOldWorkdirs
    <2> QED BY <2>1, LaterPosition DEF StepsLeft
  <1>4. CASE ReceiveNothing(w) \/ \E j \in Jobs : ReceiveMessage(w, j) \/ LoseMessage(w, j)
    <2>1. pc[w] = "receive" /\ \E p \in {"top", "prepare"} : Goto(w, p)
      BY <1>4 DEF ReceiveNothing, ReceiveMessage, LoseMessage, HandOut
    <2> QED BY <2>1, LaterPosition DEF StepsLeft
  <1> QED BY <1>1, <1>2, <1>3, <1>4

(* No fairness is assumed: whatever is answered, a delivery has a bounded    *)
(* number of steps, and so has what is left of a process after SIGTERM.      *)
THEOREM StepsNearTheEnd == Spec => EachStepNearsTheEnd
  <1>1. Init => DownOK
    BY DEF Init, DownOK
  <1>2. IInv /\ DownOK /\ [Next]_vars => DownOK'
    BY DownInductive DEF IInv
  <1>3. ASSUME IInv, DownOK, NEW w \in Workers, Step(w), pc[w] \in Busy \/ shutdown[w]
        PROVE  Nearer(w)
    <2>1. CASE Report(w)
      BY <1>3, <2>1, ReportNears DEF IInv
    <2>2. CASE \/ PrepareWorkdir(w) \/ DownloadInputs(w) \/ GenerateCode(w)
               \/ BuildApk(w) \/ UploadArtifact(w) \/ VerifyArtifact(w)
               \/ DeleteMessage(w) \/ StopExtender(w)
      BY <1>3, <2>2, PhaseNears DEF IInv
    <2>3. CASE \/ Start(w) \/ LoopTop(w) \/ CleanupOldWorkdirs(w) \/ ReceiveNothing(w)
               \/ \E j \in Jobs : ReceiveMessage(w, j) \/ LoseMessage(w, j)
      <3>1. pc[w] \notin Busy
        BY <2>3 DEF Start, LoopTop, CleanupOldWorkdirs, ReceiveNothing, ReceiveMessage,
           LoseMessage, HandOut, Busy, Local, Reports, Intermediate
      <3> QED BY <1>3, <2>3, <3>1, LoopNears DEF IInv
    <2> QED BY <1>3, <2>1, <2>2, <2>3 DEF Step
  <1>4. IInv /\ DownOK /\ [Next]_vars =>
          [\A w \in Workers :
             (pc[w] \in Busy \/ shutdown[w]) /\ ~ Nearer(w) => ~ Step(w)]_vars
    BY <1>3
  <1> QED BY <1>1, <1>2, <1>4, Invariance, PTL DEF Spec, EachStepNearsTheEnd
=============================================================================
