----------------------- MODULE OrchestratorOrderProofs -----------------------
(***************************************************************************)
(* Theorems about module Orchestrator that hold unless a lease has lapsed  *)
(* or a command was applied late: what one delivery tells the Backend and  *)
(* leaves in the bucket is then its own, and in order.                     *)
(***************************************************************************)
EXTENDS OrchestratorProofs

USE DEF queueVars, backendVars, workerVars, vars, At

(* A Worker that is past its upload has its own APK in the bucket. *)
OwnOK ==
  lapses = 0 => \A w \in Workers :
    pc[w] \in {"verify", "SUCCESS", "delete"} => artifact[job[w]] = handle[w]

(* Only the Worker of a delivery speaks for it ... *)
PromptOK == lates = 0 => late = {}

(* ... and what it has said so far is no further than where it stands. *)
Stage(p) ==
  CASE p = "prepare" -> 0
    [] p \in {"ANALYZING", "download"} -> 1
    [] p \in {"GENERATING_CODE", "generate"} -> 2
    [] p \in {"BUILDING", "build", "upload", "verify"} -> 3
    [] p \in {"SUCCESS", "delete"} -> 4
    [] OTHER -> 5

StageOK ==
  lates = 0 => \A w \in Workers :
    pc[w] \in Busy /\ status[job[w]].by = handle[w]
      => Rank(status[job[w]].st) <= Stage(pc[w])

(* A Job about to be deleted says SUCCESS ... *)
AckOK ==
  lapses = 0 /\ lates = 0 => \A w \in Workers :
    pc[w] = "delete" => status[job[w]].st = "SUCCESS"

(* ... and nobody uploads for, or reports on, one that has been deleted. *)
DeletedOK ==
  lapses = 0 => \A w \in Workers :
    pc[w] \in Busy /\ queue[job[w]] = "deleted" => pc[w] \in {"delete", "finally"}

OrderInv ==
  /\ IInv /\ OwnOK /\ PromptOK /\ StageOK /\ AckOK /\ DeletedOK
  /\ AckedJobStaysSuccess /\ SuccessStandsUntilRedelivery
  /\ AckedArtifactWasAnnounced

-----------------------------------------------------------------------------
(* What one step can do *)

(* A Worker with a delivery in hand that it had before, as a step leaves it. *)
Keeps(w) ==
  /\ pc[w] \in Busy /\ pc'[w] \in Busy
  /\ job'[w] = job[w] /\ handle'[w] = handle[w]
  /\ job[w] \in Jobs
  /\ Forward(w)

(* A delivery in hand is the one from before the step or a new one. *)
LEMMA KeepsOrTakes ==
  ASSUME IInv, [Next]_vars, NEW w \in Workers, pc'[w] \in Busy
  PROVE  Keeps(w) \/ \E j \in Jobs : ReceiveMessage(w, j)
  <1>1. pc'[w] \notin Idle
    BY DEF Busy, Idle, Local, Reports, Intermediate
  <1> QED BY <1>1, WorkerEffect DEF Moves, Keeps, IInv, BusyOK

(* Unless a lease has lapsed, a Job has one Worker. *)
LEMMA OneWorker ==
  ASSUME IInv, lapses = 0, NEW v \in Workers, NEW w \in Workers,
         pc[v] \in Busy, pc[w] \in Busy, job[v] = job[w]
  PROVE  v = w
BY DEF IInv, LeaseOK, OneOwner

(* A state without a lapse comes from one without a lapse. *)
LEMMA CountsGrow ==
  ASSUME IInv, [Next]_vars
  PROVE  lapses' = 0 => lapses = 0
BY LapsesGrow DEF IInv, TypeOK

(* With no late command counted the step that was made added none. *)
LEMMA LatesGrow ==
  ASSUME IInv, [Next]_vars, lates' = 0
  PROVE  lates = 0 /\ late' \subseteq late
  <1>0. lates \in Nat
    BY BoundsAssumption DEF IInv, TypeOK
  <1>1. ASSUME NEW w \in Workers,
               \/ Internal(w) \/ UploadArtifact(w) \/ DeleteMessage(w)
               \/ \E j \in Jobs : ReceiveMessage(w, j) \/ LoseMessage(w, j)
        PROVE  lates' = lates /\ late' = late
    BY <1>1, InternalEffect
    DEF UploadArtifact, DeleteMessage, ReceiveMessage, LoseMessage, HandOut
  <1>2. ASSUME NEW w \in Workers, Uncertain(w) \/ UNCHANGED backendVars
        PROVE  (lates' = lates /\ late' = late) \/ lates' = lates + 1
    BY <1>2 DEF Uncertain, Lost, Now, Late
  <1>3. ASSUME NEW w \in Workers, Report(w) \/ Crash(w) \/ Kill(w)
        PROVE  Uncertain(w) \/ UNCHANGED backendVars
    BY <1>3, ReportEffect, DeathEffect DEF InFlight, IInv
  <1>4. ASSUME \/ \E j \in Jobs : ExpireLease(j) \/ Redrive(j)
               \/ \E c \in late : DeliverLate(c)
        PROVE  lates' = lates /\ late' \subseteq late
    BY <1>4 DEF ExpireLease, Redrive, DeliverLate
  <1> QED BY NextCases, <1>0, <1>1, <1>2, <1>3, <1>4

(* Stage, one position after the other. *)
LEMMA StageValues ==
  /\ Stage("prepare") = 0
  /\ Stage("ANALYZING") = 1 /\ Stage("download") = 1
  /\ Stage("GENERATING_CODE") = 2 /\ Stage("generate") = 2
  /\ Stage("BUILDING") = 3 /\ Stage("build") = 3
  /\ Stage("upload") = 3 /\ Stage("verify") = 3
  /\ Stage("SUCCESS") = 4 /\ Stage("delete") = 4
  /\ Stage("FAILED") = 5 /\ Stage("finally") = 5
BY DEF Stage

(* Rank, which orders the statuses. *)
LEMMA RankValues ==
  /\ Rank("QUEUED") = 0 /\ Rank("ANALYZING") = 1 /\ Rank("GENERATING_CODE") = 2
  /\ Rank("BUILDING") = 3 /\ Rank("SUCCESS") = 4 /\ Rank("FAILED") = 5
BY DEF Rank

(* No step takes a delivery back to an earlier phase. *)
LEMMA StageGrows ==
  ASSUME IInv, [Next]_vars, NEW w \in Workers, Keeps(w)
  PROVE  Stage(pc[w]) <= Stage(pc'[w])
  <1> USE StageValues
      DEF Keeps, Busy, Local, Reports, Intermediate, Goto, IInv, TypeOK
  <1>1. CASE pc'[w] = pc[w]
    <2>1. Stage(pc[w]) \in Nat
      OBVIOUS
    <2> QED BY <1>1, <2>1
  <1>2. ASSUME NEW v \in Workers,
               \/ PrepareWorkdir(v) \/ DownloadInputs(v) \/ GenerateCode(v) \/ BuildApk(v)
               \/ UploadArtifact(v) \/ VerifyArtifact(v) \/ DeleteMessage(v),
               pc'[w] # pc[w]
        PROVE  Stage(pc[w]) <= Stage(pc'[w])
    BY <1>2 DEF PrepareWorkdir, DownloadInputs, GenerateCode, BuildApk, LocalStep,
       UploadArtifact, VerifyArtifact, DeleteMessage
  <1>3. ASSUME NEW v \in Workers, Report(v), pc'[w] # pc[w]
        PROVE  Stage(pc[w]) <= Stage(pc'[w])
    <2>1. pc[w] \in Reports /\ v = w
      BY <1>3 DEF Report, ReportAccepted, ReportRetried, ReportFailed, ReportBroken,
                  Reporting
    <2>2. pc'[w] \in {NextPhase(pc[w]), OnStatusApiFailure(pc[w]),
                      OnOtherException(pc[w])}
      BY <1>3, <2>1 DEF Report, ReportAccepted, ReportRetried, ReportFailed, ReportBroken
    <2>3. /\ pc[w] = "ANALYZING" => pc'[w] \in {"download", "FAILED"}
          /\ pc[w] = "GENERATING_CODE" => pc'[w] \in {"generate", "FAILED"}
          /\ pc[w] = "BUILDING" => pc'[w] \in {"build", "FAILED"}
          /\ pc[w] = "SUCCESS" => pc'[w] \in {"delete", "FAILED"}
          /\ pc[w] = "FAILED" => pc'[w] = "finally"
      BY <2>1, <2>2 DEF NextPhase, OnStatusApiFailure, OnOtherException
    <2> QED BY <2>1, <2>3
  <1>4. ASSUME NEW v \in Workers,
               \/ Start(v) \/ LoopTop(v) \/ CleanupOldWorkdirs(v)
               \/ ReceiveNothing(v) \/ Signal(v) \/ StopExtender(v)
        PROVE  pc'[w] = pc[w]
    BY <1>4 DEF Start, LoopTop, CleanupOldWorkdirs, ReceiveNothing, Signal, StopExtender
  <1>5. ASSUME NEW v \in Workers,
               \E j \in Jobs : ReceiveMessage(v, j) \/ LoseMessage(v, j)
        PROVE  pc'[w] = pc[w]
    BY <1>5 DEF ReceiveMessage, LoseMessage, HandOut
  <1>6. ASSUME NEW v \in Workers, Crash(v) \/ Kill(v)
        PROVE  pc'[w] = pc[w]
    BY <1>6, DeathEffect
  <1>7. ASSUME \/ \E j \in Jobs : ExpireLease(j) \/ Redrive(j)
               \/ \E c \in late : DeliverLate(c)
               \/ UNCHANGED vars
        PROVE  pc'[w] = pc[w]
    BY <1>7 DEF ExpireLease, Redrive, DeliverLate
  <1> QED BY <1>1, <1>2, <1>3, <1>4, <1>5, <1>6, <1>7 DEF Next, Step, Environment

(* With nothing late, what the Backend says of a Job is what it said, or    *)
(* the report of a Worker that has a delivery of the Job in hand.           *)
LEMMA PromptBackend ==
  ASSUME IInv, PromptOK, [Next]_vars, lates' = 0, NEW j \in Jobs
  PROVE  status'[j] = status[j] \/ \E w \in Workers : ByWorker(w, j)
BY LatesGrow, BackendEffect DEF PromptOK, IInv

-----------------------------------------------------------------------------
(* Each part of OrderInv is preserved *)

(* With one Worker to a Job nobody overwrites the APK it has uploaded. *)
LEMMA OwnInductive ==
  ASSUME IInv, OwnOK, [Next]_vars
  PROVE  OwnOK'
  <1> SUFFICES ASSUME lapses' = 0, NEW w \in Workers,
                      pc'[w] \in {"verify", "SUCCESS", "delete"}
               PROVE  artifact'[job'[w]] = handle'[w]
    BY DEF OwnOK
  <1>1. lapses = 0
    BY CountsGrow
  <1>2. Keeps(w)
    BY KeepsOrTakes DEF ReceiveMessage, Goto, IInv, TypeOK, Busy, Reports
  <1>3. CASE pc[w] = "upload"
    BY <1>2, <1>3 DEF Keeps, Forward, WriteArtifact, IInv, TypeOK, Local,
                      Intermediate, Reports
  <1>4. CASE pc[w] \in {"verify", "SUCCESS", "delete"}
    <2>1. artifact[job[w]] = handle[w]
      BY <1>1, <1>4 DEF OwnOK
    <2>2. ASSUME NEW v \in Workers, pc[v] = "upload", job[v] = job[w]
          PROVE  FALSE
      <3>1. pc[v] \in Busy /\ pc[w] \in Busy
        BY <1>4, <2>2 DEF Busy, Reports
      <3> QED BY <1>1, <1>4, <2>2, <3>1, OneWorker
    <2> QED BY <1>2, <2>1, <2>2, ArtifactEffect DEF Keeps, IInv
  <1> QED BY <1>2, <1>3, <1>4 DEF Keeps, Forward, Local, Intermediate

(* No command becomes late without being counted. *)
LEMMA PromptInductive ==
  ASSUME IInv, PromptOK, [Next]_vars
  PROVE  PromptOK'
BY LatesGrow DEF PromptOK

(* A delivery never stands behind what it has reported. *)
LEMMA StageInductive ==
  ASSUME IInv, PromptOK, StageOK, [Next]_vars
  PROVE  StageOK'
  <1> SUFFICES ASSUME lates' = 0, NEW w \in Workers, pc'[w] \in Busy,
                      status'[job'[w]].by = handle'[w]
               PROVE  Rank(status'[job'[w]].st) <= Stage(pc'[w])
    BY DEF StageOK
  <1>1. lates = 0
    BY LatesGrow
  <1>2. ~ \E j \in Jobs : ReceiveMessage(w, j)
    <2> SUFFICES ASSUME NEW j \in Jobs, ReceiveMessage(w, j) PROVE FALSE
      OBVIOUS
    <2>1. job'[w] = j /\ handle'[w] = receives[j] + 1 /\ status' = status
      BY DEF ReceiveMessage, HandOut, IInv, TypeOK
    <2> QED BY <2>1 DEF IInv, HistoryOK, TypeOK
  <1>3. Keeps(w)
    BY <1>2, KeepsOrTakes
  <1>4. Stage(pc[w]) <= Stage(pc'[w]) /\ Stage(pc[w]) \in Nat /\ Stage(pc'[w]) \in Nat
    BY <1>3, StageGrows, StageValues DEF Keeps, Busy, Local, Reports, Intermediate
  <1>5. Rank(status'[job[w]].st) <= Stage(pc[w])
    <2>1. CASE status'[job[w]] = status[job[w]]
      BY <1>1, <1>3, <2>1 DEF StageOK, Keeps
    <2>2. ASSUME NEW v \in Workers, ByWorker(v, job[w])
          PROVE  Rank(status'[job[w]].st) <= Stage(pc[w])
      <3>1. v = w
        BY <1>3, <2>2 DEF ByWorker, Keeps, Busy, IInv, OneOwner
      <3>2. pc[w] \in Reports => Rank(pc[w]) <= Stage(pc[w])
        BY StageValues, RankValues DEF Reports, Intermediate
      <3> QED BY <2>2, <3>1, <3>2 DEF ByWorker
    <2> QED BY <1>3, <2>1, <2>2, PromptBackend DEF Keeps
  <1>6. Rank(status'[job[w]].st) \in Nat
    <2>1. status'[job[w]].st \in Reports \cup {"QUEUED"}
      BY <1>3, TypeInductive DEF IInv, TypeOK, Keeps
    <2> QED BY <2>1, RankValues DEF Reports, Intermediate
  <1> QED BY <1>3, <1>4, <1>5, <1>6 DEF Keeps

(* Between its accepted SUCCESS and the deletion a Job's status stays. *)
LEMMA AckInductive ==
  ASSUME IInv, PromptOK, AckOK, [Next]_vars
  PROVE  AckOK'
  <1> SUFFICES ASSUME lapses' = 0, lates' = 0, NEW w \in Workers, pc'[w] = "delete"
               PROVE  status'[job'[w]].st = "SUCCESS"
    BY DEF AckOK
  <1>1. lapses = 0 /\ lates = 0
    BY CountsGrow, LatesGrow
  <1>2. Keeps(w)
    BY KeepsOrTakes DEF ReceiveMessage, Goto, IInv, TypeOK, Busy
  <1>3. CASE pc[w] = "delete"
    <2>1. status[job[w]].st = "SUCCESS"
      BY <1>1, <1>3 DEF AckOK
    <2>2. ASSUME NEW v \in Workers, ByWorker(v, job[w])
          PROVE  FALSE
      <3>1. pc[v] \in Busy /\ pc[v] # "delete"
        BY <2>2 DEF ByWorker, Busy, Reports, Intermediate
      <3> QED BY <1>1, <1>2, <1>3, <2>2, <3>1, OneWorker DEF ByWorker, Keeps
    <2> QED BY <1>2, <2>1, <2>2, PromptBackend DEF Keeps
  <1>4. CASE pc[w] # "delete"
    BY <1>2, <1>4 DEF Keeps, Forward, Local, Intermediate, Now, IInv, TypeOK
  <1> QED BY <1>3, <1>4

(* A message is deleted by the one Worker of its Job, and never handed out   *)
(* again.                                                                    *)
LEMMA DeletedInductive ==
  ASSUME IInv, DeletedOK, [Next]_vars
  PROVE  DeletedOK'
  <1> SUFFICES ASSUME lapses' = 0, NEW w \in Workers, pc'[w] \in Busy,
                      queue'[job'[w]] = "deleted"
               PROVE  pc'[w] \in {"delete", "finally"}
    BY DEF DeletedOK
  <1>1. lapses = 0
    BY CountsGrow
  <1>2. ~ \E j \in Jobs : ReceiveMessage(w, j)
    BY DEF ReceiveMessage, HandOut, IInv, TypeOK
  <1>3. Keeps(w)
    BY <1>2, KeepsOrTakes
  <1>4. pc[w] \in {"delete", "finally"}
    <2>1. CASE queue[job[w]] = "deleted"
      BY <1>1, <1>3, <2>1 DEF DeletedOK, Keeps
    <2>2. CASE queue[job[w]] # "deleted"
      <3>1. PICK v \in Workers : pc[v] = "delete" /\ job[v] = job[w]
        BY <1>3, <2>2, QueueEffect
        DEF Keeps, HandOut, ExpireLease, Redrive, IInv, TypeOK
      <3>2. v = w
        BY <1>1, <1>3, <3>1, OneWorker DEF Keeps, Busy
      <3> QED BY <3>1, <3>2
    <2> QED BY <2>1, <2>2
  <1> QED BY <1>2, <1>4, LateStage DEF IInv

(* What a deleted Job says stays as it is. *)
LEMMA AckedStaysInductive ==
  ASSUME IInv, PromptOK, AckOK, DeletedOK, AckedJobStaysSuccess, [Next]_vars
  PROVE  AckedJobStaysSuccess'
  <1> SUFFICES ASSUME lapses' = 0, lates' = 0, NEW j \in Jobs, queue'[j] = "deleted"
               PROVE  status'[j].st = "SUCCESS"
    BY DEF AckedJobStaysSuccess
  <1>1. lapses = 0 /\ lates = 0
    BY CountsGrow, LatesGrow
  <1>2. CASE queue[j] = "deleted"
    <2>1. status[j].st = "SUCCESS"
      BY <1>1, <1>2 DEF AckedJobStaysSuccess
    <2>2. ASSUME NEW v \in Workers, ByWorker(v, j)
          PROVE  FALSE
      BY <1>1, <1>2, <2>2 DEF DeletedOK, ByWorker, Busy, Reports, Intermediate
    <2> QED BY <2>1, <2>2, PromptBackend
  <1>3. CASE queue[j] # "deleted"
    <2>1. PICK w \in Workers : pc[w] = "delete" /\ job[w] = j
      BY <1>3, QueueEffect DEF HandOut, ExpireLease, Redrive, IInv, TypeOK
    <2>2. status[j].st = "SUCCESS"
      BY <1>1, <2>1 DEF AckOK
    <2>3. ASSUME NEW v \in Workers, ByWorker(v, j)
          PROVE  FALSE
      <3>1. pc[v] \in Busy /\ pc[w] \in Busy /\ pc[v] # "delete" /\ job[v] = j
        BY <2>1, <2>3 DEF ByWorker, Busy, Reports, Intermediate
      <3> QED BY <1>1, <2>1, <3>1, OneWorker
    <2> QED BY <2>2, <2>3, PromptBackend
  <1> QED BY <1>2, <1>3

(* A later report on a Job with an accepted SUCCESS is of a later delivery. *)
LEMMA SuccessStandsInductive ==
  ASSUME IInv, PromptOK, SuccessStandsUntilRedelivery, [Next]_vars
  PROVE  SuccessStandsUntilRedelivery'
  <1> SUFFICES ASSUME lapses' = 0, lates' = 0, NEW j \in Jobs, NEW d \in accepted'[j]
               PROVE  status'[j] = [by |-> d, st |-> "SUCCESS"] \/ status'[j].by > d
    BY DEF SuccessStandsUntilRedelivery
  <1>1. lapses = 0 /\ lates = 0
    BY CountsGrow, LatesGrow
  <1>2. CASE d \in accepted[j]
    <2>1. status[j] = [by |-> d, st |-> "SUCCESS"] \/ status[j].by > d
      BY <1>1, <1>2 DEF SuccessStandsUntilRedelivery
    <2>2. ASSUME NEW w \in Workers, ByWorker(w, j)
          PROVE  status'[j].by > d
      <3>1. pc[w] \in Busy /\ pc[w] \in Reports /\ job[w] = j /\ status'[j].by = handle[w]
        BY <2>2 DEF ByWorker, Busy
      <3>2. handle[w] = receives[j] /\ receives[j] \in Nat
        BY <1>1, <3>1 DEF IInv, LeaseOK, TypeOK
      <3>3. d \in 1..receives[j]
        BY <1>2 DEF IInv, HistoryOK
      <3>4. d # handle[w]
        BY <1>2, <3>1 DEF IInv, VerdictOK, Reports, Intermediate
      <3> QED BY <3>1, <3>2, <3>3, <3>4
    <2> QED BY <2>1, <2>2, PromptBackend
  <1>3. CASE d \notin accepted[j]
    <2>1. PICK w \in Workers : /\ pc[w] = "SUCCESS" /\ pc'[w] = "delete" /\ job[w] = j
                               /\ accepted'[j] = accepted[j] \cup {handle[w]}
      BY <1>3, AcceptedEffect DEF IInv
    <2>2. d = handle[w]
      BY <1>3, <2>1
    <2>3. Keeps(w)
      BY <2>1, KeepsOrTakes DEF ReceiveMessage, Goto, IInv, TypeOK, Busy
    <2>4. Now(w)
      BY <2>1, <2>3 DEF Keeps, Forward, Local, Intermediate
    <2> QED BY <2>1, <2>2, <2>4 DEF Now, IInv, TypeOK
  <1> QED BY <1>2, <1>3

(* The APK of a deleted Job is the one behind an accepted SUCCESS. *)
LEMMA AnnouncedInductive ==
  ASSUME IInv, OwnOK, DeletedOK, AckedArtifactWasAnnounced, [Next]_vars
  PROVE  AckedArtifactWasAnnounced'
  <1> SUFFICES ASSUME lapses' = 0, NEW j \in Jobs, queue'[j] = "deleted"
               PROVE  artifact'[j] \in accepted'[j]
    BY DEF AckedArtifactWasAnnounced
  <1>1. lapses = 0
    BY CountsGrow
  <1>2. accepted[j] \subseteq accepted'[j]
    BY AcceptedStays DEF IInv
  <1>3. CASE queue[j] = "deleted"
    <2>1. artifact[j] \in accepted[j]
      BY <1>1, <1>3 DEF AckedArtifactWasAnnounced
    <2>2. ASSUME NEW v \in Workers, pc[v] = "upload", job[v] = j
          PROVE  FALSE
      BY <1>1, <1>3, <2>2 DEF DeletedOK, Busy
    <2> QED BY <1>2, <2>1, <2>2, ArtifactEffect DEF IInv
  <1>4. CASE queue[j] # "deleted"
    <2>1. PICK w \in Workers : pc[w] = "delete" /\ job[w] = j
      BY <1>4, QueueEffect DEF HandOut, ExpireLease, Redrive, IInv, TypeOK
    <2>2. artifact[j] = handle[w] /\ handle[w] \in accepted[j]
      BY <1>1, <2>1 DEF OwnOK, IInv, GateOK
    <2>3. ASSUME NEW v \in Workers, pc[v] = "upload", job[v] = j
          PROVE  FALSE
      <3>1. pc[v] \in Busy /\ pc[w] \in Busy
        BY <2>1, <2>3 DEF Busy
      <3> QED BY <1>1, <2>1, <2>3, <3>1, OneWorker
    <2> QED BY <1>2, <2>2, <2>3, ArtifactEffect DEF IInv
  <1> QED BY <1>3, <1>4

-----------------------------------------------------------------------------
(* The properties *)

(* The invariant holds at the start and is kept by every step. *)
THEOREM OrderInvariance == Spec => []OrderInv
  <1>1. Init => OrderInv
    <2> SUFFICES ASSUME Init PROVE OrderInv
      OBVIOUS
    <2>1. IInv
      BY InitIInv
    <2>2. OwnOK /\ PromptOK /\ StageOK /\ AckOK /\ DeletedOK /\ AckedJobStaysSuccess
      BY DEF Init, OwnOK, PromptOK, StageOK, AckOK, DeletedOK, AckedJobStaysSuccess,
             Busy, Local, Reports, Intermediate
    <2>3. SuccessStandsUntilRedelivery /\ AckedArtifactWasAnnounced
      BY DEF Init, SuccessStandsUntilRedelivery, AckedArtifactWasAnnounced
    <2> QED BY <2>1, <2>2, <2>3 DEF OrderInv
  <1>2. OrderInv /\ [Next]_vars => OrderInv'
    BY NextIInv, OwnInductive, PromptInductive, StageInductive, AckInductive,
       DeletedInductive, AckedStaysInductive, SuccessStandsInductive,
       AnnouncedInductive DEF OrderInv
  <1> QED BY <1>1, <1>2, PTL DEF Spec

(* Without a lapse, SUCCESS announces the APK of its own delivery. *)
THEOREM OwnArtifact == Spec => []SuccessAnnouncesOwnArtifact
  <1>1. OrderInv => SuccessAnnouncesOwnArtifact
    BY DEF OrderInv, OwnOK, SuccessAnnouncesOwnArtifact
  <1> QED BY <1>1, OrderInvariance, PTL

(* Without a lapse or a late command, an acknowledged Job stays SUCCESS. *)
THEOREM AckedStays == Spec => []AckedJobStaysSuccess
BY OrderInvariance, PTL DEF OrderInv

(* Without a lapse or a late command, an accepted SUCCESS is replaced by     *)
(* nothing but the report of a later delivery.                               *)
THEOREM SuccessStands == Spec => []SuccessStandsUntilRedelivery
BY OrderInvariance, PTL DEF OrderInv

(* Without a lapse, the APK of an acknowledged Job is one whose SUCCESS the  *)
(* Backend accepted.                                                         *)
THEOREM AnnouncedArtifact == Spec => []AckedArtifactWasAnnounced
BY OrderInvariance, PTL DEF OrderInv

(* Without a lapse or a late command, the Backend sees reports in order. *)
THEOREM ReportsInOrder == Spec => BackendNeverRunsBackwards
  <1>1. ASSUME OrderInv, [Next]_vars, lapses = 0, lates' = 0, NEW j \in Jobs
        PROVE  InOrder(status[j], status'[j])
    <2>0. /\ status[j].by \in Nat /\ status[j].by <= receives[j]
          /\ Rank(status[j].st) \in Nat
      <3>1. status[j].st \in Reports \cup {"QUEUED"} /\ status[j].by \in 0..MaxReceives
        BY <1>1 DEF OrderInv, IInv, TypeOK
      <3>2. status[j].by <= receives[j]
        BY <1>1 DEF OrderInv, IInv, HistoryOK
      <3> QED BY <3>1, <3>2, RankValues DEF Reports, Intermediate
    <2>1. CASE status'[j] = status[j]
      BY <2>0, <2>1 DEF InOrder
    <2>2. ASSUME NEW w \in Workers, ByWorker(w, j)
          PROVE  InOrder(status[j], status'[j])
      <3>1. handle[w] = receives[j] /\ pc[w] \in Busy
        BY <1>1, <2>2 DEF ByWorker, OrderInv, IInv, LeaseOK, Busy
      <3>2. handle[w] \in Nat
        BY <1>1 DEF OrderInv, IInv, TypeOK
      <3>3. status[j].by = handle[w] => Rank(status[j].st) <= Rank(pc[w])
        <4>1. lates = 0
          BY <1>1, LatesGrow DEF OrderInv
        <4>2. status[j].by = handle[w] => Rank(status[j].st) <= Stage(pc[w])
          BY <1>1, <2>2, <3>1, <4>1 DEF OrderInv, StageOK, ByWorker
        <4>3. Stage(pc[w]) = Rank(pc[w])
          BY <2>2, StageValues, RankValues DEF ByWorker, Reports, Intermediate
        <4> QED BY <4>2, <4>3
      <3>4. status'[j].by = handle[w] /\ status'[j].st = pc[w]
        BY <2>2 DEF ByWorker
      <3> QED BY <2>0, <3>1, <3>2, <3>3, <3>4 DEF InOrder
    <2> QED BY <1>1, <2>1, <2>2, PromptBackend DEF OrderInv
  <1>2. OrderInv /\ [Next]_vars =>
          [lapses = 0 /\ lates' = 0 => \A j \in Jobs : InOrder(status[j], status'[j])]_vars
    BY <1>1
  <1> QED BY <1>2, OrderInvariance, PTL DEF Spec, BackendNeverRunsBackwards
==============================================================================
