---------------------- MODULE OrchestratorLedgerProofs ----------------------
(***************************************************************************)
(* Module Orchestrator implements modules JobLedger and DeliveryPhases,    *)
(* whatever crashes, lapses and late commands do: Init maps to their Init, *)
(* and every step to one of their steps or to a stutter.                   *)
(***************************************************************************)
EXTENDS OrchestratorProofs

USE DEF queueVars, backendVars, workerVars, vars, At

(* The refinement mapping. *)
Stored == {j \in Jobs : artifact[j] # 0}
Confirmed == {j \in Jobs : accepted[j] # {}}
Settled == [j \in Jobs |-> Outcome(queue[j])]

(* The ledger's entry for each place a message can be at. *)
LEMMA OutcomeValues ==
  /\ Outcome("visible") = "owed" /\ Outcome("inflight") = "owed"
  /\ Outcome("deleted") = "acknowledged" /\ Outcome("dlq") = "abandoned"
BY DEF Outcome

(* What the inductive invariant says of the types. *)
LEMMA Typed == IInv => TypeOK
BY DEF IInv

(* What has become of a Job is read off its message. *)
LEMMA SettledAt ==
  ASSUME NEW j \in Jobs
  PROVE  Settled[j] = Outcome(queue[j])
BY DEF Settled

(* Moving one message settles that one. *)
LEMMA SettledEffect ==
  ASSUME TypeOK, NEW j \in Jobs, NEW q, queue' = [queue EXCEPT ![j] = q]
  PROVE  Settled' = [Settled EXCEPT ![j] = Outcome(q)]
  <1>1. \A i \in Jobs : queue'[i] = IF i = j THEN q ELSE queue[i]
    BY DEF TypeOK
  <1>2. \A i \in Jobs : Settled'[i] = IF i = j THEN Outcome(q) ELSE Settled[i]
    BY <1>1 DEF Settled
  <1>3. DOMAIN Settled = Jobs /\ Settled' = [i \in Jobs |-> Settled'[i]]
    BY DEF Settled
  <1> QED BY <1>2, <1>3 DEF Settled

-----------------------------------------------------------------------------
(* The steps of the ledger *)

(* SQS hands a message out: Deliver. *)
LEMMA HandOutDelivers ==
  ASSUME IInv, NEW w \in Workers, NEW j \in Jobs, HandOut(w, j)
  PROVE  Ledger!Deliver(j)
  <1>0. queue[j] = "visible" /\ queue' = [queue EXCEPT ![j] = "inflight"]
    BY DEF HandOut
  <1>1. Settled' = [Settled EXCEPT ![j] = "owed"] /\ Settled[j] = "owed"
    BY <1>0, Typed, SettledAt, SettledEffect, OutcomeValues
  <1>2. Settled' = Settled
    BY <1>1 DEF Settled
  <1> QED BY <1>1, <1>2 DEF HandOut, Ledger!Deliver, Settled

(* An upload that writes its object: Store. *)
LEMMA UploadStores ==
  ASSUME IInv, NEW w \in Workers, pc[w] = "upload", WriteArtifact(w),
         UNCHANGED <<queue, receives, accepted>>
  PROVE  \E j \in Jobs : Ledger!Store(j)
  <1>1. job[w] \in Jobs \ Malformed /\ handle[w] \in 1..receives[job[w]]
    BY DEF IInv, BusyOK, Busy
  <1>2. receives[job[w]] > 0 /\ handle[w] # 0
    BY <1>1 DEF IInv, TypeOK
  <1>3. Stored' = Stored \cup {job[w]}
    BY <1>1, <1>2 DEF Stored, WriteArtifact, IInv, TypeOK
  <1> QED BY <1>1, <1>2, <1>3 DEF Ledger!Store, Stored

(* An accepted SUCCESS: Confirm. *)
LEMMA SuccessConfirms ==
  ASSUME IInv, NEW w \in Workers, pc[w] = "SUCCESS",
         accepted' = [accepted EXCEPT ![job[w]] = @ \cup {handle[w]}],
         UNCHANGED <<queue, receives, artifact>>
  PROVE  \E j \in Jobs : Ledger!Confirm(j)
  <1>1. job[w] \in Jobs /\ artifact[job[w]] # 0
    BY DEF IInv, BusyOK, GateOK, Busy, Reports
  <1>2. Confirmed' = Confirmed \cup {job[w]}
    BY <1>1 DEF Confirmed, IInv, TypeOK
  <1> QED BY <1>1, <1>2 DEF Ledger!Confirm, Confirmed

(* A message deleted: Acknowledge. *)
LEMMA DeletionAcknowledges ==
  ASSUME IInv, NEW w \in Workers, pc[w] = "delete", RemoveMessage(w),
         UNCHANGED <<receives, artifact, accepted>>
  PROVE  \E j \in Jobs : Ledger!Acknowledge(j)
  <1>1. job[w] \in Jobs /\ accepted[job[w]] # {}
    BY DEF IInv, BusyOK, GateOK, Busy
  <1>2. /\ Settled[job[w]] = "owed"
        /\ Settled' = [Settled EXCEPT ![job[w]] = "acknowledged"]
    <2>1. /\ queue[job[w]] \in {"visible", "inflight"}
          /\ queue' = [queue EXCEPT ![job[w]] = "deleted"]
      BY DEF RemoveMessage
    <2>2. Settled[job[w]] = "owed"
      BY <1>1, <2>1, SettledAt, OutcomeValues
    <2>3. Settled' = [Settled EXCEPT ![job[w]] = Outcome("deleted")]
      BY <1>1, <2>1, Typed, SettledEffect
    <2> QED BY <2>2, <2>3, OutcomeValues
  <1> QED BY <1>1, <1>2 DEF Ledger!Acknowledge, Ledger!Settle, Settled

(* The redrive to the DLQ: Abandon. *)
LEMMA RedriveAbandons ==
  ASSUME IInv, NEW j \in Jobs, Redrive(j)
  PROVE  Ledger!Abandon(j)
  <1>0. queue[j] = "visible" /\ queue' = [queue EXCEPT ![j] = "dlq"]
    BY DEF Redrive
  <1>1. Settled[j] = "owed" /\ Settled' = [Settled EXCEPT ![j] = "abandoned"]
    BY <1>0, Typed, SettledAt, SettledEffect, OutcomeValues
  <1> QED BY <1>1 DEF Redrive, Ledger!Abandon, Ledger!Settle, Settled

(* A lease that runs out is no business of the ledger. *)
LEMMA ExpiryStutters ==
  ASSUME IInv, NEW j \in Jobs, ExpireLease(j)
  PROVE  UNCHANGED Ledger!ledger
  <1>0. queue[j] = "inflight" /\ queue' = [queue EXCEPT ![j] = "visible"]
    BY DEF ExpireLease
  <1>1. Settled' = [Settled EXCEPT ![j] = "owed"] /\ Settled[j] = "owed"
    BY <1>0, Typed, SettledAt, SettledEffect, OutcomeValues
  <1>2. Settled' = Settled
    BY <1>1 DEF Settled
  <1> QED BY <1>2 DEF ExpireLease, Ledger!ledger, Settled

(* Nor is a step that leaves its variables alone. *)
LEMMA OthersStutter ==
  ASSUME UNCHANGED <<queue, receives, artifact, accepted>>
  PROVE  UNCHANGED Ledger!ledger
BY DEF Ledger!ledger

-----------------------------------------------------------------------------
(* The ledger starts empty. *)
LEMMA LedgerInit == Init => Ledger!Init
  <1> SUFFICES ASSUME Init PROVE Ledger!Init
    OBVIOUS
  <1>1. Stored = {} /\ Confirmed = {} /\ Settled = [j \in Jobs |-> "owed"]
    BY OutcomeValues DEF Init, Stored, Confirmed, Settled
  <1> QED BY <1>1 DEF Init, Ledger!Init, Stored, Confirmed, Settled

(* Every step of Orchestrator is a step of the ledger, or none. *)
LEMMA LedgerStep == IInv /\ [Next]_vars => [Ledger!Next]_(Ledger!ledger)
  <1> SUFFICES ASSUME IInv, [Next]_vars
               PROVE  (\E j \in Jobs : \/ Ledger!Deliver(j) \/ Ledger!Store(j)
                                       \/ Ledger!Confirm(j) \/ Ledger!Acknowledge(j)
                                       \/ Ledger!Abandon(j))
                      \/ UNCHANGED Ledger!ledger
    BY DEF Ledger!Next
  <1> DEFINE Entry == \E j \in Jobs :
               \/ Ledger!Deliver(j) \/ Ledger!Store(j) \/ Ledger!Confirm(j)
               \/ Ledger!Acknowledge(j) \/ Ledger!Abandon(j)
  <1>1. ASSUME NEW w \in Workers, pc[w] \in Busy
        PROVE  job[w] \in Jobs
    BY <1>1 DEF IInv, BusyOK
  <1>2. ASSUME NEW w \in Workers, NEW j \in Jobs,
               ReceiveMessage(w, j) \/ LoseMessage(w, j)
        PROVE  Entry
    BY <1>2, HandOutDelivers DEF ReceiveMessage, LoseMessage
  <1>3. ASSUME NEW w \in Workers, UploadArtifact(w)
        PROVE  Entry \/ UNCHANGED Ledger!ledger
    <2>1. pc[w] = "upload" /\ UNCHANGED <<queue, receives, accepted>>
      BY <1>3 DEF UploadArtifact
    <2>2. CASE WriteArtifact(w)
      <3>1. job[w] \in Jobs
        BY <1>1, <2>1 DEF Busy
      <3> QED BY <2>1, <2>2, <3>1, UploadStores
    <2>3. CASE UNCHANGED artifact
      BY <2>1, <2>3, OthersStutter
    <2> QED BY <1>3, <2>2, <2>3 DEF UploadArtifact
  <1>4. ASSUME NEW w \in Workers, DeleteMessage(w)
        PROVE  Entry \/ UNCHANGED Ledger!ledger
    <2>1. pc[w] = "delete" /\ UNCHANGED <<receives, artifact, accepted>>
      BY <1>4 DEF DeleteMessage
    <2>2. CASE RemoveMessage(w)
      BY <1>1, <2>1, <2>2, DeletionAcknowledges DEF Busy
    <2>3. CASE UNCHANGED queue
      BY <2>1, <2>3, OthersStutter
    <2> QED BY <1>4, <2>2, <2>3 DEF DeleteMessage
  <1>5. ASSUME NEW w \in Workers, Report(w)
        PROVE  Entry \/ UNCHANGED Ledger!ledger
    <2>1. UNCHANGED <<queue, receives, artifact>>
      BY <1>5, ReportEffect DEF IInv
    <2>2. PICK p \in Busy : Reported(w, p)
      BY <1>5, ReportEffect DEF IInv
    <2>3. CASE UNCHANGED accepted
      BY <2>1, <2>3, OthersStutter
    <2>4. CASE /\ pc[w] = "SUCCESS"
               /\ accepted' = [accepted EXCEPT ![job[w]] = @ \cup {handle[w]}]
      <3>1. job[w] \in Jobs
        BY <1>1, <2>4 DEF Busy, Reports
      <3> QED BY <2>1, <2>4, <3>1, SuccessConfirms
    <2> QED BY <2>2, <2>3, <2>4 DEF Reported
  <1>6. ASSUME NEW w \in Workers, Crash(w) \/ Kill(w)
        PROVE  Entry \/ UNCHANGED Ledger!ledger
    <2>1. InFlight(w) /\ UNCHANGED <<receives, accepted>>
      BY <1>6, DeathEffect DEF IInv
    <2>2. CASE pc[w] = "upload" /\ WriteArtifact(w) /\ UNCHANGED queue
      <3>1. job[w] \in Jobs /\ UNCHANGED <<queue, receives, accepted>>
        BY <1>1, <2>1, <2>2 DEF Busy
      <3> QED BY <2>2, <3>1, UploadStores
    <2>3. CASE pc[w] = "delete" /\ RemoveMessage(w) /\ UNCHANGED artifact
      <3>1. job[w] \in Jobs /\ UNCHANGED <<receives, artifact, accepted>>
        BY <1>1, <2>1, <2>3 DEF Busy
      <3> QED BY <2>3, <3>1, DeletionAcknowledges
    <2>4. CASE UNCHANGED <<queue, artifact>>
      BY <2>1, <2>4, OthersStutter
    <2> QED BY <2>1, <2>2, <2>3, <2>4 DEF InFlight
  <1>7. ASSUME NEW j \in Jobs, ExpireLease(j) \/ Redrive(j)
        PROVE  Entry \/ UNCHANGED Ledger!ledger
    BY <1>7, ExpiryStutters, RedriveAbandons
  <1>8. ASSUME \/ \E w \in Workers : Internal(w)
               \/ \E c \in late : DeliverLate(c)
               \/ UNCHANGED vars
        PROVE  UNCHANGED Ledger!ledger
    <2>1. UNCHANGED <<queue, receives, artifact, accepted>>
      BY <1>8, InternalEffect DEF DeliverLate
    <2> QED BY <2>1, OthersStutter
  <1> QED BY NextCases, <1>2, <1>3, <1>4, <1>5, <1>6, <1>7, <1>8

(* The Worker, the services and every failure between them keep the ledger. *)
THEOREM Refinement == Spec => KeepsLedger
BY LedgerInit, LedgerStep, Invariance, PTL DEF Spec, KeepsLedger, Ledger!Spec
-----------------------------------------------------------------------------
(* The phases *)

WorkerPhase == [w \in Workers |-> PhaseOf(pc[w])]

(* The phase of each position of a Worker. *)
LEMMA PhaseValues ==
  /\ PhaseOf("prepare") = "preparing"
  /\ PhaseOf("ANALYZING") = "ANALYZING" /\ PhaseOf("download") = "ANALYZING"
  /\ PhaseOf("GENERATING_CODE") = "GENERATING_CODE"
  /\ PhaseOf("generate") = "GENERATING_CODE"
  /\ PhaseOf("BUILDING") = "BUILDING" /\ PhaseOf("build") = "BUILDING"
  /\ PhaseOf("upload") = "finalizing" /\ PhaseOf("verify") = "finalizing"
  /\ PhaseOf("SUCCESS") = "finalizing" /\ PhaseOf("FAILED") = "failing"
  /\ PhaseOf("delete") = "idle" /\ PhaseOf("finally") = "idle"
  <1>1. PhaseOf("prepare") = "preparing" /\ PhaseOf("FAILED") = "failing"
    BY DEF PhaseOf
  <1>2. PhaseOf("ANALYZING") = "ANALYZING" /\ PhaseOf("download") = "ANALYZING"
    BY DEF PhaseOf
  <1>3. /\ PhaseOf("GENERATING_CODE") = "GENERATING_CODE"
        /\ PhaseOf("generate") = "GENERATING_CODE"
    BY DEF PhaseOf
  <1>4. PhaseOf("BUILDING") = "BUILDING" /\ PhaseOf("build") = "BUILDING"
    BY DEF PhaseOf
  <1>5. /\ PhaseOf("upload") = "finalizing" /\ PhaseOf("verify") = "finalizing"
        /\ PhaseOf("SUCCESS") = "finalizing"
    BY DEF PhaseOf
  <1>6. PhaseOf("delete") = "idle" /\ PhaseOf("finally") = "idle"
    BY DEF PhaseOf
  <1> QED BY <1>1, <1>2, <1>3, <1>4, <1>5, <1>6

LEMMA LoopPhases ==
  /\ PhaseOf("down") = "dead" /\ PhaseOf("stopped") = "dead"
  /\ PhaseOf("top") = "idle" /\ PhaseOf("cleanup") = "idle"
  /\ PhaseOf("receive") = "idle"
BY DEF PhaseOf

(* Where the phases allow a Worker to go from position a. *)
Onward(a, b) ==
  \/ PhaseOf(b) = PhaseOf(a)
  \/ PhaseOf(b) = Phased!NextOf[PhaseOf(a)]
  \/ PhaseOf(a) \notin {"dead", "idle", "failing"} /\ PhaseOf(b) = "failing"
  \/ PhaseOf(b) = "dead"

(* A step of one Worker that the phases allow is a step of DeliveryPhases. *)
LEMMA OnwardIsAStep ==
  ASSUME TypeOK, NEW w \in Workers, NEW p, pc' = [pc EXCEPT ![w] = p],
         Onward(pc[w], p)
  PROVE  [Phased!Next]_WorkerPhase
  <1>0. WorkerPhase[w] = PhaseOf(pc[w])
    BY DEF WorkerPhase
  <1>1. WorkerPhase' = [WorkerPhase EXCEPT ![w] = PhaseOf(p)]
    <2>1. \A v \in Workers : pc'[v] = IF v = w THEN p ELSE pc[v]
      BY DEF TypeOK
    <2>2. \A v \in Workers :
            WorkerPhase'[v] = IF v = w THEN PhaseOf(p) ELSE WorkerPhase[v]
      BY <2>1 DEF WorkerPhase
    <2>3. DOMAIN WorkerPhase = Workers /\ WorkerPhase' = [v \in Workers |-> WorkerPhase'[v]]
      BY DEF WorkerPhase
    <2> QED BY <2>2, <2>3 DEF WorkerPhase
  <1>2. Phased!Enter(w, PhaseOf(p))
    BY <1>1 DEF Phased!Enter, WorkerPhase
  <1>3. CASE PhaseOf(p) = PhaseOf(pc[w])
    BY <1>1, <1>3 DEF WorkerPhase
  <1>4. CASE PhaseOf(p) = Phased!NextOf[PhaseOf(pc[w])]
    BY <1>0, <1>2, <1>4 DEF Phased!Proceed, Phased!Next, WorkerPhase
  <1>5. CASE /\ PhaseOf(pc[w]) \notin {"dead", "idle", "failing"}
             /\ PhaseOf(p) = "failing"
    BY <1>0, <1>2, <1>5 DEF Phased!Fail, Phased!Next, WorkerPhase
  <1>6. CASE PhaseOf(p) = "dead" /\ PhaseOf(pc[w]) # "dead"
    BY <1>0, <1>2, <1>6 DEF Phased!Die, Phased!Next
  <1> QED BY <1>3, <1>4, <1>5, <1>6 DEF Onward

(* A report leaves its Worker in the phase it announces, ends the delivery   *)
(* or turns to the report of the failure.                                    *)
LEMMA ReportPhases ==
  ASSUME TypeOK, NEW w \in Workers, Report(w)
  PROVE  \E p \in Busy : pc' = [pc EXCEPT ![w] = p] /\ Onward(pc[w], p)
  <1>1. pc[w] \in Reports
    BY ReportEffect
  <1>2. \/ pc' = pc
        \/ \E p \in {NextPhase(pc[w]), OnStatusApiFailure(pc[w]),
                     OnOtherException(pc[w])} : pc' = [pc EXCEPT ![w] = p]
    BY DEF Report, ReportAccepted, ReportRetried, ReportFailed, ReportBroken, Goto
  <1>3. CASE pc' = pc
    <2>1. pc' = [pc EXCEPT ![w] = pc[w]] /\ pc[w] \in Busy
      BY <1>1, <1>3 DEF TypeOK, Busy
    <2> QED BY <2>1 DEF Onward
  <1>4. ASSUME NEW p \in {NextPhase(pc[w]), OnStatusApiFailure(pc[w]),
                          OnOtherException(pc[w])}
        PROVE  p \in Busy /\ Onward(pc[w], p)
    <2>1. /\ pc[w] = "ANALYZING" => p \in {"download", "FAILED"}
          /\ pc[w] = "GENERATING_CODE" => p \in {"generate", "FAILED"}
          /\ pc[w] = "BUILDING" => p \in {"build", "FAILED"}
          /\ pc[w] = "SUCCESS" => p \in {"delete", "FAILED"}
          /\ pc[w] = "FAILED" => p = "finally"
      BY DEF NextPhase, OnStatusApiFailure, OnOtherException
    <2>2. p \in Busy
      BY <1>1, <2>1 DEF Busy, Local, Reports, Intermediate
    <2>3. Onward(pc[w], p)
      BY <1>1, <2>1, PhaseValues DEF Onward, Phased!NextOf, Reports, Intermediate
    <2> QED BY <2>2, <2>3
  <1> QED BY <1>2, <1>3, <1>4

(* Every step keeps every Worker to its phases. *)
LEMMA PhaseStep == IInv /\ [Next]_vars => [Phased!Next]_WorkerPhase
  <1> SUFFICES ASSUME IInv, [Next]_vars
               PROVE  [Phased!Next]_WorkerPhase
    OBVIOUS
  <1>0. TypeOK
    BY Typed
  <1>1. CASE pc' = pc
    BY <1>1 DEF WorkerPhase
  <1>2. ASSUME NEW w \in Workers,
               \/ Start(w) \/ LoopTop(w) \/ CleanupOldWorkdirs(w) \/ ReceiveNothing(w)
               \/ StopExtender(w) \/ \E j \in Jobs : LoseMessage(w, j)
        PROVE  [Phased!Next]_WorkerPhase
    <2>1. PICK p \in {"stopped", "top", "cleanup", "receive"} :
            /\ pc' = [pc EXCEPT ![w] = p]
            /\ \/ pc[w] = "down" /\ p = "top"
               \/ pc[w] \in {"top", "cleanup", "receive", "finally"}
      BY <1>2 DEF Start, LoopTop, CleanupOldWorkdirs, ReceiveNothing, StopExtender,
                  LoseMessage, HandOut, Goto
    <2>2. Onward(pc[w], p)
      BY <2>1, LoopPhases, PhaseValues DEF Onward, Phased!NextOf
    <2> QED BY <1>0, <2>1, <2>2, OnwardIsAStep
  <1>3. ASSUME NEW w \in Workers, Crash(w) \/ Kill(w)
        PROVE  [Phased!Next]_WorkerPhase
    <2>1. \E p \in {"down", "stopped"} : pc' = [pc EXCEPT ![w] = p]
      BY <1>0, <1>3, DeathEffect
    <2> QED BY <1>0, <2>1, LoopPhases, OnwardIsAStep DEF Onward
  <1>4. ASSUME NEW w \in Workers, NEW j \in Jobs, ReceiveMessage(w, j)
        PROVE  [Phased!Next]_WorkerPhase
    <2>1. pc[w] = "receive" /\ pc' = [pc EXCEPT ![w] = "prepare"]
      BY <1>4 DEF ReceiveMessage, HandOut, Goto
    <2>2. PhaseOf(pc[w]) = "idle"
      BY <2>1, LoopPhases
    <2>3. Onward(pc[w], "prepare")
      BY <2>2, PhaseValues DEF Onward, Phased!NextOf
    <2> QED BY <1>0, <2>1, <2>3, OnwardIsAStep
  <1>5. ASSUME NEW w \in Workers,
               \/ PrepareWorkdir(w) \/ DownloadInputs(w) \/ GenerateCode(w) \/ BuildApk(w)
        PROVE  [Phased!Next]_WorkerPhase
    <2>1. ASSUME NEW here, NEW next, LocalStep(w, here, next),
                 <<here, next>> \in
                   {<<"prepare", "ANALYZING">>, <<"download", "GENERATING_CODE">>,
                    <<"generate", "BUILDING">>, <<"build", "upload">>}
          PROVE  [Phased!Next]_WorkerPhase
      <3>1. PICK p \in {next, "FAILED"} : pc' = [pc EXCEPT ![w] = p]
        BY <2>1 DEF LocalStep, Goto
      <3>2. pc[w] = here
        BY <2>1 DEF LocalStep
      <3>3. Onward(here, next) /\ Onward(here, "FAILED")
        BY <2>1, PhaseValues DEF Onward, Phased!NextOf
      <3> QED BY <1>0, <3>1, <3>2, <3>3, OnwardIsAStep
    <2> QED BY <1>5, <2>1 DEF PrepareWorkdir, DownloadInputs, GenerateCode, BuildApk
  <1>6. ASSUME NEW w \in Workers,
               UploadArtifact(w) \/ VerifyArtifact(w) \/ DeleteMessage(w)
        PROVE  [Phased!Next]_WorkerPhase
    <2>1. PICK p \in {"verify", "SUCCESS", "FAILED", "finally"} :
            /\ pc' = [pc EXCEPT ![w] = p]
            /\ \/ pc[w] \in {"upload", "verify"} /\ p # "finally"
               \/ pc[w] = "delete" /\ p = "finally"
      BY <1>6 DEF UploadArtifact, VerifyArtifact, DeleteMessage, Goto
    <2>2. Onward(pc[w], p)
      BY <2>1, PhaseValues DEF Onward, Phased!NextOf
    <2> QED BY <1>0, <2>1, <2>2, OnwardIsAStep
  <1>7. ASSUME NEW w \in Workers, Report(w)
        PROVE  [Phased!Next]_WorkerPhase
    BY <1>0, <1>7, ReportPhases, OnwardIsAStep
  <1>8. ASSUME \/ \E w \in Workers : Signal(w)
               \/ \E j \in Jobs : ExpireLease(j) \/ Redrive(j)
               \/ \E c \in late : DeliverLate(c)
               \/ UNCHANGED vars
        PROVE  pc' = pc
    BY <1>8 DEF Signal, ExpireLease, Redrive, DeliverLate
  <1> QED BY <1>1, <1>2, <1>3, <1>4, <1>5, <1>6, <1>7, <1>8 DEF Next, Step, Environment

(* Every Worker takes every delivery through the phases in their order, and  *)
(* to exactly one verdict unless its process dies in it.                     *)
THEOREM PhasesInOrder == Spec => KeepsPhases
  <1>1. Init => Phased!Init
    <2> SUFFICES ASSUME Init PROVE Phased!Init
      OBVIOUS
    <2>1. \A w \in Workers : PhaseOf(pc[w]) = "dead"
      BY LoopPhases DEF Init
    <2> QED BY <2>1 DEF Phased!Init
  <1> QED BY <1>1, PhaseStep, Invariance, PTL
          DEF Spec, KeepsPhases, Phased!Spec, WorkerPhase
==============================================================================
