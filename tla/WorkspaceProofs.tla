--------------------------- MODULE WorkspaceProofs ---------------------------
(***************************************************************************)
(* What module Workspace promises, for any Jobs and any bounds: types, the *)
(* cleanliness of what every phase works on, and that it implements        *)
(* module CleanDelivery.                                                   *)
(***************************************************************************)
EXTENDS Workspace, TLAPS

USE DEF disk, sweep, hist, vars

-----------------------------------------------------------------------------
(* Types *)

DiskOK ==
  /\ dirs \subseteq Jobs /\ tree \in [Jobs -> [Parts -> SUBSET Writings]]
  /\ \A j \in Jobs \ dirs : tree[j] = Empty
  /\ old \subseteq dirs

(* A phase works in a directory that exists. *)
HasDirectory == (pc \in Phases) => job \in dirs

LocalsOK ==
  /\ pc \in Loop \cup Delivering
  /\ listed \subseteq Jobs /\ due \subseteq Jobs /\ missed \subseteq Jobs
  /\ job \in Jobs
  /\ delivery \in 0..MaxDeliveries
  /\ (pc \in Delivering) => delivery \in Deliveries
  /\ attempt \in 1..HermesMaxAttempts
  /\ document \in Uploads \cup {"none"}
  /\ refined \in BOOLEAN
  /\ exc \in ExceptionTypes \cup {"none"}
  /\ reads \subseteq Writings /\ product \subseteq Writings
  /\ verdict \in Verdicts
  /\ crashes \in 0..MaxCrashes

Typed == DiskOK /\ LocalsOK /\ HasDirectory

(* A delivery's own writings. *)
LEMMA OwnWriting ==
  ASSUME NEW whole
  PROVE  /\ Own(whole).by = delivery /\ Own(whole).whole = whole
         /\ (delivery \in Deliveries /\ whole \in BOOLEAN) => Own(whole) \in Writings
BY DEF Own, Writings

(* What pc can be. *)
LEMMA Places ==
  /\ Phases \subseteq Delivering /\ "prepare" \in Delivering /\ "FAILED" \in Delivering
  /\ \A p \in Loop : p \notin Delivering
  /\ "prepare" \notin Phases /\ "FAILED" \notin Phases
BY DEF Phases, Delivering, Loop

(* Storing in a part of the Job's directory, here and elsewhere. *)
LEMMA StoreEffect ==
  ASSUME DiskOK, job \in Jobs, NEW p \in Parts, NEW ws, Store(p, ws)
  PROVE  /\ tree'[job][p] = ws
         /\ \A q \in Parts \ {p} : tree'[job][q] = tree[job][q]
         /\ \A j \in Jobs \ {job} : tree'[j] = tree[j]
         /\ dirs' = dirs /\ old' = old \ {job}
BY DEF DiskOK, Store

LEMMA AddEffect ==
  ASSUME DiskOK, job \in Jobs, NEW p \in Parts, NEW whole, Add(p, whole)
  PROVE  /\ tree'[job][p] = tree[job][p] \cup {Own(whole)}
         /\ \A q \in Parts \ {p} : tree'[job][q] = tree[job][q]
BY StoreEffect DEF Add

LEMMA StoreTyped ==
  ASSUME DiskOK, job \in dirs, NEW p \in Parts, NEW ws \in SUBSET Writings, Store(p, ws)
  PROVE  DiskOK'
BY DEF DiskOK, Store

LEMMA AddTyped ==
  ASSUME Typed, pc \in Delivering, job \in dirs, NEW p \in Parts, NEW whole \in BOOLEAN,
         Add(p, whole)
  PROVE  DiskOK'
  <1>1. Own(whole) \in Writings
    BY OwnWriting DEF Typed, LocalsOK
  <1>2. tree[job][p] \subseteq Writings
    BY DEF Typed, DiskOK
  <1> QED BY <1>1, <1>2, StoreTyped DEF Add, Typed

(* Removals only take away, and only from the one directory. *)
LEMMA RemovePartEffect ==
  ASSUME DiskOK, NEW j \in Jobs, RemovePart(j)
  PROVE  /\ DiskOK' /\ dirs' = dirs
         /\ \A i \in Jobs \ {j} : tree'[i] = tree[i]
         /\ \A i \in Jobs, p \in Parts : tree'[i][p] \subseteq tree[i][p]
  <1>1. PICK gone \in SUBSET Held(j) :
          tree' = [tree EXCEPT ![j] = [p \in Parts |->
                     IF p \in gone THEN {} ELSE @[p]]]
    BY DEF RemovePart
  <1>2. /\ \A i \in Jobs \ {j} : tree'[i] = tree[i]
        /\ \A i \in Jobs, p \in Parts : tree'[i][p] \subseteq tree[i][p]
        /\ tree' \in [Jobs -> [Parts -> SUBSET Writings]]
    BY <1>1 DEF DiskOK
  <1>3. j \in dirs /\ dirs' = dirs /\ old' \subseteq old
    BY DEF RemovePart
  <1> QED BY <1>2, <1>3 DEF DiskOK

LEMMA RemoveAllEffect ==
  ASSUME DiskOK, NEW j \in Jobs, RemoveAll(j)
  PROVE  /\ DiskOK' /\ dirs' = dirs \ {j}
         /\ \A i \in Jobs \ {j} : tree'[i] = tree[i]
         /\ \A i \in Jobs, p \in Parts : tree'[i][p] \subseteq tree[i][p]
  <1>1. Empty \in [Parts -> SUBSET Writings] /\ \A p \in Parts : Empty[p] = {}
    BY DEF Empty
  <1>2. /\ \A i \in Jobs \ {j} : tree'[i] = tree[i]
        /\ tree'[j] = Empty
        /\ tree' \in [Jobs -> [Parts -> SUBSET Writings]]
    BY <1>1 DEF DiskOK, RemoveAll
  <1> QED BY <1>1, <1>2 DEF DiskOK, RemoveAll

-----------------------------------------------------------------------------
(* Exceptions and their codes *)

LEMMA Exceptions ==
  /\ {"OSError", "RequestException", "RequirementsReadError", "AIGenerationError",
      "UnicodeDecodeError", "ArtifactUploadError", "StatusApiFailure"}
       \subseteq ExceptionTypes
  /\ BuildExceptions \subseteq ExceptionTypes
  /\ "none" \notin ExceptionTypes
  <1>1. WorkerErrors = {"RequirementsReadError", "InvalidRequirementsError",
                        "AIGenerationError", "BuildError", "ArtifactUploadError",
                        "StatusApiFailure"}
    BY DEF WorkerErrors, CodeOf
  <1> QED BY <1>1 DEF ExceptionTypes, ForeignErrors, BuildExceptions

LEMMA DocumentRaises ==
  \A d \in Uploads :
    /\ DocumentErrors[d] \in ExceptionTypes \cup {"none"}
    /\ DocumentErrors[d] = "none" => d = "fine"
    /\ DocumentErrors[d] = "InvalidRequirementsError" => d \in Unacceptable
    /\ DocumentErrors[d] \notin {"AIGenerationError", "BuildError", "ArtifactUploadError"}
    /\ d # "none"
  <1>1. WorkerErrors = {"RequirementsReadError", "InvalidRequirementsError",
                        "AIGenerationError", "BuildError", "ArtifactUploadError",
                        "StatusApiFailure"}
    BY DEF WorkerErrors, CodeOf
  <1>2. Uploads \subseteq {"fine", "large", "notUtf8", "notJson", "tooDeep",
                         "longNumber", "notObject"}
    BY BoundsAssumption DEF DocumentErrors
  <1> QED BY <1>1, <1>2 DEF DocumentErrors, ExceptionTypes, ForeignErrors, Unacceptable

(* Which exceptions have a code that puts the blame on somebody. *)
LEMMA Codes ==
  ASSUME NEW e \in ExceptionTypes \cup {"none"}
  PROVE  /\ ClassifyError(e) \in ErrorCodes
         /\ ClassifyError(e) = "INVALID_REQUIREMENTS" => e = "InvalidRequirementsError"
         /\ ClassifyError(e) \in {"AI_GENERATION_FAILED", "BUILD_FAILED",
                                 "ARTIFACT_UPLOAD_FAILED"} =>
              e \in {"AIGenerationError", "BuildError", "ArtifactUploadError"}
  <1>1. WorkerErrors = {"RequirementsReadError", "InvalidRequirementsError",
                        "AIGenerationError", "BuildError", "ArtifactUploadError",
                        "StatusApiFailure"}
    BY DEF WorkerErrors, CodeOf
  <1>2. CASE e \in WorkerErrors
    BY <1>1, <1>2 DEF ClassifyError, CodeOf, ErrorCodes
  <1>3. CASE e \notin WorkerErrors
    BY <1>3 DEF ClassifyError, ErrorCodes
  <1> QED BY <1>2, <1>3

-----------------------------------------------------------------------------
(* Every step keeps the types *)

LEMMA TypedInit == Init => Typed
  <1> SUFFICES ASSUME Init PROVE Typed
    OBVIOUS
  <1>1. DiskOK
    BY DEF Init, DiskOK, Empty
  <1>2. LocalsOK
    <2>1. 0 \in 0..MaxDeliveries /\ 1 \in 1..HermesMaxAttempts /\ 0 \in 0..MaxCrashes
      BY BoundsAssumption
    <2>2. "down" \in Loop /\ "none" \in Verdicts
      BY DEF Loop, Verdicts
    <2> QED BY <2>1, <2>2, Places DEF Init, LocalsOK
  <1>3. HasDirectory
    BY DEF Init, HasDirectory, Phases
  <1> QED BY <1>1, <1>2, <1>3 DEF Typed

LEMMA TypedLoops ==
  ASSUME Typed, Loops
  PROVE  Typed'
  <1> USE DEF Typed
  <1>1. CASE Start \/ Exit \/ SweepRaises \/ SweepEnds \/ ReceiveNothing
    <2>1. ASSUME NEW j \in listed \cap due, RemovePart(j) \/ RemoveAll(j)
          PROVE  DiskOK'
      <3>1. j \in Jobs
        BY DEF LocalsOK
      <3> QED BY <2>1, <3>1, RemoveAllEffect, RemovePartEffect DEF DiskOK
    <2>2. UNCHANGED disk \/ \E j \in listed \cap due : RemovePart(j) \/ RemoveAll(j)
      BY <1>1 DEF Start, Exit, SweepRaises, SweepEnds, ReceiveNothing
    <2>3. DiskOK'
      BY <2>1, <2>2 DEF DiskOK
    <2>4. pc' \in Loop /\ LocalsOK'
      BY <1>1, Places DEF LocalsOK, Start, Exit, SweepRaises, SweepEnds, ReceiveNothing, Loop
    <2> QED BY <2>3, <2>4, Places DEF HasDirectory
  <1>2. CASE ListChildren
    <2>1. DiskOK'
      BY <1>2 DEF DiskOK, ListChildren
    <2>2. pc' \in Loop /\ LocalsOK'
      BY <1>2, Places DEF LocalsOK, DiskOK, ListChildren, Loop
    <2> QED BY <2>1, <2>2, Places DEF HasDirectory
  <1>3. ASSUME NEW j \in Jobs, SweepChild(j)
        PROVE  Typed'
    <2>1. DiskOK'
      BY <1>3, RemoveAllEffect, RemovePartEffect DEF DiskOK, SweepChild
    <2>2. pc' \in Loop /\ LocalsOK'
      BY <1>3, Places DEF LocalsOK, SweepChild, Loop
    <2> QED BY <2>1, <2>2, Places DEF HasDirectory
  <1>4. ASSUME NEW j \in Jobs, ReceiveMessage(j)
        PROVE  Typed'
    <2>1. DiskOK'
      BY <1>4 DEF DiskOK, ReceiveMessage
    <2>2. delivery' \in Deliveries
      BY <1>4, BoundsAssumption DEF ReceiveMessage, LocalsOK, Deliveries
    <2>3. LocalsOK'
      BY <1>4, <2>2, Places, BoundsAssumption DEF LocalsOK, ReceiveMessage, Verdicts, Deliveries
    <2> QED BY <1>4, <2>1, <2>3, Places DEF HasDirectory, ReceiveMessage
  <1>5. ASSUME NEW j \in Jobs, Age(j)
        PROVE  Typed'
    BY <1>5 DEF Age, DiskOK, LocalsOK, HasDirectory
  <1>6. CASE Crash
    <2>1. job \in Jobs /\ (pc \in DOMAIN Torn => pc \in Phases)
      BY DEF LocalsOK, Torn, Phases
    <2>2. \A p : (pc \in DOMAIN Torn /\ p \in Torn[pc]) => p \in Parts
      BY DEF Torn, Parts
    <2>3. ASSUME pc \in DOMAIN Torn, \E p \in Torn[pc] : Add(p, FALSE)
          PROVE  DiskOK'
      <3>1. PICK p \in Parts : Add(p, FALSE)
        BY <2>2, <2>3
      <3>2. pc \in Delivering /\ job \in dirs
        BY <2>1, <2>3, Places DEF HasDirectory
      <3> QED BY <3>1, <3>2, AddTyped
    <2>4. DiskOK'
      <3>1. CASE UNCHANGED disk
        BY <3>1 DEF DiskOK
      <3>2. CASE \E j \in listed \cap due : RemovePart(j)
        BY <3>2, RemovePartEffect DEF LocalsOK
      <3>3. CASE RemovePart(job)
        BY <3>3, <2>1, RemovePartEffect
      <3>4. \/ UNCHANGED <<disk, product>>
            \/ \E j \in listed \cap due : RemovePart(j)
            \/ RemovePart(job)
            \/ pc \in DOMAIN Torn /\ \E p \in Torn[pc] : Add(p, FALSE)
            \/ UNCHANGED disk
        BY <1>6 DEF Crash
      <3> QED BY <2>3, <3>1, <3>2, <3>3, <3>4
    <2>5. product' \subseteq Writings
      <3>1. product' = product \/ product' = tree[job]["apk"]
        BY <1>6 DEF Crash
      <3>2. tree[job]["apk"] \subseteq Writings
        BY <2>1 DEF DiskOK, Parts
      <3> QED BY <3>1, <3>2 DEF LocalsOK
    <2>6. verdict' \in Verdicts
      BY <1>6 DEF Crash, LocalsOK, Verdicts
    <2>7. pc' = "down" /\ LocalsOK'
      <3>1. crashes' \in 0..MaxCrashes /\ attempt' \in 1..HermesMaxAttempts
        BY <1>6, BoundsAssumption DEF Crash, Return, LocalsOK
      <3>2. pc' = "down" /\ pc' \in Loop
        BY <1>6 DEF Crash, Loop
      <3>3. listed' = {} /\ due' = {} /\ missed' = {} /\ reads' = {} /\ refined' = FALSE
            /\ exc' = "none" /\ UNCHANGED <<job, delivery, document>>
        BY <1>6 DEF Crash, Return
      <3> QED BY <2>5, <2>6, <3>1, <3>2, <3>3, Places DEF LocalsOK
    <2> QED BY <2>4, <2>7, Places DEF HasDirectory, Loop
  <1> QED BY <1>1, <1>2, <1>3, <1>4, <1>5, <1>6 DEF Loops
(* A step of a delivery: what it leaves on the disk, and in its locals. *)
LEMMA TypedAttempt ==
  ASSUME LocalsOK, TryAgain \/ UNCHANGED attempt
  PROVE  attempt' \in 1..HermesMaxAttempts
BY BoundsAssumption DEF LocalsOK, TryAgain

LEMMA TypedDisk ==
  ASSUME Typed, ProcessJob
  PROVE  DiskOK' /\ (pc' \in Phases => job \in dirs')
  <1>1. job \in Jobs /\ DiskOK
    BY DEF Typed, LocalsOK
  <1>2. ASSUME pc \in Phases, job \in dirs, NEW p \in Parts, NEW whole \in BOOLEAN, Add(p, whole)
        PROVE  DiskOK' /\ job \in dirs'
    BY <1>2, AddTyped, Places DEF Add, Store
  <1>3. ASSUME job \in dirs, NEW p \in Parts, NEW ws \in SUBSET Writings, Store(p, ws)
        PROVE  DiskOK' /\ job \in dirs'
    BY <1>1, <1>3, StoreTyped DEF Store
  <1>4. ASSUME UNCHANGED disk
        PROVE  DiskOK' /\ dirs' = dirs
    BY <1>1, <1>4 DEF DiskOK
  <1>5. CASE PrepareWorkdir
    <2>1. ASSUME RemoveAll(job) \/ RemovePart(job)
          PROVE  DiskOK'
      BY <1>1, <2>1, RemoveAllEffect, RemovePartEffect
    <2>2. ASSUME dirs' = dirs \cup {job}, old' = old \ {job},
                 tree' = [tree EXCEPT ![job] = Empty]
          PROVE  DiskOK' /\ job \in dirs'
      <3>1. Empty \in [Parts -> SUBSET Writings]
        BY DEF Empty
      <3> QED BY <1>1, <2>2, <3>1 DEF DiskOK
    <2>3. \/ /\ dirs' = dirs \cup {job} /\ old' = old \ {job}
             /\ tree' = [tree EXCEPT ![job] = Empty]
          \/ /\ pc' = "FAILED"
             /\ RemoveAll(job) \/ RemovePart(job) \/ UNCHANGED disk
      BY <1>5 DEF PrepareWorkdir, Raise
    <2> QED BY <1>4, <2>1, <2>2, <2>3, Places
  <1>6. CASE pc \in Phases
    <2>1. job \in dirs
      BY <1>6 DEF Typed, HasDirectory
    <2>2. CASE ReportBreaks \/ RunHermes \/ Upload \/ ReportSuccess
      BY <1>4, <2>1, <2>2 DEF ReportBreaks, RunHermes, Upload, ReportSuccess
    <2>3. CASE DownloadRequirements \/ DownloadAssets
      <3>1. UNCHANGED disk \/ Add("inputs", TRUE)
        BY <2>3 DEF DownloadRequirements, DownloadAssets
      <3> QED BY <1>2, <1>4, <1>6, <2>1, <3>1 DEF Parts
    <2>4. CASE BeginRefine
      <3>1. UNCHANGED disk \/ Store("refined", {})
        BY <2>4 DEF BeginRefine
      <3> QED BY <1>3, <1>4, <2>1, <3>1 DEF Parts
    <2>5. CASE WriteTemp
      <3>1. UNCHANGED disk \/ Add("temp", TRUE) \/ Add("temp", FALSE)
        BY <2>5 DEF WriteTemp
      <3> QED BY <1>2, <1>4, <1>6, <2>1, <3>1 DEF Parts
    <2>6. CASE ReplaceOutput
      <3>1. CASE UNCHANGED disk \/ Store("temp", tree[job]["temp"] \ {Own(TRUE)})
        <4>1. tree[job]["temp"] \ {Own(TRUE)} \in SUBSET Writings /\ "temp" \in Parts
          BY <1>1 DEF DiskOK, Parts
        <4> QED BY <1>3, <1>4, <2>1, <3>1, <4>1
      <3>2. ASSUME NEW rest \in {tree[job]["temp"], tree[job]["temp"] \ {Own(TRUE)}},
                   tree' = [tree EXCEPT ![job]["refined"] = {Own(TRUE)},
                                        ![job]["temp"] = rest],
                   old' = old \ {job}, UNCHANGED dirs
            PROVE  DiskOK' /\ job \in dirs'
        <4>1. rest \in SUBSET Writings /\ {Own(TRUE)} \in SUBSET Writings
          <5>1. tree[job]["temp"] \in SUBSET Writings
            BY <1>1 DEF DiskOK, Parts
          <5>2. Own(TRUE) \in Writings
            BY <1>6, OwnWriting, Places DEF Typed, LocalsOK
          <5> QED BY <5>1, <5>2
        <4>2. tree' \in [Jobs -> [Parts -> SUBSET Writings]]
          BY <1>1, <3>2, <4>1 DEF DiskOK
        <4> QED BY <1>1, <2>1, <3>2, <4>2 DEF DiskOK
      <3> QED BY <2>6, <3>1, <3>2 DEF ReplaceOutput
    <2>7. CASE Generate
      <3>1. UNCHANGED disk \/ \E whole \in BOOLEAN : Add("project", whole)
        BY <2>7 DEF Generate
      <3> QED BY <1>2, <1>4, <1>6, <2>1, <3>1 DEF Parts
    <2>8. CASE Build
      <3>1. \/ UNCHANGED disk \/ Add("project", FALSE) \/ Store("apk", {Own(FALSE)})
            \/ \E w \in tree[job]["project"] : Store("apk", {w})
        BY <2>8 DEF Build
      <3>2. Own(FALSE) \in Writings
        BY <1>6, OwnWriting, Places DEF Typed, LocalsOK
      <3>3. tree[job]["project"] \subseteq Writings
        BY <1>1 DEF DiskOK, Parts
      <3> QED BY <1>2, <1>3, <1>4, <1>6, <2>1, <3>1, <3>2, <3>3 DEF Parts
    <2>9. ~PrepareWorkdir /\ ~HandleFailure
      BY <1>6, Places DEF PrepareWorkdir, HandleFailure
    <2> QED BY <2>2, <2>3, <2>4, <2>5, <2>6, <2>7, <2>8, <2>9 DEF ProcessJob
  <1>7. CASE HandleFailure
    BY <1>4, <1>7, Places DEF HandleFailure, Loop
  <1>8. PrepareWorkdir \/ HandleFailure \/ pc \in Phases
    BY DEF ProcessJob, ReportBreaks, DownloadRequirements, DownloadAssets, BeginRefine,
           RunHermes, WriteTemp, ReplaceOutput, Generate, Build, Upload, ReportSuccess, Phases
  <1> QED BY <1>5, <1>6, <1>7, <1>8
LEMMA SameDelivery ==
  ASSUME ProcessJob
  PROVE  UNCHANGED <<sweep, job, delivery, crashes>>
BY DEF ProcessJob, PrepareWorkdir, ReportBreaks, DownloadRequirements, DownloadAssets,
       BeginRefine, RunHermes, WriteTemp, ReplaceOutput, Generate, Build, Upload,
       ReportSuccess, HandleFailure

(* A delivery stays in its phases or ends where the loop begins. *)
LEMMA OnToLoop ==
  ASSUME ProcessJob
  PROVE  pc \in Delivering /\ pc' \in Delivering \cup {"list"}
  <1>1. CASE PrepareWorkdir \/ ReportBreaks \/ DownloadRequirements \/ DownloadAssets \/ BeginRefine
    BY <1>1 DEF PrepareWorkdir, ReportBreaks, DownloadRequirements, DownloadAssets,
                BeginRefine, Raise, Goto, Delivering, Phases
  <1>2. CASE RunHermes \/ WriteTemp \/ ReplaceOutput
    BY <1>2 DEF RunHermes, WriteTemp, ReplaceOutput, TryAgain, Goto, Delivering, Phases
  <1>3. CASE Generate \/ Build \/ Upload \/ ReportSuccess \/ HandleFailure
    BY <1>3 DEF Generate, Build, Upload, ReportSuccess, HandleFailure, Raise, Goto,
                Delivering, Phases
  <1> QED BY <1>1, <1>2, <1>3 DEF ProcessJob

LEMMA TypedLocals ==
  ASSUME Typed, ProcessJob
  PROVE  LocalsOK'
  <1>1. pc \in Delivering /\ LocalsOK
    BY DEF ProcessJob, PrepareWorkdir, ReportBreaks, DownloadRequirements, DownloadAssets,
           BeginRefine, RunHermes, WriteTemp, ReplaceOutput, Generate, Build, Upload,
           ReportSuccess, HandleFailure, Phases, Delivering, Typed
  <1>2. UNCHANGED <<sweep, job, delivery, crashes>>
    BY SameDelivery
  <1>3. /\ pc' \in Loop \cup Delivering
        /\ exc' \in ExceptionTypes \cup {"none"}
    <2>1. CASE PrepareWorkdir \/ ReportBreaks
      BY <2>1, <1>1, Exceptions
         DEF LocalsOK, PrepareWorkdir, ReportBreaks, Raise, Goto, Delivering, Phases
    <2>2. CASE DownloadRequirements
      BY <2>2, <1>1, Exceptions, DocumentRaises
         DEF LocalsOK, DownloadRequirements, Raise, Goto, Delivering, Phases
    <2>3. CASE DownloadAssets \/ BeginRefine
      BY <2>3, <1>1, Exceptions
         DEF LocalsOK, DownloadAssets, BeginRefine, Raise, Goto, Delivering, Phases
    <2>4. CASE RunHermes \/ WriteTemp \/ ReplaceOutput
      BY <2>4, <1>1
         DEF LocalsOK, RunHermes, WriteTemp, ReplaceOutput, TryAgain, Goto, Delivering, Phases
    <2>5. CASE Generate \/ Build
      BY <2>5, <1>1, Exceptions
         DEF LocalsOK, Generate, Build, Raise, Goto, Delivering, Phases
    <2>6. CASE Upload \/ ReportSuccess \/ HandleFailure
      BY <2>6, <1>1, Exceptions
         DEF LocalsOK, Upload, ReportSuccess, HandleFailure, Raise, Goto, Delivering, Phases, Loop
    <2> QED BY <2>1, <2>2, <2>3, <2>4, <2>5, <2>6 DEF ProcessJob
  <1>4. attempt' \in 1..HermesMaxAttempts
    <2>1. \/ TryAgain \/ UNCHANGED attempt \/ attempt' = 1
      BY DEF ProcessJob, PrepareWorkdir, ReportBreaks, DownloadRequirements, DownloadAssets,
           BeginRefine, RunHermes, WriteTemp, ReplaceOutput, Generate, Build, Upload,
           ReportSuccess, HandleFailure, Return
    <2> QED BY <2>1, <1>1, TypedAttempt, BoundsAssumption
  <1>5. document' \in Uploads \cup {"none"} /\ refined' \in BOOLEAN
    BY <1>1 DEF LocalsOK, ProcessJob, PrepareWorkdir, ReportBreaks, DownloadRequirements,
           DownloadAssets, BeginRefine, RunHermes, WriteTemp, ReplaceOutput, Generate, Build,
           Upload, ReportSuccess, HandleFailure, Return
  <1>6. reads' \subseteq Writings /\ product' \subseteq Writings
    <2>1. \A p \in Parts : tree[job][p] \subseteq Writings
      BY <1>1 DEF Typed, DiskOK, LocalsOK
    <2>2. product' \in {product, tree[job]["apk"]}
      BY DEF ProcessJob, PrepareWorkdir, ReportBreaks, DownloadRequirements,
           DownloadAssets, BeginRefine, RunHermes, WriteTemp, ReplaceOutput, Generate, Build,
           Upload, ReportSuccess, HandleFailure
    <2>3. reads' \subseteq reads \cup tree[job]["inputs"] \cup tree[job]["refined"]
                        \cup tree[job]["project"] \cup product'
      BY DEF ProcessJob, PrepareWorkdir, ReportBreaks, DownloadRequirements,
           DownloadAssets, BeginRefine, RunHermes, WriteTemp, ReplaceOutput, Generate, Build,
           Upload, ReportSuccess, HandleFailure, Return
    <2> QED BY <1>1, <2>1, <2>2, <2>3 DEF LocalsOK, Parts
  <1>7. verdict' \in Verdicts
    <2>1. verdict' = verdict \/ verdict' = "SUCCESS" \/ verdict' = ClassifyError(exc)
      BY DEF ProcessJob, PrepareWorkdir, ReportBreaks, DownloadRequirements,
           DownloadAssets, BeginRefine, RunHermes, WriteTemp, ReplaceOutput, Generate, Build,
           Upload, ReportSuccess, HandleFailure
    <2>2. ClassifyError(exc) \in ErrorCodes
      BY <1>1, Codes DEF LocalsOK
    <2> QED BY <1>1, <2>1, <2>2 DEF LocalsOK, Verdicts
  <1> QED BY <1>1, <1>2, <1>3, <1>4, <1>5, <1>6, <1>7 DEF LocalsOK

LEMMA TypedNext ==
  ASSUME Typed, [Next]_vars
  PROVE  Typed'
  <1>1. CASE Loops
    BY <1>1, TypedLoops
  <1>2. CASE ProcessJob
    BY <1>2, TypedDisk, TypedLocals, SameDelivery DEF Typed, HasDirectory
  <1>3. CASE UNCHANGED vars
    <2>1. DiskOK' /\ HasDirectory'
      BY <1>3 DEF Typed, DiskOK, HasDirectory
    <2>2. LocalsOK'
      BY <1>3 DEF Typed, LocalsOK
    <2> QED BY <2>1, <2>2 DEF Typed
  <1> QED BY <1>1, <1>2, <1>3 DEF Next

(* Every variable keeps its type. *)
THEOREM TypeCorrect == Spec => []TypeOK
  <1>1. Typed => TypeOK
    BY DEF Typed, DiskOK, LocalsOK, TypeOK
  <1> QED BY <1>1, TypedInit, TypedNext, PTL DEF Spec
-----------------------------------------------------------------------------
(* The sweep *)

SweepInv ==
  /\ (pc = "sweep") => (due \cap dirs) \subseteq (listed \cup missed)
  /\ SweepIsThorough

LEMMA SweepNext ==
  ASSUME Typed, SweepInv, [Next]_vars
  PROVE  SweepInv'
  <1> USE DEF SweepInv, SweepIsThorough
  <1>1. CASE ProcessJob
    BY <1>1, OnToLoop, Places DEF Loop
  <1>2. CASE ListChildren
    BY <1>2 DEF ListChildren, Typed, DiskOK
  <1>3. ASSUME NEW j \in Jobs, SweepChild(j)
        PROVE  SweepInv'
    <2>1. dirs' \subseteq dirs /\ (j \in due \cap dirs' => j \in missed')
      BY <1>3 DEF SweepChild, RemoveAll, RemovePart
    <2>2. missed \subseteq missed' /\ listed' = listed \ {j} /\ due' = due /\ pc' = pc
          /\ pc = "sweep"
      BY <1>3 DEF SweepChild
    <2> QED BY <2>1, <2>2
  <1>4. CASE SweepEnds
    BY <1>4 DEF SweepEnds
  <1>5. CASE Start \/ Exit \/ SweepRaises \/ ReceiveNothing \/ Crash
    BY <1>5 DEF Start, Exit, SweepRaises, ReceiveNothing, Crash
  <1>6. ASSUME NEW j \in Jobs, ReceiveMessage(j) \/ Age(j)
        PROVE  SweepInv'
    BY <1>6 DEF ReceiveMessage, Age
  <1>7. CASE UNCHANGED vars
    BY <1>7
  <1> QED BY <1>1, <1>2, <1>3, <1>4, <1>5, <1>6, <1>7 DEF Next, Loops

(* The sweep looks at every old directory before the poll. *)
THEOREM SweepThorough == Spec => []SweepIsThorough
  <1>1. Init => SweepInv
    BY DEF Init, SweepInv, SweepIsThorough
  <1>2. SweepInv => SweepIsThorough
    BY DEF SweepInv
  <1> QED BY <1>1, <1>2, TypedInit, TypedNext, SweepNext, PTL DEF Spec

-----------------------------------------------------------------------------
(* What each step does to the directories *)

(* The refined prompt of a Job is replaced as a whole or goes. *)
LEMMA PromptReplaced ==
  ASSUME Typed, [Next]_vars
  PROVE  \A j \in Jobs : tree'[j]["refined"] \subseteq tree[j]["refined"] \cup {Own(TRUE)}
  <1>1. job \in Jobs /\ DiskOK /\ "refined" \in Parts
    BY DEF Typed, LocalsOK, Parts
  <1>2. ASSUME NEW p \in Parts \ {"refined"}, NEW ws, Store(p, ws), NEW j \in Jobs
        PROVE  tree'[j]["refined"] = tree[j]["refined"]
    BY <1>1, <1>2, StoreEffect
  <1>3. ASSUME NEW p \in Parts \ {"refined"}, NEW whole, Add(p, whole), NEW j \in Jobs
        PROVE  tree'[j]["refined"] = tree[j]["refined"]
    BY <1>2, <1>3 DEF Add
  <1>4. ASSUME NEW i \in Jobs, RemovePart(i) \/ RemoveAll(i), NEW j \in Jobs
        PROVE  tree'[j]["refined"] \subseteq tree[j]["refined"]
    BY <1>1, <1>4, RemovePartEffect, RemoveAllEffect
  <1>5. CASE UNCHANGED tree
    BY <1>5
  <1>6. CASE PrepareWorkdir
    <2>1. CASE tree' = [tree EXCEPT ![job] = Empty]
      BY <1>1, <2>1 DEF DiskOK, Empty
    <2> QED BY <1>1, <1>4, <1>5, <1>6, <2>1 DEF PrepareWorkdir
  <1>7. CASE DownloadRequirements \/ DownloadAssets
    BY <1>3, <1>5, <1>7 DEF DownloadRequirements, DownloadAssets, Parts
  <1>8. CASE BeginRefine
    <2>1. CASE Store("refined", {})
      BY <1>1, <2>1, StoreEffect
    <2> QED BY <1>5, <1>8, <2>1 DEF BeginRefine
  <1>9. CASE WriteTemp
    BY <1>3, <1>5, <1>9 DEF WriteTemp, Parts
  <1>10. CASE ReplaceOutput
    <2>1. ASSUME NEW rest, tree' = [tree EXCEPT ![job]["refined"] = {Own(TRUE)},
                                                ![job]["temp"] = rest],
                 NEW j \in Jobs
          PROVE  tree'[j]["refined"] \subseteq tree[j]["refined"] \cup {Own(TRUE)}
      BY <1>1, <2>1 DEF DiskOK, Parts
    <2>2. CASE Store("temp", tree[job]["temp"] \ {Own(TRUE)})
      BY <1>2, <2>2 DEF Parts
    <2> QED BY <1>5, <1>10, <2>1, <2>2 DEF ReplaceOutput
  <1>11. CASE Generate
    BY <1>3, <1>5, <1>11 DEF Generate, Parts
  <1>12. CASE Build
    BY <1>2, <1>3, <1>5, <1>12 DEF Build, Parts
  <1>13. CASE Crash
    <2>1. CASE \E p \in Parts \ {"refined"} : Add(p, FALSE)
      BY <1>3, <2>1
    <2>2. CASE \E j \in Jobs : RemovePart(j)
      BY <1>4, <2>2
    <2>3. \A p : (pc \in DOMAIN Torn /\ p \in Torn[pc]) => p \in Parts \ {"refined"}
      BY DEF Torn, Parts
    <2>4. \/ UNCHANGED disk \/ \E j \in listed \cap due : RemovePart(j)
          \/ RemovePart(job) \/ \E p \in Parts \ {"refined"} : Add(p, FALSE)
      BY <1>13, <2>3 DEF Crash
    <2>5. UNCHANGED tree \/ \E j \in Jobs : RemovePart(j)
          \/ \E p \in Parts \ {"refined"} : Add(p, FALSE)
      BY <1>1, <2>4 DEF Typed, LocalsOK
    <2> QED BY <1>5, <2>1, <2>2, <2>5
  <1>14. ASSUME NEW j \in Jobs, SweepChild(j)
         PROVE  \A i \in Jobs : tree'[i]["refined"] \subseteq tree[i]["refined"]
    BY <1>4, <1>14 DEF SweepChild
  <1>15. ReportBreaks \/ RunHermes \/ Upload \/ ReportSuccess \/ HandleFailure => UNCHANGED tree
    BY DEF ReportBreaks, RunHermes, Upload, ReportSuccess, HandleFailure
  <1>16. Start \/ Exit \/ ListChildren \/ SweepEnds \/ ReceiveNothing => UNCHANGED tree
    BY DEF Start, Exit, ListChildren, SweepEnds, ReceiveNothing
  <1>17. (\E j \in Jobs : ReceiveMessage(j) \/ Age(j)) \/ UNCHANGED vars => UNCHANGED tree
    BY DEF ReceiveMessage, Age
  <1>18. CASE SweepRaises
    <2>1. UNCHANGED tree \/ \E j \in Jobs : RemovePart(j) \/ RemoveAll(j)
      BY <1>1, <1>18 DEF SweepRaises, Typed, LocalsOK
    <2> QED BY <1>4, <1>5, <2>1
  <1> QED BY <1>5, <1>6, <1>7, <1>8, <1>9, <1>10, <1>11, <1>12, <1>13, <1>14, <1>15, <1>16,
             <1>17, <1>18 DEF Next, Loops, ProcessJob
(* No partial refined prompt is ever seen. *)
THEOREM PromptWhole == Spec => []PromptNeverTorn
  <1>1. Init => PromptNeverTorn
    BY DEF Init, PromptNeverTorn, Empty, Parts
  <1>2. ASSUME Typed, PromptNeverTorn, [Next]_vars
        PROVE  PromptNeverTorn'
    <2>1. Own(TRUE).whole = TRUE
      BY OwnWriting
    <2> QED BY <1>2, <2>1, PromptReplaced DEF PromptNeverTorn
  <1> QED BY <1>1, <1>2, TypedInit, TypedNext, PTL DEF Spec

-----------------------------------------------------------------------------
(* What a delivery finds and reads is its own and complete *)

(* The directory of the delivery in hand, from the moment it is prepared. *)
PhaseClean ==
  (pc \in Phases) =>
    /\ \A p \in Parts : \A w \in tree[job][p] : w.by = delivery
    /\ tree[job]["inputs"] \subseteq {Own(TRUE)} /\ tree[job]["refined"] \subseteq {Own(TRUE)}
    /\ (pc \notin {"build", "upload", "SUCCESS"}) => tree[job]["project"] = {}
    /\ (pc = "build") => tree[job]["project"] \subseteq {Own(TRUE)}
    /\ (pc \in {"upload", "SUCCESS"}) => tree[job]["apk"] = {Own(TRUE)}

ReadsClean ==
  /\ reads \subseteq {Own(TRUE)} /\ product \subseteq {Own(TRUE)}
  /\ (pc \in Loop) => reads = {}
  /\ (pc = "SUCCESS") => product = {Own(TRUE)}

(* Before the project is built nothing but inputs is added; what the phases  *)
(* that go on leave in the directory of the Job.                            *)
BeforeGenerate == {"requirements", "assets", "refine", "hermes", "write", "replace"}

LEMMA EarlyPhases ==
  ASSUME Typed, ProcessJob, pc \in BeforeGenerate, pc' \in Phases
  PROVE  /\ pc' \in BeforeGenerate \cup {"generate"}
         /\ \A p \in Parts : tree'[job][p] \subseteq tree[job][p] \cup {Own(TRUE), Own(FALSE)}
         /\ tree'[job]["inputs"] \subseteq tree[job]["inputs"] \cup {Own(TRUE)}
         /\ tree'[job]["refined"] \subseteq tree[job]["refined"] \cup {Own(TRUE)}
         /\ tree'[job]["project"] = tree[job]["project"]
  <1> DEFINE Effect ==
         /\ \A p \in Parts : tree'[job][p] \subseteq tree[job][p] \cup {Own(TRUE), Own(FALSE)}
         /\ tree'[job]["inputs"] \subseteq tree[job]["inputs"] \cup {Own(TRUE)}
         /\ tree'[job]["refined"] \subseteq tree[job]["refined"] \cup {Own(TRUE)}
         /\ tree'[job]["project"] = tree[job]["project"]
  <1>1. job \in Jobs /\ DiskOK
    BY DEF Typed, LocalsOK
  <1>2. UNCHANGED disk => Effect
    OBVIOUS
  <1>3. ASSUME NEW whole \in BOOLEAN, Add("temp", whole)
        PROVE  Effect
    <2>1. /\ tree'[job]["temp"] = tree[job]["temp"] \cup {Own(whole)}
          /\ \A q \in Parts \ {"temp"} : tree'[job][q] = tree[job][q]
      BY <1>1, <1>3, AddEffect DEF Parts
    <2>2. Own(whole) \in {Own(TRUE), Own(FALSE)}
      OBVIOUS
    <2> QED BY <2>1, <2>2 DEF Parts
  <1>4. ASSUME Add("inputs", TRUE)
        PROVE  Effect
    <2>1. /\ tree'[job]["inputs"] = tree[job]["inputs"] \cup {Own(TRUE)}
          /\ \A q \in Parts \ {"inputs"} : tree'[job][q] = tree[job][q]
      BY <1>1, <1>4, AddEffect DEF Parts
    <2> QED BY <2>1 DEF Parts
  <1>5. ASSUME NEW p \in {"temp", "refined"}, NEW ws \in SUBSET tree[job][p], Store(p, ws)
        PROVE  Effect
    BY <1>1, <1>5, StoreEffect DEF Parts
  <1>6. ASSUME NEW rest \in SUBSET tree[job]["temp"],
               tree' = [tree EXCEPT ![job]["refined"] = {Own(TRUE)}, ![job]["temp"] = rest]
        PROVE  Effect
    BY <1>1, <1>6 DEF DiskOK, Parts
  <1>7. CASE DownloadRequirements \/ DownloadAssets \/ ReportBreaks
    <2>1. pc' \in BeforeGenerate
      BY <1>7, Places DEF DownloadRequirements, DownloadAssets, ReportBreaks, Raise, Goto,
         BeforeGenerate
    <2>2. UNCHANGED disk \/ Add("inputs", TRUE)
      BY <1>7 DEF DownloadRequirements, DownloadAssets, ReportBreaks
    <2> QED BY <1>2, <1>4, <2>1, <2>2
  <1>8. CASE BeginRefine \/ RunHermes
    <2>1. pc' \in BeforeGenerate \cup {"generate"}
      BY <1>8, Places DEF BeginRefine, RunHermes, TryAgain, Raise, Goto, BeforeGenerate
    <2>2. UNCHANGED disk \/ Store("refined", {})
      BY <1>8 DEF BeginRefine, RunHermes
    <2>3. {} \in SUBSET tree[job]["refined"]
      OBVIOUS
    <2> QED BY <1>2, <1>5, <2>1, <2>2, <2>3
  <1>9. CASE WriteTemp
    <2>1. pc' \in BeforeGenerate \cup {"generate"}
      BY <1>9 DEF WriteTemp, TryAgain, Goto, BeforeGenerate
    <2>2. UNCHANGED disk \/ Add("temp", TRUE) \/ Add("temp", FALSE)
      BY <1>9 DEF WriteTemp
    <2> QED BY <1>2, <1>3, <2>1, <2>2
  <1>10. CASE ReplaceOutput
    <2>1. pc' \in BeforeGenerate \cup {"generate"}
      BY <1>10 DEF ReplaceOutput, TryAgain, Goto, BeforeGenerate
    <2>2. CASE \/ UNCHANGED disk \/ Store("temp", tree[job]["temp"] \ {Own(TRUE)})
      BY <1>2, <1>5, <2>1, <2>2
    <2>3. ASSUME NEW rest \in {tree[job]["temp"], tree[job]["temp"] \ {Own(TRUE)}},
                 tree' = [tree EXCEPT ![job]["refined"] = {Own(TRUE)}, ![job]["temp"] = rest]
          PROVE  Effect
      BY <1>6, <2>3
    <2> QED BY <1>10, <2>1, <2>2, <2>3 DEF ReplaceOutput
  <1> QED BY <1>7, <1>8, <1>9, <1>10
        DEF ProcessJob, PrepareWorkdir, Generate, Build, Upload, ReportSuccess, HandleFailure,
            BeforeGenerate

(* The later phases. *)
LEMMA LatePhases ==
  ASSUME Typed, ProcessJob, pc \in Phases \ BeforeGenerate, pc' \in Phases
  PROVE  \/ /\ pc = "generate" /\ pc' = "build" /\ Add("project", TRUE)
         \/ /\ pc = "build" /\ pc' = "upload"
            /\ \E w \in tree[job]["project"] : Store("apk", {w})
         \/ pc = "upload" /\ pc' = "SUCCESS" /\ UNCHANGED disk /\ product' = tree[job]["apk"]
  <1>1. CASE Generate \/ ReportBreaks
    BY <1>1, Places DEF Generate, ReportBreaks, Raise, Goto
  <1>2. CASE Build
    BY <1>2, Places DEF Build, Raise, Goto
  <1>3. CASE Upload
    BY <1>3, Places DEF Upload, Raise, Goto
  <1>4. CASE ReportSuccess
    BY <1>4, Places DEF ReportSuccess, Raise, Goto, Loop, Phases
  <1> QED BY <1>1, <1>2, <1>3, <1>4
        DEF ProcessJob, PrepareWorkdir, DownloadRequirements, DownloadAssets, BeginRefine,
            RunHermes, WriteTemp, ReplaceOutput, HandleFailure, BeforeGenerate, Phases

LEMMA PhaseCleanProcess ==
  ASSUME Typed, PhaseClean, ProcessJob
  PROVE  PhaseClean'
  <1> SUFFICES ASSUME pc' \in Phases
               PROVE  PhaseClean'
    BY DEF PhaseClean
  <1>1. UNCHANGED <<job, delivery>> /\ Own(TRUE)' = Own(TRUE) /\ job \in Jobs /\ DiskOK
    BY SameDelivery DEF Own, Typed, LocalsOK
  <1>2. Own(TRUE).by = delivery /\ Own(FALSE).by = delivery
    BY OwnWriting
  <1>3. CASE pc = "prepare"
    <2>1. tree'[job] = Empty /\ pc' = "requirements"
      BY <1>1, <1>3, Places DEF ProcessJob, PrepareWorkdir, ReportBreaks, DownloadRequirements,
           DownloadAssets, BeginRefine, RunHermes, WriteTemp, ReplaceOutput, Generate, Build,
           Upload, ReportSuccess, HandleFailure, Raise, Goto, DiskOK
    <2>2. \A p \in Parts : tree'[job][p] = {}
      BY <2>1 DEF Empty
    <2> QED BY <1>1, <2>1, <2>2 DEF PhaseClean, Parts
  <1>4. CASE pc \in BeforeGenerate
    <2>1. pc \in Phases /\ pc \notin {"build", "upload", "SUCCESS"}
      BY <1>4 DEF BeforeGenerate, Phases
    <2>2. pc' \notin {"build", "upload", "SUCCESS"}
      BY <1>4, EarlyPhases DEF BeforeGenerate
    <2>3. tree'[job]["inputs"] \subseteq {Own(TRUE)} /\ tree'[job]["refined"] \subseteq {Own(TRUE)}
          /\ tree'[job]["project"] = {}
      BY <1>4, <2>1, EarlyPhases DEF PhaseClean
    <2>4. \A p \in Parts : \A w \in tree'[job][p] : w.by = delivery
      BY <1>2, <1>4, <2>1, EarlyPhases DEF PhaseClean
    <2> QED BY <1>1, <2>2, <2>3, <2>4 DEF PhaseClean
  <1>5. CASE pc \in Phases \ BeforeGenerate
    <2> USE <1>5
    <2>1. CASE pc = "generate" /\ pc' = "build" /\ Add("project", TRUE)
      <3>1. tree[job]["project"] = {}
        BY <2>1 DEF PhaseClean
      <3>2. /\ tree'[job]["project"] = tree[job]["project"] \cup {Own(TRUE)}
            /\ \A q \in Parts \ {"project"} : tree'[job][q] = tree[job][q]
        BY <1>1, <2>1, AddEffect DEF Parts
      <3>3. \A p \in Parts : \A w \in tree'[job][p] : w.by = delivery
        BY <1>2, <3>1, <3>2 DEF PhaseClean
      <3> QED BY <1>1, <2>1, <3>1, <3>2, <3>3 DEF PhaseClean, Parts
    <2>2. ASSUME pc = "build", pc' = "upload",
                 NEW w \in tree[job]["project"], Store("apk", {w})
          PROVE  PhaseClean'
      <3>1. w = Own(TRUE) /\ tree'[job]["apk"] = {Own(TRUE)}
        BY <1>1, <2>2, StoreEffect DEF Parts, PhaseClean
      <3>2. \A q \in Parts \ {"apk"} : tree'[job][q] = tree[job][q]
        BY <1>1, <2>2, StoreEffect DEF Parts
      <3>3. \A p \in Parts : \A v \in tree'[job][p] : v.by = delivery
        BY <1>2, <3>1, <3>2 DEF PhaseClean
      <3> QED BY <1>1, <2>2, <3>1, <3>2, <3>3 DEF PhaseClean, Parts
    <2>3. CASE pc = "upload" /\ pc' = "SUCCESS" /\ UNCHANGED disk
      BY <1>1, <2>3 DEF PhaseClean
    <2> QED BY <2>1, <2>2, <2>3, LatePhases
  <1>6. pc \in Phases \/ pc = "prepare"
    BY Places DEF ProcessJob, PrepareWorkdir, ReportBreaks, DownloadRequirements,
         DownloadAssets, BeginRefine, RunHermes, WriteTemp, ReplaceOutput, Generate, Build,
         Upload, ReportSuccess, HandleFailure, Phases, Loop
  <1> QED BY <1>3, <1>4, <1>5, <1>6
LEMMA ReadsCleanProcess ==
  ASSUME Typed, PhaseClean, ReadsClean, ProcessJob
  PROVE  ReadsClean'
  <1>1. Own(TRUE)' = Own(TRUE)
    BY SameDelivery DEF Own
  <1>2. pc' \in Delivering \cup {"list"} /\ (pc' \in Loop => pc' = "list")
    BY OnToLoop, Places DEF Loop
  <1>3. ASSUME UNCHANGED <<reads, product>>, pc' # "SUCCESS", pc' # "list"
        PROVE  ReadsClean'
    BY <1>1, <1>2, <1>3 DEF ReadsClean
  <1>4. CASE PrepareWorkdir \/ ReportBreaks \/ DownloadRequirements \/ DownloadAssets
    <2>1. UNCHANGED <<reads, product>> /\ pc' # "SUCCESS" /\ pc' # "list"
      BY <1>4 DEF PrepareWorkdir, ReportBreaks, DownloadRequirements, DownloadAssets, Raise, Goto
    <2> QED BY <1>3, <2>1
  <1>5. CASE RunHermes \/ WriteTemp \/ ReplaceOutput
    <2>1. UNCHANGED <<reads, product>> /\ pc' # "SUCCESS" /\ pc' # "list"
      BY <1>5 DEF RunHermes, WriteTemp, ReplaceOutput, TryAgain, Goto
    <2> QED BY <1>3, <2>1
  <1>6. ASSUME reads' \subseteq {Own(TRUE)}, UNCHANGED product, pc' # "SUCCESS", pc' # "list"
        PROVE  ReadsClean'
    BY <1>1, <1>2, <1>6 DEF ReadsClean
  <1>7. CASE BeginRefine \/ Generate
    <2>1. pc \in {"refine", "generate"} /\ UNCHANGED product /\ pc' # "SUCCESS" /\ pc' # "list"
      BY <1>7 DEF BeginRefine, Generate, Raise, Goto
    <2>2. reads' \subseteq reads \cup tree[job]["inputs"] \cup tree[job]["refined"]
      BY <1>7 DEF BeginRefine, Generate
    <2>3. pc \in Phases
      BY <2>1 DEF Phases
    <2>4. tree[job]["inputs"] \subseteq {Own(TRUE)} /\ tree[job]["refined"] \subseteq {Own(TRUE)}
      BY <2>3 DEF PhaseClean
    <2> QED BY <1>6, <2>1, <2>2, <2>4 DEF ReadsClean
  <1>8. CASE Build
    <2>1. pc = "build" /\ UNCHANGED product /\ pc' # "SUCCESS" /\ pc' # "list"
          /\ reads' = reads \cup tree[job]["project"]
      BY <1>8 DEF Build, Raise, Goto
    <2>2. tree[job]["project"] \subseteq {Own(TRUE)}
      BY <2>1 DEF PhaseClean, Phases
    <2> QED BY <1>6, <2>1, <2>2 DEF ReadsClean
  <1>9. CASE Upload
    <2>1. tree[job]["apk"] = {Own(TRUE)}
      BY <1>9 DEF Upload, PhaseClean, Phases
    <2>2. /\ product' \in {product, tree[job]["apk"]} /\ reads' = reads \cup product'
          /\ pc' # "list" /\ (pc' = "SUCCESS" => product' = tree[job]["apk"])
      BY <1>9 DEF Upload, Raise, Goto
    <2> QED BY <1>1, <1>2, <2>1, <2>2 DEF ReadsClean
  <1>10. CASE ReportSuccess \/ HandleFailure
    <2>1. /\ UNCHANGED product /\ pc' # "SUCCESS"
          /\ \/ reads' = {}
             \/ UNCHANGED reads /\ pc' # "list"
      BY <1>10 DEF ReportSuccess, HandleFailure, Return, Raise, Goto
    <2> QED BY <1>1, <1>2, <2>1 DEF ReadsClean
  <1> QED BY <1>4, <1>5, <1>7, <1>8, <1>9, <1>10 DEF ProcessJob

LEMMA CleanLoops ==
  ASSUME Typed, PhaseClean, ReadsClean, Loops
  PROVE  PhaseClean' /\ ReadsClean'
  <1>1. ASSUME pc' \in Loop \cup {"prepare"}
        PROVE  PhaseClean' /\ pc' # "SUCCESS"
    BY <1>1, Places DEF PhaseClean, Loop
  <1>2. CASE Start \/ Exit \/ ListChildren \/ SweepRaises \/ SweepEnds \/ ReceiveNothing
    <2>1. pc \in Loop /\ pc' \in Loop /\ UNCHANGED <<delivery, reads, product>>
      BY <1>2 DEF Start, Exit, ListChildren, SweepRaises, SweepEnds, ReceiveNothing, Loop
    <2> QED BY <1>1, <2>1 DEF ReadsClean, Own
  <1>3. ASSUME NEW j \in Jobs, SweepChild(j)
        PROVE  PhaseClean' /\ ReadsClean'
    <2>1. pc \in Loop /\ pc' \in Loop /\ UNCHANGED <<delivery, reads, product>>
      BY <1>3 DEF SweepChild, Loop
    <2> QED BY <1>1, <2>1 DEF ReadsClean, Own
  <1>4. ASSUME NEW j \in Jobs, ReceiveMessage(j)
        PROVE  PhaseClean' /\ ReadsClean'
    <2>1. pc \in Loop /\ pc' = "prepare" /\ reads' = reads /\ product' = {}
      BY <1>4 DEF ReceiveMessage, Loop
    <2> QED BY <1>1, <2>1, Places DEF ReadsClean
  <1>5. ASSUME NEW j \in Jobs, Age(j)
        PROVE  PhaseClean' /\ ReadsClean'
    <2>1. UNCHANGED <<pc, tree, job, delivery, reads, product>>
      BY <1>5 DEF Age
    <2> QED BY <2>1 DEF PhaseClean, ReadsClean, Own
  <1>6. CASE Crash
    <2>1. pc' = "down" /\ pc' \in Loop /\ UNCHANGED delivery /\ reads' = {}
      BY <1>6 DEF Crash, Return, Loop
    <2>2. product' = product \/ (pc = "upload" /\ product' = tree[job]["apk"])
      BY <1>6 DEF Crash
    <2>3. product' \subseteq {Own(TRUE)}
      BY <2>2 DEF ReadsClean, PhaseClean, Phases
    <2> QED BY <1>1, <2>1, <2>3 DEF ReadsClean, Own
  <1> QED BY <1>2, <1>3, <1>4, <1>5, <1>6 DEF Loops

(* The inductive invariant of the directory. *)
CleanInv == Typed /\ PhaseClean /\ ReadsClean

LEMMA CleanInit == Init => CleanInv
BY TypedInit DEF Init, CleanInv, PhaseClean, ReadsClean, Phases

LEMMA CleanNext ==
  ASSUME CleanInv, [Next]_vars
  PROVE  CleanInv'
  <1>1. Typed'
    BY TypedNext DEF CleanInv
  <1>2. CASE UNCHANGED vars
    BY <1>1, <1>2 DEF CleanInv, PhaseClean, ReadsClean, Own
  <1>3. CASE Next
    BY <1>1, <1>3, PhaseCleanProcess, ReadsCleanProcess, CleanLoops DEF CleanInv, Next
  <1> QED BY <1>2, <1>3

(* No phase finds anything that an earlier delivery has left. *)
THEOREM NothingLeftOver == Spec => []NothingStale
  <1>1. CleanInv => NothingStale
    BY DEF CleanInv, PhaseClean, NothingStale
  <1> QED BY <1>1, CleanInit, CleanNext, PTL DEF Spec

(* The tools and the upload read complete files of their own delivery. *)
THEOREM OwnFilesOnly == Spec => []ToolsReadWhole
  <1>1. CleanInv => ToolsReadWhole
    BY DEF CleanInv, ReadsClean, ToolsReadWhole
  <1> QED BY <1>1, CleanInit, CleanNext, PTL DEF Spec
-----------------------------------------------------------------------------
(* Whom the error code blames *)

(* What is known of the document while the delivery goes on. *)
DocumentInv ==
  /\ (pc \in {"prepare", "requirements"}) => document = "none"
  /\ (pc \in Phases \ {"requirements"}) => document = "fine"
  /\ (pc \in Delivering) => verdict = "none"
  /\ (pc = "FAILED" /\ exc = "InvalidRequirementsError") => document \in Unacceptable
  /\ (pc = "FAILED" /\ exc \in {"AIGenerationError", "BuildError", "ArtifactUploadError"})
       => document = "fine"
  /\ VerdictIsFair

(* Steps that leave the document and the verdict alone. *)
LEMMA DocumentKept ==
  ASSUME DocumentInv, UNCHANGED <<document, product, verdict>>,
         \/ pc' \in Loop
         \/ pc' = pc /\ UNCHANGED exc
         \/ /\ pc \in Phases \ {"requirements"} 
            /\ pc' = "FAILED" /\ exc' # "InvalidRequirementsError"
         \/ pc \in Phases \ {"requirements"} /\ pc' \in Phases \ {"requirements"}
  PROVE  DocumentInv'
  <1>1. VerdictIsFair'
    BY DEF DocumentInv, VerdictIsFair
  <1>2. CASE pc' \in Loop
    BY <1>1, <1>2, Places DEF DocumentInv, Loop
  <1>3. CASE pc' = pc /\ UNCHANGED exc
    BY <1>1, <1>3 DEF DocumentInv
  <1>4. CASE /\ pc \in Phases \ {"requirements"}
             /\ pc' = "FAILED" /\ exc' # "InvalidRequirementsError"
    BY <1>1, <1>4, Places DEF DocumentInv
  <1>5. CASE pc \in Phases \ {"requirements"} /\ pc' \in Phases \ {"requirements"}
    BY <1>1, <1>5, Places DEF DocumentInv
  <1> QED BY <1>2, <1>3, <1>4, <1>5

LEMMA DocumentProcess ==
  ASSUME Typed, DocumentInv, ProcessJob
  PROVE  DocumentInv'
  <1>1. CASE PrepareWorkdir \/ (ReportBreaks /\ pc = "requirements")
    <2>1. /\ UNCHANGED <<document, product, verdict>> /\ pc \in {"prepare", "requirements"}
          /\ \/ pc' = "requirements"
             \/ pc' = "FAILED" /\ exc' \in {"OSError", "RequestException"}
      BY <1>1 DEF PrepareWorkdir, ReportBreaks, Raise, Goto
    <2>2. VerdictIsFair' /\ document = "none" /\ verdict = "none"
      BY <2>1, Places DEF DocumentInv, VerdictIsFair, Phases
    <2> QED BY <2>1, <2>2, Places DEF DocumentInv, Phases
  <1>2. CASE DownloadRequirements
    <2>1. /\ UNCHANGED <<product, verdict>> /\ pc = "requirements"
          /\ \/ /\ UNCHANGED document /\ pc' = "FAILED"
                /\ exc' \in {"OSError", "RequirementsReadError"}
             \/ \E d \in Uploads :
                  /\ document' = d
                  /\ \/ DocumentErrors[d] = "none" /\ pc' = "assets"
                     \/ /\ DocumentErrors[d] # "none"
                        /\ pc' = "FAILED" /\ exc' = DocumentErrors[d]
      BY <1>2 DEF DownloadRequirements, Raise, Goto
    <2>2. document = "none" /\ verdict = "none" /\ product = {}
      BY <2>1 DEF DocumentInv, VerdictIsFair, Phases, Delivering
    <2>3. VerdictIsFair'
      BY <2>1, <2>2 DEF VerdictIsFair
    <2>4. "assets" \in Phases \ {"requirements", "prepare", "FAILED"}
      BY DEF Phases
    <2> QED BY <2>1, <2>2, <2>3, <2>4, DocumentRaises, Places DEF DocumentInv
  <1>3. CASE DownloadAssets \/ BeginRefine \/ (ReportBreaks /\ pc # "requirements")
    <2>1. UNCHANGED <<document, product, verdict>> /\ pc \in Phases \ {"requirements"}
      BY <1>3 DEF DownloadAssets, BeginRefine, ReportBreaks, Phases
    <2>2. \/ pc' = "FAILED" /\ exc' # "InvalidRequirementsError"
          \/ pc' \in Phases \ {"requirements"}
      BY <1>3 DEF DownloadAssets, BeginRefine, ReportBreaks, Raise, Goto, Phases
    <2> QED BY <2>1, <2>2, DocumentKept
  <1>4. CASE RunHermes \/ WriteTemp \/ ReplaceOutput
    <2>1. UNCHANGED <<document, product, verdict>> /\ pc \in Phases \ {"requirements"}
      BY <1>4 DEF RunHermes, WriteTemp, ReplaceOutput, Phases
    <2>2. pc' \in Phases \ {"requirements"}
      BY <1>4 DEF RunHermes, WriteTemp, ReplaceOutput, TryAgain, Goto, Phases
    <2> QED BY <2>1, <2>2, DocumentKept
  <1>5. CASE Generate \/ Build
    <2>1. UNCHANGED <<document, product, verdict>> /\ pc \in Phases \ {"requirements"}
      BY <1>5 DEF Generate, Build, Phases
    <2>2. \/ pc' = "FAILED" /\ exc' # "InvalidRequirementsError"
          \/ pc' \in Phases \ {"requirements"}
      BY <1>5 DEF Generate, Build, Raise, Goto, Phases, BuildExceptions
    <2> QED BY <2>1, <2>2, DocumentKept
  <1>6. CASE Upload
    <2>1. UNCHANGED <<document, verdict>> /\ pc \in Phases \ {"requirements"}
      BY <1>6 DEF Upload, Phases
    <2>2. \/ pc' = "FAILED" /\ exc' # "InvalidRequirementsError"
          \/ pc' = "SUCCESS"
      BY <1>6 DEF Upload, Raise, Goto
    <2>3. document = "fine" /\ verdict = "none"
      BY <2>1, Places DEF DocumentInv
    <2>4. VerdictIsFair'
      BY <2>1, <2>3 DEF VerdictIsFair
    <2> QED BY <2>1, <2>2, <2>3, <2>4 DEF DocumentInv, Phases
  <1>7. CASE ReportSuccess
    <2>1. UNCHANGED <<document, product>> /\ pc \in Phases \ {"requirements"}
      BY <1>7 DEF ReportSuccess, Phases
    <2>2. \/ pc' = "FAILED" /\ exc' # "InvalidRequirementsError" /\ UNCHANGED verdict
          \/ pc' = "list" /\ verdict' = "SUCCESS"
      BY <1>7 DEF ReportSuccess, Raise, Goto
    <2>3. document = "fine"
      BY <2>1 DEF DocumentInv
    <2>4. VerdictIsFair'
      BY <2>1, <2>2, <2>3 DEF VerdictIsFair, DocumentInv
    <2>5. "list" \in Loop
      BY DEF Loop
    <2> QED BY <2>1, <2>2, <2>3, <2>4, <2>5, Places DEF DocumentInv
  <1>8. CASE HandleFailure
    <2>1. /\ UNCHANGED <<document, product>> /\ pc = "FAILED" /\ pc' = "list"
          /\ verdict' = ClassifyError(exc)
      BY <1>8 DEF HandleFailure
    <2>2. /\ verdict' \in ErrorCodes
          /\ verdict' = "INVALID_REQUIREMENTS" => exc = "InvalidRequirementsError"
          /\ verdict' \in {"AI_GENERATION_FAILED", "BUILD_FAILED", "ARTIFACT_UPLOAD_FAILED"} =>
               exc \in {"AIGenerationError", "BuildError", "ArtifactUploadError"}
      BY <2>1, Codes DEF Typed, LocalsOK
    <2>3. verdict' # "SUCCESS"
      BY <2>2 DEF ErrorCodes
    <2>4. VerdictIsFair'
      BY <2>1, <2>2, <2>3 DEF VerdictIsFair, DocumentInv
    <2>5. "list" \in Loop
      BY DEF Loop
    <2> QED BY <2>1, <2>4, <2>5, Places DEF DocumentInv
  <1> QED BY <1>1, <1>2, <1>3, <1>4, <1>5, <1>6, <1>7, <1>8 DEF ProcessJob

LEMMA DocumentLoops ==
  ASSUME DocumentInv, Loops
  PROVE  DocumentInv'
  <1>1. CASE Start \/ Exit \/ ListChildren \/ SweepRaises \/ SweepEnds \/ ReceiveNothing
    <2>1. pc' \in Loop /\ UNCHANGED <<document, product, verdict>>
      BY <1>1 DEF Start, Exit, ListChildren, SweepRaises, SweepEnds, ReceiveNothing, Loop
    <2> QED BY <2>1, DocumentKept
  <1>2. ASSUME NEW j \in Jobs, SweepChild(j) \/ Age(j)
        PROVE  DocumentInv'
    <2>1. pc' = pc /\ UNCHANGED <<document, product, verdict, exc>>
      BY <1>2 DEF SweepChild, Age
    <2> QED BY <2>1, DocumentKept
  <1>3. ASSUME NEW j \in Jobs, ReceiveMessage(j)
        PROVE  DocumentInv'
    <2>1. pc' = "prepare" /\ document' = "none" /\ verdict' = "none" /\ product' = {}
      BY <1>3 DEF ReceiveMessage
    <2> QED BY <2>1, Places DEF DocumentInv, VerdictIsFair
  <1>4. CASE Crash
    <2>1. /\ pc' = "down" /\ pc' \in Loop /\ UNCHANGED document
          /\ verdict' = "lost" \/ verdict' = verdict
          /\ product' = product \/ pc = "upload"
      BY <1>4 DEF Crash, Loop
    <2>2. pc = "upload" => document = "fine"
      BY DEF DocumentInv, Phases
    <2>3. VerdictIsFair'
      BY <2>1, <2>2 DEF DocumentInv, VerdictIsFair
    <2> QED BY <2>1, <2>3, Places DEF DocumentInv
  <1> QED BY <1>1, <1>2, <1>3, <1>4 DEF Loops

(* The Client is blamed only for a document that is to be refused, and a     *)
(* later phase only where the document was accepted.                        *)
THEOREM FairVerdict == Spec => []VerdictIsFair
  <1>1. Init => DocumentInv
    BY Places DEF Init, DocumentInv, VerdictIsFair, Loop, Phases
  <1>2. ASSUME Typed, DocumentInv, [Next]_vars
        PROVE  DocumentInv'
    <2>1. CASE UNCHANGED vars
      BY <1>2, <2>1 DEF DocumentInv, VerdictIsFair
    <2> QED BY <1>2, <2>1, DocumentProcess, DocumentLoops DEF Next
  <1>3. DocumentInv => VerdictIsFair
    BY DEF DocumentInv
  <1> QED BY <1>1, <1>2, <1>3, TypedInit, TypedNext, PTL DEF Spec
-----------------------------------------------------------------------------
(* Other Jobs' directories *)

LEMMA OnlyOwnTree ==
  ASSUME Typed, ProcessJob, NEW j \in Jobs \ {job}
  PROVE  tree'[j] = tree[j]
  <1>1. job \in Jobs /\ DiskOK
    BY DEF Typed, LocalsOK
  <1>2. ASSUME NEW p \in Parts, NEW ws, Store(p, ws)
        PROVE  tree'[j] = tree[j]
    BY <1>1, <1>2, StoreEffect
  <1>3. ASSUME NEW p \in Parts, NEW whole, Add(p, whole)
        PROVE  tree'[j] = tree[j]
    BY <1>2, <1>3 DEF Add
  <1>4. CASE UNCHANGED tree
    BY <1>4
  <1>5. CASE PrepareWorkdir
    <2>1. CASE tree' = [tree EXCEPT ![job] = Empty]
      BY <1>1, <2>1 DEF DiskOK
    <2>2. CASE RemoveAll(job) \/ RemovePart(job)
      BY <1>1, <2>2, RemoveAllEffect, RemovePartEffect
    <2> QED BY <1>4, <1>5, <2>1, <2>2 DEF PrepareWorkdir
  <1>6. CASE DownloadRequirements \/ DownloadAssets
    BY <1>3, <1>4, <1>6 DEF DownloadRequirements, DownloadAssets, Parts
  <1>7. CASE BeginRefine
    BY <1>2, <1>4, <1>7 DEF BeginRefine, Parts
  <1>8. CASE WriteTemp
    BY <1>3, <1>4, <1>8 DEF WriteTemp, Parts
  <1>9. CASE ReplaceOutput
    <2>1. ASSUME NEW rest, tree' = [tree EXCEPT ![job]["refined"] = {Own(TRUE)},
                                                ![job]["temp"] = rest]
          PROVE  tree'[j] = tree[j]
      BY <1>1, <2>1 DEF DiskOK
    <2>2. CASE Store("temp", tree[job]["temp"] \ {Own(TRUE)})
      BY <1>2, <2>2 DEF Parts
    <2> QED BY <1>4, <1>9, <2>1, <2>2 DEF ReplaceOutput
  <1>10. CASE Generate
    BY <1>3, <1>4, <1>10 DEF Generate, Parts
  <1>11. CASE Build
    BY <1>2, <1>3, <1>4, <1>11 DEF Build, Parts
  <1>12. ReportBreaks \/ RunHermes \/ Upload \/ ReportSuccess \/ HandleFailure => UNCHANGED tree
    BY DEF ReportBreaks, RunHermes, Upload, ReportSuccess, HandleFailure
  <1> QED BY <1>4, <1>5, <1>6, <1>7, <1>8, <1>9, <1>10, <1>11, <1>12 DEF ProcessJob

(* A directory is touched by its own delivery or by a sweep that found it    *)
(* old.                                                                     *)
THEOREM OthersKept == Spec => OthersAreKept
  <1> DEFINE A == \A j \in Jobs : (tree'[j] # tree[j]) =>
                     \/ j = job /\ pc \in Delivering
                     \/ j \in due /\ pc = "sweep"
  <1>1. ASSUME Typed, [Next]_vars
        PROVE  A
    <2>1. DiskOK /\ job \in Jobs
      BY <1>1 DEF Typed, LocalsOK
    <2>2. CASE ProcessJob
      BY <1>1, <2>2, OnlyOwnTree, OnToLoop
    <2>3. ASSUME NEW j \in Jobs, SweepChild(j)
          PROVE  A
      BY <2>1, <2>3, RemoveAllEffect, RemovePartEffect DEF SweepChild
    <2>4. CASE Crash
      <3>1. \A p : (pc \in DOMAIN Torn /\ p \in Torn[pc]) => p \in Parts /\ pc \in Delivering
        BY DEF Torn, Parts, Delivering, Phases
      <3>2. CASE pc = "sweep" /\ \E j \in listed \cap due : RemovePart(j)
        BY <1>1, <2>1, <3>2, RemovePartEffect DEF Typed, LocalsOK
      <3>3. CASE pc = "prepare" /\ RemovePart(job)
        BY <2>1, <3>3, RemovePartEffect, Places
      <3>4. CASE pc \in DOMAIN Torn /\ \E p \in Torn[pc] : Add(p, FALSE)
        <4>1. PICK p \in Parts : Add(p, FALSE) /\ pc \in Delivering
          BY <3>1, <3>4
        <4> QED BY <2>1, <4>1, StoreEffect DEF Add
      <3>5. CASE UNCHANGED disk
        BY <3>5
      <3> QED BY <2>4, <3>2, <3>3, <3>4, <3>5 DEF Crash
    <2>5. Start \/ Exit \/ ListChildren \/ SweepEnds \/ ReceiveNothing => UNCHANGED tree
      BY DEF Start, Exit, ListChildren, SweepEnds, ReceiveNothing
    <2>6. (\E j \in Jobs : ReceiveMessage(j) \/ Age(j)) \/ UNCHANGED vars => UNCHANGED tree
      BY DEF ReceiveMessage, Age
    <2>7. CASE SweepRaises
      <3>1. ASSUME NEW j \in listed \cap due, RemovePart(j) \/ RemoveAll(j)
            PROVE  A
        <4>1. j \in Jobs
          BY <1>1 DEF Typed, LocalsOK
        <4> QED BY <2>1, <2>7, <3>1, <4>1, RemoveAllEffect, RemovePartEffect DEF SweepRaises
      <3> QED BY <2>7, <3>1 DEF SweepRaises
    <2> QED BY <1>1, <2>2, <2>3, <2>4, <2>5, <2>6, <2>7 DEF Next, Loops
  <1>2. Typed /\ [Next]_vars => [A]_vars
    BY <1>1
  <1> QED BY <1>2, TypedInit, TypedNext, PTL DEF Spec, OthersAreKept

-----------------------------------------------------------------------------
(* Module CleanDelivery is implemented *)

(* The refinement mapping's state of the delivery. *)
CleanState == IF pc \in Delivering THEN "working" ELSE verdict

LEMMA VerdictValues ==
  ASSUME Typed
  PROVE  verdict # "working" /\ (pc \in Delivering <=> CleanState = "working")
BY DEF Typed, LocalsOK, Verdicts, ErrorCodes, CleanState

LEMMA CleanProcess ==
  ASSUME CleanInv, ProcessJob
  PROVE  Clean!Next \/ UNCHANGED <<delivery, CleanState, product>>
  <1>1. pc \in Delivering /\ pc' \in Delivering \cup {"list"} /\ UNCHANGED delivery
    BY OnToLoop, SameDelivery
  <1>2. Clean!Own = {Own(TRUE)}
    BY DEF Clean!Own, Own
  <1>3. "list" \notin Delivering
    BY Places DEF Loop
  <1>4. CASE Upload
    <2>1. tree[job]["apk"] = {Own(TRUE)}
      BY <1>4 DEF Upload, CleanInv, PhaseClean, Phases
    <2>2. product' = product \/ product' = {Own(TRUE)}
      BY <1>4, <2>1 DEF Upload
    <2>3. pc' \in Delivering
      BY <1>4 DEF Upload, Raise, Goto, Delivering, Phases
    <2> QED BY <1>1, <1>2, <2>2, <2>3 DEF Clean!Next, Clean!Store, CleanState
  <1>5. CASE ReportSuccess
    <2>1. product = {Own(TRUE)}
      BY <1>5 DEF ReportSuccess, CleanInv, ReadsClean
    <2>2. UNCHANGED product /\ (pc' = "FAILED" \/ (pc' = "list" /\ verdict' = "SUCCESS"))
      BY <1>5 DEF ReportSuccess, Raise, Goto
    <2> QED BY <1>1, <1>2, <1>3, <2>1, <2>2, Places
            DEF Clean!Next, Clean!Succeed, Clean!End, CleanState
  <1>6. CASE HandleFailure
    <2>1. UNCHANGED product /\ pc' = "list" /\ verdict' = ClassifyError(exc)
      BY <1>6 DEF HandleFailure
    <2>2. ClassifyError(exc) \in ErrorCodes
      BY Codes DEF CleanInv, Typed, LocalsOK
    <2>3. Clean!ErrorCodes = ErrorCodes
      BY DEF Clean!ErrorCodes, ErrorCodes
    <2> QED BY <1>1, <1>3, <2>1, <2>2, <2>3 DEF Clean!Next, Clean!Fail, Clean!End, CleanState
  <1>7. CASE /\ ~Upload /\ ~ReportSuccess /\ ~HandleFailure
    <2>1. UNCHANGED product /\ pc' # "list"
      BY <1>7 DEF ProcessJob, PrepareWorkdir, ReportBreaks, DownloadRequirements, DownloadAssets,
           BeginRefine, RunHermes, WriteTemp, ReplaceOutput, Generate, Build, TryAgain, Raise, Goto
    <2> QED BY <1>1, <2>1 DEF CleanState
  <1> QED BY <1>4, <1>5, <1>6, <1>7

LEMMA CleanHost ==
  ASSUME CleanInv, Loops
  PROVE  Clean!Next \/ UNCHANGED <<delivery, CleanState, product>>
  <1>1. verdict # "working"
    BY VerdictValues DEF CleanInv
  <1>2. CASE Start \/ Exit \/ ListChildren \/ SweepRaises \/ SweepEnds \/ ReceiveNothing
    <2>1. pc \in Loop /\ pc' \in Loop /\ UNCHANGED <<delivery, verdict, product>>
      BY <1>2 DEF Start, Exit, ListChildren, SweepRaises, SweepEnds, ReceiveNothing, Loop
    <2> QED BY <2>1, Places DEF CleanState
  <1>3. ASSUME NEW j \in Jobs, SweepChild(j) \/ Age(j)
        PROVE  UNCHANGED <<delivery, CleanState, product>>
    BY <1>3 DEF SweepChild, Age, CleanState
  <1>4. ASSUME NEW j \in Jobs, ReceiveMessage(j)
        PROVE  Clean!Begin
    <2>1. /\ pc = "receive" /\ pc' = "prepare" /\ delivery' = delivery + 1 /\ product' = {}
          /\ pc \notin Delivering
      BY <1>4, Places DEF ReceiveMessage, Loop
    <2> QED BY <1>1, <2>1, Places DEF Clean!Begin, CleanState
  <1>5. CASE Crash
    <2>1. pc' = "down" /\ "down" \notin Delivering /\ UNCHANGED delivery
          /\ verdict' = IF pc \in Delivering THEN "lost" ELSE verdict
      BY <1>5, Places DEF Crash, Loop
    <2>2. product' = product \/ (pc = "upload" /\ product' = {Own(TRUE)})
      BY <1>5 DEF Crash, CleanInv, PhaseClean, Phases
    <2>3. Clean!Own = {Own(TRUE)}
      BY DEF Clean!Own, Own
    <2>4. "upload" \in Delivering
      BY DEF Delivering, Phases
    <2> QED BY <2>1, <2>2, <2>3, <2>4 DEF Clean!Next, Clean!Lose, CleanState
  <1> QED BY <1>2, <1>3, <1>4, <1>5 DEF Loops, Clean!Next

(* The host implements CleanDelivery, through crashes, restarts and removals *)
(* that stop half way.                                                      *)
THEOREM Refinement == Spec => KeepsClean
  <1>1. Init => Clean!Init
    BY Places DEF Init, Clean!Init, Loop
  <1>2. ASSUME CleanInv, [Next]_vars
        PROVE  [Clean!Next]_<<delivery, CleanState, product>>
    <2>1. CASE UNCHANGED vars
      BY <2>1 DEF CleanState
    <2> QED BY <1>2, <2>1, CleanProcess, CleanHost DEF Next
  <1>3. ASSUME CleanInv, [Next]_vars
        PROVE  [Clean!Next]_<<delivery, IF pc \in Delivering THEN "working" ELSE verdict, product>>
    BY <1>2, <1>3 DEF CleanState
  <1> QED BY <1>1, <1>3, CleanInit, CleanNext, PTL DEF Spec, KeepsClean, Clean!Spec

-----------------------------------------------------------------------------
(* Progress without fairness *)

(* The next attempt of the refinement, or the generator without it. *)
LEMMA TryAgainNears ==
  ASSUME Typed, pc \in DOMAIN Turn, TryAgain
  PROVE  Nearer
  <1>1. pc \in {"hermes", "write", "replace"} /\ attempt \in Nat
    BY BoundsAssumption DEF Typed, LocalsOK, Turn
  <1>2. CASE attempt < HermesMaxAttempts
    BY <1>1, <1>2, BoundsAssumption DEF TryAgain, Goto, Nearer, Turn
  <1>3. CASE ~ (attempt < HermesMaxAttempts)
    BY <1>1, <1>3 DEF TryAgain, Goto, Nearer, Stage
  <1> QED BY <1>2, <1>3

(* The steps of a delivery that can only go to a later stage. *)
LEMMA LaterStage ==
  ASSUME Typed,
         \/ PrepareWorkdir \/ ReportBreaks \/ DownloadRequirements
         \/ DownloadAssets \/ BeginRefine \/ Generate \/ Build \/ Upload
         \/ ReportSuccess \/ HandleFailure
  PROVE  Stage[pc'] < Stage[pc]
  <1> USE DEF Stage, Goto, Raise
  <1>1. CASE PrepareWorkdir
    <2>1. pc = "prepare" /\ pc' \in {"requirements", "FAILED"}
      BY <1>1 DEF PrepareWorkdir
    <2> QED BY <2>1
  <1>2. CASE ReportBreaks
    BY <1>2 DEF ReportBreaks
  <1>3. CASE DownloadRequirements
    <2>1. pc = "requirements" /\ pc' \in {"assets", "FAILED"}
      BY <1>3 DEF DownloadRequirements
    <2> QED BY <2>1
  <1>4. CASE DownloadAssets
    <2>1. pc = "assets" /\ pc' \in {"refine", "FAILED"}
      BY <1>4 DEF DownloadAssets
    <2> QED BY <2>1
  <1>5. CASE BeginRefine
    <2>1. pc = "refine" /\ pc' \in {"generate", "hermes", "FAILED"}
      BY <1>5 DEF BeginRefine
    <2> QED BY <2>1
  <1>6. CASE Generate
    <2>1. pc = "generate" /\ pc' \in {"build", "FAILED"}
      BY <1>6 DEF Generate
    <2> QED BY <2>1
  <1>7. CASE Build
    <2>1. pc = "build" /\ pc' \in {"upload", "FAILED"}
      BY <1>7 DEF Build
    <2> QED BY <2>1
  <1>8. CASE Upload
    <2>1. pc = "upload" /\ pc' \in {"SUCCESS", "FAILED"}
      BY <1>8 DEF Upload
    <2> QED BY <2>1
  <1>9. CASE ReportSuccess
    BY <1>9 DEF ReportSuccess
  <1>10. CASE HandleFailure
    BY <1>10 DEF HandleFailure
  <1> QED BY <1>1, <1>2, <1>3, <1>4, <1>5, <1>6, <1>7, <1>8, <1>9, <1>10

(* Every step of process_job brings the delivery nearer to its verdict: a    *)
(* delivery has at most eight stages and a bounded number of attempts, so    *)
(* that it ends however often a tool or a service fails.                     *)
THEOREM StepsNearTheVerdict == Spec => EachStepNearsTheVerdict
  <1>1. ASSUME Typed, ProcessJob
        PROVE  Nearer
    <2>1. CASE RunHermes
      <3>1. CASE TryAgain
        BY <1>1, <2>1, <3>1, TryAgainNears DEF RunHermes, Turn
      <3>2. CASE Goto("write") /\ UNCHANGED attempt
        BY <2>1, <3>2 DEF RunHermes, Goto, Nearer, Turn
      <3> QED BY <2>1, <3>1, <3>2 DEF RunHermes
    <2>2. CASE WriteTemp
      <3>1. CASE TryAgain
        BY <1>1, <2>2, <3>1, TryAgainNears DEF WriteTemp, Turn
      <3>2. CASE Goto("replace") /\ UNCHANGED attempt
        BY <2>2, <3>2 DEF WriteTemp, Goto, Nearer, Turn
      <3> QED BY <2>2, <3>1, <3>2 DEF WriteTemp
    <2>3. CASE ReplaceOutput
      <3>1. CASE TryAgain
        BY <1>1, <2>3, <3>1, TryAgainNears DEF ReplaceOutput, Turn
      <3>2. CASE Goto("generate")
        BY <2>3, <3>2 DEF ReplaceOutput, Goto, Nearer, Stage
      <3> QED BY <2>3, <3>1, <3>2 DEF ReplaceOutput
    <2>4. CASE \/ PrepareWorkdir \/ ReportBreaks \/ DownloadRequirements
               \/ DownloadAssets \/ BeginRefine \/ Generate \/ Build \/ Upload
               \/ ReportSuccess \/ HandleFailure
      BY <1>1, <2>4, LaterStage DEF Nearer
    <2> QED BY <1>1, <2>1, <2>2, <2>3, <2>4 DEF ProcessJob
  <1>2. Typed /\ [Next]_vars => [ProcessJob => Nearer]_vars
    BY <1>1
  <1> QED BY TypedInit, TypedNext, <1>2, PTL DEF Spec, EachStepNearsTheVerdict

-----------------------------------------------------------------------------
(* Workspace implements DeliveryPhases *)

HostPhase == [w \in {"host"} |-> PhaseOf]

(* The phase of each position. *)
LEMMA PhaseValues ==
  /\ pc = "prepare" => PhaseOf = "preparing"
  /\ pc \in {"requirements", "assets"} => PhaseOf = "ANALYZING"
  /\ pc \in {"refine", "hermes", "write", "replace", "generate"}
       => PhaseOf = "GENERATING_CODE"
  /\ pc = "build" => PhaseOf = "BUILDING"
  /\ pc \in {"upload", "SUCCESS"} => PhaseOf = "finalizing"
  /\ pc = "FAILED" => PhaseOf = "failing"
  /\ pc = "down" => PhaseOf = "dead"
  /\ pc \in {"raised", "list", "sweep", "receive"} => PhaseOf = "idle"
BY DEF PhaseOf

(* The same after a step. *)
LEMMA PhaseValuesNext ==
  /\ pc' = "prepare" => PhaseOf' = "preparing"
  /\ pc' \in {"requirements", "assets"} => PhaseOf' = "ANALYZING"
  /\ pc' \in {"refine", "hermes", "write", "replace", "generate"}
       => PhaseOf' = "GENERATING_CODE"
  /\ pc' = "build" => PhaseOf' = "BUILDING"
  /\ pc' \in {"upload", "SUCCESS"} => PhaseOf' = "finalizing"
  /\ pc' = "FAILED" => PhaseOf' = "failing"
  /\ pc' = "down" => PhaseOf' = "dead"
  /\ pc' \in {"raised", "list", "sweep", "receive"} => PhaseOf' = "idle"
BY DEF PhaseOf

(* What the phase of the host may become. *)
Onward ==
  \/ PhaseOf' = PhaseOf
  \/ PhaseOf' = Phased!NextOf[PhaseOf]
  \/ PhaseOf \notin {"dead", "idle", "failing"} /\ PhaseOf' = "failing"
  \/ PhaseOf' = "dead"

(* Each way is a step of DeliveryPhases. *)
LEMMA OnwardIsAStep ==
  ASSUME Onward
  PROVE  [Phased!Next]_HostPhase
  <1>1. ASSUME NEW p, PhaseOf' = p
        PROVE  Phased!Enter("host", p)
    BY <1>1 DEF Phased!Enter
  <1>2. CASE PhaseOf' = PhaseOf
    BY <1>2 DEF HostPhase
  <1>3. CASE PhaseOf' = Phased!NextOf[PhaseOf]
    <2>1. Phased!Enter("host", Phased!NextOf[PhaseOf])
      BY <1>1, <1>3
    <2> QED BY <2>1 DEF Phased!Proceed, Phased!Next
  <1>4. CASE PhaseOf \notin {"dead", "idle", "failing"} /\ PhaseOf' = "failing"
    <2>1. Phased!Enter("host", "failing")
      BY <1>1, <1>4
    <2> QED BY <1>4, <2>1 DEF Phased!Fail, Phased!Next
  <1>5. CASE PhaseOf' = "dead" /\ PhaseOf # "dead"
    <2>1. Phased!Enter("host", "dead")
      BY <1>1, <1>5
    <2> QED BY <1>5, <2>1 DEF Phased!Die, Phased!Next
  <1> QED BY <1>2, <1>3, <1>4, <1>5 DEF Onward

(* Every step of process_job stays in its phase, goes on to the next or to   *)
(* the report of the failure.                                                *)
LEMMA ProcessPhases ==
  ASSUME ProcessJob
  PROVE  Onward
  <1> USE PhaseValues, PhaseValuesNext DEF Onward, Goto, Raise, Phased!NextOf
  <1>1. CASE PrepareWorkdir
    <2>1. pc = "prepare" /\ pc' \in {"requirements", "FAILED"}
      BY <1>1 DEF PrepareWorkdir
    <2> QED BY <2>1
  <1>2. CASE ReportBreaks
    BY <1>2 DEF ReportBreaks
  <1>3. CASE DownloadRequirements
    <2>1. pc = "requirements" /\ pc' \in {"assets", "FAILED"}
      BY <1>3 DEF DownloadRequirements
    <2> QED BY <2>1
  <1>4. CASE DownloadAssets
    <2>1. pc = "assets" /\ pc' \in {"refine", "FAILED"}
      BY <1>4 DEF DownloadAssets
    <2> QED BY <2>1
  <1>5. CASE BeginRefine
    <2>1. pc = "refine" /\ pc' \in {"generate", "hermes", "FAILED"}
      BY <1>5 DEF BeginRefine
    <2> QED BY <2>1
  <1>6. CASE RunHermes \/ WriteTemp \/ ReplaceOutput
    <2>1. /\ pc \in {"hermes", "write", "replace"}
          /\ pc' \in {"hermes", "write", "replace", "generate"}
      BY <1>6 DEF RunHermes, WriteTemp, ReplaceOutput, TryAgain
    <2> QED BY <2>1
  <1>7. CASE Generate
    <2>1. pc = "generate" /\ pc' \in {"build", "FAILED"}
      BY <1>7 DEF Generate
    <2> QED BY <2>1
  <1>8. CASE Build
    <2>1. pc = "build" /\ pc' \in {"upload", "FAILED"}
      BY <1>8 DEF Build
    <2> QED BY <2>1
  <1>9. CASE Upload
    <2>1. pc = "upload" /\ pc' \in {"SUCCESS", "FAILED"}
      BY <1>9 DEF Upload
    <2> QED BY <2>1
  <1>10. CASE ReportSuccess \/ HandleFailure
    <2>1. /\ pc \in {"SUCCESS", "FAILED"}
          /\ pc' \in {"FAILED", "list"} /\ (pc = "FAILED" => pc' = "list")
      BY <1>10 DEF ReportSuccess, HandleFailure
    <2> QED BY <2>1
  <1> QED BY <1>1, <1>2, <1>3, <1>4, <1>5, <1>6, <1>7, <1>8, <1>9, <1>10
          DEF ProcessJob

(* Of the steps of the loop only a receive opens a phase, and only the end   *)
(* of the process closes one.                                                *)
LEMMA LoopPhases ==
  ASSUME Loops
  PROVE  Onward
  <1> USE PhaseValues, PhaseValuesNext DEF Onward
  <1>1. CASE ListChildren \/ SweepRaises \/ SweepEnds \/ ReceiveNothing
    <2>1. {pc, pc'} \subseteq {"raised", "list", "sweep", "receive"}
      BY <1>1 DEF ListChildren, SweepRaises, SweepEnds, ReceiveNothing
    <2> QED BY <2>1
  <1>2. CASE Start
    <2>1. pc = "down" /\ pc' = "list"
      BY <1>2 DEF Start
    <2> QED BY <2>1 DEF Phased!NextOf
  <1>3. CASE Exit \/ Crash
    <2>1. pc' = "down"
      BY <1>3 DEF Exit, Crash
    <2> QED BY <2>1
  <1>4. ASSUME NEW j \in Jobs, ReceiveMessage(j)
        PROVE  Onward
    <2>1. pc = "receive" /\ pc' = "prepare"
      BY <1>4 DEF ReceiveMessage
    <2> QED BY <2>1 DEF Phased!NextOf
  <1>5. ASSUME NEW j \in Jobs, SweepChild(j) \/ Age(j)
        PROVE  Onward
    <2>1. pc' = pc
      BY <1>5 DEF SweepChild, Age
    <2> QED BY <2>1 DEF PhaseOf
  <1> QED BY <1>1, <1>2, <1>3, <1>4, <1>5 DEF Loops

(* The host goes through the phases of DeliveryPhases, whatever its disk and *)
(* its tools do to the delivery, to exactly one verdict unless its process   *)
(* dies.                                                                     *)
THEOREM PhasesInOrder == Spec => KeepsPhases
  <1>1. Init => Phased!Init
    <2> SUFFICES ASSUME Init PROVE Phased!Init
      OBVIOUS
    <2>1. PhaseOf = "dead"
      BY PhaseValues DEF Init
    <2> QED BY <2>1 DEF Phased!Init
  <1>2. [Next]_vars => [Phased!Next]_HostPhase
    <2> SUFFICES ASSUME [Next]_vars PROVE [Phased!Next]_HostPhase
      OBVIOUS
    <2>1. CASE Next
      BY <2>1, ProcessPhases, LoopPhases, OnwardIsAStep DEF Next
    <2>2. CASE UNCHANGED vars
      <3>1. PhaseOf' = PhaseOf
        BY <2>2 DEF PhaseOf
      <3> QED BY <3>1, OnwardIsAStep DEF Onward
    <2> QED BY <2>1, <2>2
  <1> QED BY <1>1, <1>2, PTL DEF Spec, KeepsPhases, Phased!Spec, HostPhase
=============================================================================
