------------------------------ MODULE Workspace ------------------------------
(***************************************************************************)
(* The work directory of one host, and the one Worker that uses it: the    *)
(* cleanup of old Job directories (src/utils/cleanup.py), and for each     *)
(* delivery the files that its phases write and read, from prepare_workdir *)
(* to the upload of the APK.  A directory outlives its delivery, and a     *)
(* crash leaves it as it is.                                               *)
(*                                                                         *)
(* pc is named after the call that comes next.  What a file holds is the   *)
(* set of writings that went into it: whose, and whether to the end.       *)
(***************************************************************************)
EXTENDS ErrorCodes, Naturals

CONSTANTS
  Jobs,              \* the Jobs this host is given
  Uploads,           \* the kinds of requirements.json the clients store
  HermesMaxAttempts, \* HERMES_MAX_ATTEMPTS
  MaxDeliveries,     \* bound: deliveries this host receives
  MaxCrashes         \* bound: processes that die between two steps

(* Bug: the top level may be anything. *)
AnyTopLevel ==
  [fine |-> "none", large |-> "InvalidRequirementsError",
   notUtf8 |-> "RequirementsReadError", notJson |-> "InvalidRequirementsError",
   tooDeep |-> "RecursionError", longNumber |-> "ValueError",
   notObject |-> "none"]

(* The documents a client can store, by what download_requirements raises.  *)
DocumentErrors ==
  [fine |-> "none", large |-> "InvalidRequirementsError",
   notUtf8 |-> "RequirementsReadError", notJson |-> "InvalidRequirementsError",
   tooDeep |-> "RecursionError", longNumber |-> "ValueError",
   notObject |-> "InvalidRequirementsError"]

(* Those that BR-019 asks to refuse. *)
Unacceptable == {"large", "notUtf8", "notJson", "notObject"}

ASSUME BoundsAssumption ==
  /\ Uploads \subseteq DOMAIN DocumentErrors
  /\ HermesMaxAttempts \in Nat \ {0}
  /\ MaxDeliveries \in Nat /\ MaxCrashes \in Nat

VARIABLES
  pc,
  \* the disk
  dirs,      \* the Jobs that have a directory
  tree,      \* tree[j][p]: the writings that part p of j's directory holds
  old,       \* the directories not modified for cleanup_hours
  \* cleanup_old_workdirs
  listed,    \* children the loop has still to look at
  due,       \* those that were old at the cutoff
  missed,    \* history: those it warned about and left
  \* the delivery in hand
  job, delivery, attempt,
  document,  \* the kind of requirements.json that was downloaded
  refined,   \* refine returned a path
  exc,       \* the exception being handled
  \* history of the delivery
  reads,     \* the writings its tools and its upload have read
  product,   \* the writings of the APK it has stored
  verdict,   \* how it ended
  crashes

disk  == <<dirs, tree, old>>
sweep == <<listed, due, missed>>
hist  == <<reads, product, verdict, crashes>>
vars == <<pc, disk, sweep, job, delivery, attempt, document, refined, exc, hist>>

Deliveries == 1..MaxDeliveries
Writings == [by : Deliveries, whole : BOOLEAN]

(* JobWorkDir; "inputs" are requirements.json and the assets, "temp" is what *)
(* _write_atomic or a download has not renamed.                             *)
Parts == {"inputs", "refined", "temp", "project", "apk"}
Empty == [p \in Parts |-> {}]

Loop == {"down", "raised", "list", "sweep", "receive"}
Phases == {"requirements", "assets", "refine", "hermes", "write", "replace",
           "generate", "build", "upload", "SUCCESS"}
Delivering == Phases \cup {"prepare", "FAILED"}

Verdicts == ErrorCodes \cup {"none", "lost", "SUCCESS"}

TypeOK ==
  /\ pc \in Loop \cup Delivering
  /\ dirs \subseteq Jobs /\ tree \in [Jobs -> [Parts -> SUBSET Writings]]
  /\ \A j \in Jobs \ dirs : tree[j] = Empty
  /\ old \subseteq dirs
  /\ listed \subseteq Jobs /\ due \subseteq Jobs /\ missed \subseteq Jobs
  /\ job \in Jobs
  /\ delivery \in 0..MaxDeliveries
  /\ (pc \in Delivering) => delivery \in Deliveries
  /\ attempt \in 1..HermesMaxAttempts
  /\ document \in Uploads \cup {"none"}
  /\ refined \in BOOLEAN
  /\ exc \in ExceptionTypes \cup {"none"}
  /\ reads \subseteq Writings /\ product \subseteq Writings
  /\ verdict \in Verdicts
  /\ crashes \in 0..MaxCrashes

Init ==
  /\ pc = "down"
  /\ dirs = {} /\ tree = [j \in Jobs |-> Empty] /\ old = {}
  /\ listed = {} /\ due = {} /\ missed = {}
  /\ job \in Jobs /\ delivery = 0 /\ attempt = 1
  /\ document = "none" /\ refined = FALSE /\ exc = "none"
  /\ reads = {} /\ product = {} /\ verdict = "none" /\ crashes = 0

Own(whole) == [by |-> delivery, whole |-> whole]

(* The parts of j that hold something, and what is left of j without some. *)
Held(j) == {p \in Parts : tree[j][p] # {}}

(* An rmtree that does not get to its end; it has changed the directory if  *)
(* anything is gone.                                                        *)
RemovePart(j) ==
  /\ j \in dirs
  /\ \E gone \in SUBSET Held(j) :
       /\ tree' = [tree EXCEPT ![j] = [p \in Parts |->
                     IF p \in gone THEN {} ELSE @[p]]]
       /\ old' = IF gone = {} THEN old ELSE old \ {j}
  /\ UNCHANGED dirs

RemoveAll(j) ==
  /\ dirs' = dirs \ {j} /\ old' = old \ {j}
  /\ tree' = [tree EXCEPT ![j] = Empty]

(* Part p of the Job's directory now holds these writings. *)
Store(p, writings) ==
  /\ tree' = [tree EXCEPT ![job][p] = writings]
  /\ old' = old \ {job} /\ UNCHANGED dirs

Add(p, whole) == Store(p, tree[job][p] \cup {Own(whole)})

-----------------------------------------------------------------------------
(* The loop: WorkerOrchestrator.run, cleanup_old_workdirs *)

Start ==
  /\ pc = "down" /\ pc' = "list"
  /\ UNCHANGED <<disk, sweep, job, delivery, attempt, document, refined, exc, hist>>

(* main logs what leaves run() and exits with 1; a shutdown that was          *)
(* requested ends the loop; the service is started again.                   *)
Exit ==
  /\ pc \in {"raised", "list"} /\ pc' = "down"
  /\ UNCHANGED <<disk, sweep, job, delivery, attempt, document, refined, exc, hist>>

(* is_dir of the root may raise; iterdir may fail, which is absorbed. *)
ListChildren ==
  /\ pc = "list"
  /\ due' = old
  /\ \/ pc' = "sweep" /\ listed' = dirs /\ missed' = {}
     \/ pc' = "receive" /\ listed' = {} /\ missed' = old
     \/ pc' = "raised" /\ listed' = {} /\ missed' = old
  /\ UNCHANGED <<disk, job, delivery, attempt, document, refined, exc, hist>>

(* Bug: a directory that cannot be removed ends the loop. *)
SweepUpToFailure(j) ==
  /\ pc = "sweep" /\ j \in listed
  /\ \/ listed' = listed \ {j} /\ j \notin due /\ UNCHANGED <<disk, missed>>
     \/ listed' = listed \ {j} /\ j \in due /\ RemoveAll(j) /\ UNCHANGED missed
     \/ /\ j \in due /\ RemovePart(j)
        /\ missed' = missed \cup {j} /\ listed' = {}
  /\ UNCHANGED <<pc, due, job, delivery, attempt, document, refined, exc, hist>>

(* Bug: the age is not looked at. *)
SweepAnyAge(j) ==
  /\ pc = "sweep" /\ j \in listed
  /\ listed' = listed \ {j}
  /\ RemoveAll(j)
  /\ UNCHANGED <<pc, due, missed, job, delivery, attempt, document, refined, exc, hist>>

(* One child: kept if it is younger than the cutoff or cannot be looked at,  *)
(* removed otherwise; what resists is left and the loop goes on.             *)
SweepChild(j) ==
  /\ pc = "sweep" /\ j \in listed
  /\ listed' = listed \ {j}
  /\ \/ j \notin due /\ UNCHANGED <<disk, missed>>
     \/ missed' = missed \cup {j} /\ UNCHANGED disk
     \/ j \in due /\ RemoveAll(j) /\ UNCHANGED missed
     \/ j \in due /\ RemovePart(j) /\ missed' = missed \cup {j}
  /\ UNCHANGED <<pc, due, job, delivery, attempt, document, refined, exc, hist>>

(* Outside the try: is_dir of a child, and exists of one after its removal,  *)
(* which ignores errors and may have stopped half way.                      *)
SweepRaises ==
  /\ pc = "sweep" /\ listed # {} /\ pc' = "raised"
  /\ \/ UNCHANGED disk
     \/ \E j \in listed \cap due : RemovePart(j) \/ RemoveAll(j)
  /\ UNCHANGED <<sweep, job, delivery, attempt, document, refined, exc, hist>>

SweepEnds ==
  /\ pc = "sweep" /\ listed = {} /\ pc' = "receive"
  /\ UNCHANGED <<disk, sweep, job, delivery, attempt, document, refined, exc, hist>>

ReceiveNothing ==
  /\ pc = "receive" /\ pc' = "list"
  /\ due' = {} /\ missed' = {}
  /\ UNCHANGED <<disk, listed, job, delivery, attempt, document, refined, exc, hist>>

ReceiveMessage(j) ==
  /\ pc = "receive" /\ delivery < MaxDeliveries
  /\ pc' = "prepare" /\ job' = j /\ delivery' = delivery + 1
  /\ document' = "none" /\ product' = {} /\ verdict' = "none"
  /\ due' = {} /\ missed' = {}
  /\ UNCHANGED <<disk, listed, attempt, refined, exc, reads, crashes>>

-----------------------------------------------------------------------------
(* One delivery: process_job *)

(* Bug: the except of process_job logs the exception and returns. *)
RaiseUnreported(e) == pc' = "list" /\ exc' = e

Raise(e) == pc' = "FAILED" /\ exc' = e
Goto(p) == pc' = p /\ UNCHANGED exc

(* Bug: the directory of an earlier delivery is used as it is. *)
PrepareOnTop ==
  /\ pc = "prepare"
  /\ \/ /\ Goto("requirements")
        /\ dirs' = dirs \cup {job} /\ old' = old \ {job} /\ UNCHANGED tree
     \/ Raise("OSError") /\ UNCHANGED disk
  /\ UNCHANGED <<sweep, job, delivery, attempt, document, refined, hist>>

(* Bug: rmtree with ignore_errors, as in the cleanup. *)
PrepareIgnoringErrors ==
  /\ pc = "prepare"
  /\ Goto("requirements")
  /\ \/ /\ dirs' = dirs \cup {job} /\ old' = old \ {job}
        /\ tree' = [tree EXCEPT ![job] = Empty]
     \/ RemovePart(job)
  /\ UNCHANGED <<sweep, job, delivery, attempt, document, refined, hist>>

(* prepare_workdir: rmtree may stop half way, mkdir may fail. *)
PrepareWorkdir ==
  /\ pc = "prepare"
  /\ \/ /\ Goto("requirements")
        /\ dirs' = dirs \cup {job} /\ old' = old \ {job}
        /\ tree' = [tree EXCEPT ![job] = Empty]
     \/ Raise("OSError") /\ RemoveAll(job)
     \/ Raise("OSError") /\ RemovePart(job)
     \/ Raise("OSError") /\ UNCHANGED disk
  /\ UNCHANGED <<sweep, job, delivery, attempt, document, refined, hist>>

(* An intermediate report whose answer the client does not know the         *)
(* exception of; all its other failures are absorbed.                       *)
ReportBreaks ==
  /\ pc \in {"requirements", "refine", "build"}
  /\ Raise("RequestException")
  /\ UNCHANGED <<disk, sweep, job, delivery, attempt, document, refined, hist>>

(* The download, the look at the file's size and its reading may fail, then  *)
(* the document is judged by its content.                                    *)
DownloadRequirements ==
  /\ pc = "requirements"
  /\ \/ /\ Raise("OSError") \/ Raise("RequirementsReadError")
        /\ UNCHANGED <<disk, document>>
     \/ /\ Raise("RequirementsReadError") /\ UNCHANGED document
        /\ Add("inputs", TRUE)
     \/ \E d \in Uploads :
          /\ Add("inputs", TRUE) /\ document' = d
          /\ IF DocumentErrors[d] = "none" THEN Goto("assets")
             ELSE Raise(DocumentErrors[d])
  /\ UNCHANGED <<sweep, job, delivery, attempt, refined, hist>>

(* download_assets: S3Transfer has its inside. *)
DownloadAssets ==
  /\ pc = "assets"
  /\ \/ Raise("OSError") /\ UNCHANGED disk
     \/ Goto("refine") /\ UNCHANGED disk
     \/ Goto("refine") /\ Add("inputs", TRUE)
  /\ UNCHANGED <<sweep, job, delivery, attempt, document, refined, hist>>

(* refine: the input is read before the earlier output is unlinked, which   *)
(* is outside any try.                                                      *)
BeginRefine ==
  /\ pc = "refine"
  /\ \/ Goto("generate") /\ UNCHANGED <<disk, reads>>
     \/ /\ reads' = reads \cup tree[job]["inputs"]
        /\ \/ Goto("hermes") /\ Store("refined", {})
           \/ Raise("OSError") /\ UNCHANGED disk
  /\ UNCHANGED <<sweep, job, delivery, attempt, document, refined, product,
                 verdict, crashes>>

(* Bug: one attempt more than there are. *)
TryOnceMore ==
  IF attempt <= HermesMaxAttempts
  THEN attempt' = attempt + 1 /\ Goto("hermes")
  ELSE UNCHANGED attempt /\ Goto("generate")

TryAgain ==
  IF attempt < HermesMaxAttempts
  THEN attempt' = attempt + 1 /\ Goto("hermes")
  ELSE UNCHANGED attempt /\ Goto("generate")

(* A run that cannot start, fails, or whose output is rejected is repeated. *)
RunHermes ==
  /\ pc = "hermes"
  /\ TryAgain \/ (Goto("write") /\ UNCHANGED attempt)
  /\ UNCHANGED <<disk, sweep, job, delivery, document, refined, hist>>

(* Bug: the output is written where it belongs. *)
WriteInPlace ==
  /\ pc = "write"
  /\ \/ Store("refined", {Own(TRUE)}) /\ Goto("replace") /\ UNCHANGED attempt
     \/ Store("refined", {Own(FALSE)}) /\ TryAgain
  /\ UNCHANGED <<sweep, job, delivery, document, refined, hist>>

(* _write_atomic up to the end of the with: a write that fails leaves the   *)
(* temporary file, whose path is not yet known to the finally.              *)
WriteTemp ==
  /\ pc = "write"
  /\ \/ Add("temp", TRUE) /\ Goto("replace") /\ UNCHANGED attempt
     \/ UNCHANGED disk /\ TryAgain
     \/ Add("temp", FALSE) /\ TryAgain
  /\ UNCHANGED <<sweep, job, delivery, document, refined, hist>>

(* os.replace, and in the finally the look at what it has not moved away     *)
(* and its unlink, which may raise even after a replace that went well; a   *)
(* temporary file that an earlier attempt has left stays.                   *)
ReplaceOutput ==
  /\ pc = "replace"
  /\ \/ /\ \E rest \in {tree[job]["temp"], tree[job]["temp"] \ {Own(TRUE)}} :
             /\ rest = tree[job]["temp"] => attempt > 1
             /\ tree' = [tree EXCEPT ![job]["refined"] = {Own(TRUE)},
                                     ![job]["temp"] = rest]
        /\ old' = old \ {job} /\ UNCHANGED dirs
        /\ \/ refined' = TRUE /\ Goto("generate") /\ UNCHANGED attempt
           \/ TryAgain /\ UNCHANGED refined
     \/ Store("temp", tree[job]["temp"] \ {Own(TRUE)}) /\ TryAgain /\ UNCHANGED refined
     \/ UNCHANGED disk /\ TryAgain /\ UNCHANGED refined
  /\ UNCHANGED <<sweep, job, delivery, document, hist>>

(* generate_code: what the generator leaves, and the marker that is looked   *)
(* for when it exits with 0.                                                *)
Generate ==
  /\ pc = "generate"
  /\ \/ /\ Raise("AIGenerationError") \/ Raise("OSError")
        /\ UNCHANGED <<disk, reads>>
     \/ /\ reads' = reads \cup tree[job]["inputs"]
                      \cup (IF refined THEN tree[job]["refined"] ELSE {})
        /\ \/ Raise("AIGenerationError") /\ UNCHANGED disk
           \/ /\ Raise("AIGenerationError") \/ Raise("UnicodeDecodeError")
              /\ \E whole \in BOOLEAN : Add("project", whole)
           \/ Goto("build") /\ Add("project", TRUE)
  /\ UNCHANGED <<sweep, job, delivery, attempt, document, refined, product,
                 verdict, crashes>>

(* build_apk: ApkBuilder has its inside.  Any file of the project may be the *)
(* APK; a copy that fails leaves a part of it.                              *)
Build ==
  /\ pc = "build"
  /\ reads' = reads \cup tree[job]["project"]
  /\ \/ \E e \in BuildExceptions :
          Raise(e) /\ (UNCHANGED disk \/ Add("project", FALSE))
     \/ Raise("OSError") /\ Store("apk", {Own(FALSE)})
     \/ \E w \in tree[job]["project"] : Goto("upload") /\ Store("apk", {w})
  /\ UNCHANGED <<sweep, job, delivery, attempt, document, refined, product,
                 verdict, crashes>>

(* Bug: the APK is uploaded as best-effort as the source. *)
UploadBestEffort ==
  /\ pc = "upload"
  /\ Goto("SUCCESS")
  /\ product' \in {product, tree[job]["apk"]}
  /\ reads' = reads \cup product'
  /\ UNCHANGED <<disk, sweep, job, delivery, attempt, document, refined,
                 verdict, crashes>>

(* upload_source, best effort but for its first look at the project, and     *)
(* upload_artifact: the object may be written by an upload that raises, and *)
(* its verification may fail.                                               *)
Upload ==
  /\ pc = "upload"
  /\ \/ /\ Raise("OSError") \/ Raise("ArtifactUploadError")
        /\ product' \in {product, tree[job]["apk"]}
     \/ Goto("SUCCESS") /\ product' = tree[job]["apk"]
  /\ reads' = reads \cup product'
  /\ UNCHANGED <<disk, sweep, job, delivery, attempt, document, refined,
                 verdict, crashes>>

(* What the delivery has kept in its locals is gone. *)
Return == attempt' = 1 /\ refined' = FALSE /\ reads' = {}

(* _report_success; the message is deleted or not, the loop goes on. *)
ReportSuccess ==
  /\ pc = "SUCCESS"
  /\ \/ /\ Raise("StatusApiFailure") \/ Raise("RequestException")
        /\ UNCHANGED <<attempt, refined, reads, verdict>>
     \/ Goto("list") /\ Return /\ verdict' = "SUCCESS"
  /\ UNCHANGED <<disk, sweep, job, delivery, document, product, crashes>>

(* _handle_failure: the FAILED report itself is best effort. *)
HandleFailure ==
  /\ pc = "FAILED"
  /\ verdict' = ClassifyError(exc)
  /\ pc' = "list" /\ exc' = "none" /\ Return
  /\ UNCHANGED <<disk, sweep, job, delivery, document, product, crashes>>

ProcessJob ==
  \/ PrepareWorkdir \/ ReportBreaks \/ DownloadRequirements \/ DownloadAssets
  \/ BeginRefine \/ RunHermes \/ WriteTemp \/ ReplaceOutput \/ Generate
  \/ Build \/ Upload \/ ReportSuccess \/ HandleFailure

-----------------------------------------------------------------------------
(* The host *)

(* What a step writes that a crash may cut short; systemd kills the tools    *)
(* with the Worker (KillMode=mixed) before it starts another.               *)
Torn ==
  [requirements |-> {"temp"}, assets |-> {"temp"}, write |-> {"temp"},
   generate |-> {"project"}, build |-> {"project", "apk"}]

Crash ==
  /\ pc \notin {"down", "raised"} /\ crashes < MaxCrashes
  /\ crashes' = crashes + 1
  /\ pc' = "down" /\ exc' = "none" /\ Return
  /\ verdict' = IF pc \in Delivering THEN "lost" ELSE verdict
  /\ \/ UNCHANGED <<disk, product>>
     \/ pc = "sweep" /\ UNCHANGED product /\ \E j \in listed \cap due : RemovePart(j)
     \/ pc = "prepare" /\ UNCHANGED product /\ RemovePart(job)
     \/ /\ pc \in DOMAIN Torn /\ UNCHANGED product
        /\ \E p \in Torn[pc] : Add(p, FALSE)
     \/ pc = "upload" /\ UNCHANGED disk /\ product' = tree[job]["apk"]
  /\ listed' = {} /\ due' = {} /\ missed' = {}
  /\ UNCHANGED <<job, delivery, document>>

(* Hours pass without a change to j's directory. *)
Age(j) ==
  /\ j \in dirs \ old /\ old' = old \cup {j}
  /\ UNCHANGED <<pc, dirs, tree, sweep, job, delivery, attempt, document,
                 refined, exc, hist>>

Loops ==
  \/ Start \/ Exit \/ ListChildren \/ SweepRaises \/ SweepEnds
  \/ ReceiveNothing \/ Crash
  \/ \E j \in Jobs : SweepChild(j) \/ ReceiveMessage(j) \/ Age(j)

Next == Loops \/ ProcessJob

Spec == Init /\ [][Next]_vars

-----------------------------------------------------------------------------
(* Properties *)

(* BR-001, BR-024: whatever earlier deliveries of the Job, their crashes and *)
(* half-finished removals have left, no phase finds any of it.              *)
NothingStale ==
  (pc \in Phases) => \A p \in Parts : \A w \in tree[job][p] : w.by = delivery

(* What hermes, kiro-cli and Gradle are given and what is uploaded was       *)
(* written by this delivery, and to its end.                                *)
ToolsReadWhole == reads \subseteq {Own(TRUE)}

(* _write_atomic: no partial refined prompt is ever seen, not by the         *)
(* generator and not by who looks into the directory after a crash.         *)
PromptNeverTorn == \A j \in Jobs : \A w \in tree[j]["refined"] : w.whole

(* When a sweep hands over to the poll, every directory that was old when it *)
(* began is gone or was warned about: one that resists does not shield      *)
(* others.                                                                  *)
SweepIsThorough == (pc = "receive") => (due \cap dirs) \subseteq missed

(* The error code blames the right party: the Client only for a document     *)
(* that BR-019 refuses, and a later phase, an artifact or a SUCCESS only    *)
(* where the document was accepted.                                         *)
VerdictIsFair ==
  /\ (verdict = "INVALID_REQUIREMENTS") => document \in Unacceptable
  /\ (verdict \in {"AI_GENERATION_FAILED", "BUILD_FAILED", "ARTIFACT_UPLOAD_FAILED",
                   "SUCCESS"} \/ product # {}) => document = "fine"

(* The files of a Job that is not in hand are touched only by a sweep that   *)
(* found them old (BR-025).                                                 *)
OthersAreKept ==
  [][\A j \in Jobs : (tree'[j] # tree[j]) =>
        \/ j = job /\ pc \in Delivering
        \/ j \in due /\ pc = "sweep"]_vars

Clean == INSTANCE CleanDelivery WITH
           state <- IF pc \in Delivering THEN "working" ELSE verdict

(* What a host does to its disk, through crashes and restarts, is hidden     *)
(* from what it stores and reports: CleanDelivery.                          *)
KeepsClean == Clean!Spec

Stage ==
  [prepare |-> 10, requirements |-> 9, assets |-> 8, refine |-> 7, hermes |-> 6,
   write |-> 6, replace |-> 6, generate |-> 5, build |-> 4, upload |-> 3,
   SUCCESS |-> 2, FAILED |-> 1, list |-> 0]

Turn == [hermes |-> 2, write |-> 1, replace |-> 0]

(* A step to a later stage; inside refine, to a later attempt or to a later  *)
(* part of the same attempt.                                                *)
Nearer ==
  \/ Stage[pc'] < Stage[pc]
  \/ /\ {pc, pc'} \subseteq DOMAIN Turn
     /\ \/ attempt' \in (attempt + 1)..HermesMaxAttempts
        \/ attempt' = attempt /\ Turn[pc'] < Turn[pc]

(* Whatever the disk, the tools and the services do, every step of a         *)
(* delivery brings it nearer to its verdict: no failure, not even one in    *)
(* the middle of the refinement, leads back.                                *)
EachStepNearsTheVerdict == [][ProcessJob => Nearer]_vars

PhaseOf ==
  CASE pc = "prepare"                                        -> "preparing"
    [] pc \in {"requirements", "assets"}                     -> "ANALYZING"
    [] pc \in {"refine", "hermes", "write", "replace", "generate"}
                                                             -> "GENERATING_CODE"
    [] pc = "build"                                          -> "BUILDING"
    [] pc \in {"upload", "SUCCESS"}                          -> "finalizing"
    [] pc = "FAILED"                                         -> "failing"
    [] pc = "down"                                           -> "dead"
    [] pc \in {"raised", "list", "sweep", "receive"}         -> "idle"

Phased == INSTANCE DeliveryPhases WITH
            Workers <- {"host"}, phase <- [w \in {"host"} |-> PhaseOf]

(* The host goes through the same phases as the Worker of Orchestrator, in   *)
(* the same order and to exactly one verdict unless its process dies: both  *)
(* implement DeliveryPhases.                                                *)
KeepsPhases == Phased!Spec

(* BR-019: content validation failures map to INVALID_REQUIREMENTS.  A       *)
(* document that is not UTF-8 is left to the docstring of                   *)
(* download_requirements, which calls it a read failure.                    *)
ContentFailureIsCoded ==
  (pc = "list" /\ document \notin {"none", "fine", "notUtf8"}) =>
    verdict \in {"INVALID_REQUIREMENTS", "lost"}
=============================================================================
