----------------------------- MODULE ErrorCodes -----------------------------
(***************************************************************************)
(* The exceptions that can leave the parts of a delivery, and the error    *)
(* code that classify_error (src/models/exceptions.py) gives each.         *)
(***************************************************************************)

(* ErrorCode. *)
ErrorCodes ==
  {"REQUIREMENTS_READ_FAILED", "INVALID_REQUIREMENTS", "AI_GENERATION_FAILED",
   "BUILD_FAILED", "ARTIFACT_UPLOAD_FAILED", "INTERNAL_ERROR"}

(* The subclasses of WorkerError and the code each of them carries. *)
CodeOf ==
  [RequirementsReadError    |-> "REQUIREMENTS_READ_FAILED",
   InvalidRequirementsError |-> "INVALID_REQUIREMENTS",
   AIGenerationError        |-> "AI_GENERATION_FAILED",
   BuildError               |-> "BUILD_FAILED",
   ArtifactUploadError      |-> "ARTIFACT_UPLOAD_FAILED",
   StatusApiFailure         |-> "INTERNAL_ERROR"]

WorkerErrors == DOMAIN CodeOf

(* What reaches process_job from the library without being wrapped.          *)
(* "zlib.error" stands for what testzip lets through: zlib.error, EOFError,  *)
(* RuntimeError and NotImplementedError.                                     *)
ForeignErrors ==
  {"OSError", "UnicodeDecodeError", "RecursionError", "ValueError",
   "zlib.error", "RequestException"}

ExceptionTypes == WorkerErrors \cup ForeignErrors

ClassifyError(exc) ==
  IF exc \in WorkerErrors THEN CodeOf[exc] ELSE "INTERNAL_ERROR"

(* What leaves build_apk; ApkBuilder shows that nothing else does. *)
BuildExceptions == {"BuildError", "OSError", "UnicodeDecodeError", "zlib.error"}
=============================================================================
