----------------------------- MODULE ApkBuilder -----------------------------
(***************************************************************************)
(* One call of ApkBuilder.build_apk (src/build/builder.py) on a generated  *)
(* project in whatever condition: the Gradle wrapper it trusts or makes,   *)
(* the build, and the APK it takes out of the project.                     *)
(***************************************************************************)
EXTENDS ErrorCodes, Naturals

CONSTANTS
  Specs,        \* what an official distribution URL names: version and type
  NoSpec,       \* what _read_wrapper_spec returns of anything else
  WorkerSpec,   \* what the Worker's own Gradle writes when not told a version
  MaxShipped    \* bound: modification times of the APKs the generator left

ASSUME SpecsAssumption == NoSpec \notin Specs /\ WorkerSpec \in Specs
ASSUME ShippedAssumption == MaxShipped \in Nat

VARIABLES
  pc,        \* the step of build_apk that comes next
  wrapper,   \* the wrapper in the project
  asked,     \* wrapper_spec, as passed to _generate_wrapper
  made,      \* the wrapper gradle made in the temporary directory
  apks,      \* the APKs that the search patterns match
  taken,     \* the APK that _locate_apk returned, if it has
  ran,       \* history: the wrapper that ran assembleDebug, if one has
  declared,  \* history: the official Gradle the project came with
  exc        \* the exception that left build_apk

vars == <<pc, wrapper, asked, made, apks, taken, ran, declared, exc>>

(* A file is "fit" if the validation accepts it.  Something that copy2       *)
(* writes through or into (a link, a directory) is "blocked"; it stays what  *)
(* it is.  A "garbled" JAR has a readable index and a deflate stream that    *)
(* does not decompress.                                                      *)
Scripts == {"fit", "unfit", "blocked"}
Jars    == {"fit", "unfit", "blocked", "garbled"}
Wrappers == [script : Scripts, jar : Jars, spec : Specs \cup {NoSpec},
             specBlocked : BOOLEAN]

(* APK_SEARCH_PATTERNS: app/, then any module, then any depth.  An APK is    *)
(* named by the first pattern that matches it and its modification time;     *)
(* what the build writes is newer than all that was there.                   *)
Patterns == 1..3
Now == MaxShipped + 1
Apks == [pattern : Patterns, mtime : 1..Now]
IsBuilt(a) == a.mtime = Now

None == "none"
Steps == {"check", "validate", "generate", "install", "revalidate", "build",
          "locate", "copy", "done", "failed"}

TypeOK ==
  /\ pc \in Steps
  /\ wrapper \in Wrappers
  /\ asked \in Specs \cup {NoSpec}
  /\ made \in Wrappers
  /\ apks \subseteq Apks
  /\ taken \subseteq Apks
  /\ ran \subseteq Wrappers
  /\ declared \in Specs \cup {NoSpec}
  /\ exc \in BuildExceptions \cup {None}
  /\ (pc = "failed") <=> (exc # None)

(* Any project: kiro-cli may leave any files, asked for or not. *)
Init ==
  /\ pc = "check"
  /\ wrapper \in {x \in Wrappers : x.specBlocked => x.spec = NoSpec}
  /\ asked = NoSpec /\ made = wrapper
  /\ apks \in {s \in SUBSET Apks : \A a \in s : ~ IsBuilt(a)}
  /\ taken = {} /\ ran = {}
  /\ declared = wrapper.spec
  /\ exc = None

Goto(p) == pc' = p /\ UNCHANGED exc

(* Bug: the failure is logged and forgotten. *)
RaiseNothing(e) == pc' = "failed" /\ UNCHANGED exc

Raise(e) == pc' = "failed" /\ exc' = e

-----------------------------------------------------------------------------
CheckProject ==
  /\ pc = "check"
  /\ Goto("validate") \/ Raise("BuildError") \/ Raise("OSError")
  /\ UNCHANGED <<wrapper, asked, made, apks, taken, ran, declared>>

(* _wrapper_is_valid: the script is looked at before the JAR is read.  The   *)
(* is_file of each of the three files, before any try, may raise OSError.   *)
Valid(w) == w.script = "fit" /\ w.jar = "fit"
ValidationRaises(w) == w.script = "fit" /\ w.jar = "garbled"

(* _ensure_wrapper: use what is there, or regenerate it. *)
Validate ==
  /\ pc = "validate"
  /\ \/ Valid(wrapper) /\ wrapper.spec # NoSpec /\ Goto("build")
     \/ ValidationRaises(wrapper) /\ Raise("zlib.error")
     \/ Raise("OSError")
     \/ /\ ~ ValidationRaises(wrapper)
        /\ ~ (Valid(wrapper) /\ wrapper.spec # NoSpec)
        /\ Goto("generate")
  /\ asked' = wrapper.spec
  /\ UNCHANGED <<wrapper, made, apks, taken, ran, declared>>

(* Bug: the version is not passed on. *)
AnyVersion(spec) == WorkerSpec

(* gradle wrapper writes the version it was told, or its own. *)
VersionFor(spec) == IF spec = NoSpec THEN WorkerSpec ELSE spec

(* gradle wrapper in the temporary directory: fails, prints what is not     *)
(* UTF-8, or leaves its artifacts, of which some may be missing or unfit.   *)
GenerateWrapper ==
  /\ pc = "generate"
  /\ \/ Raise("BuildError") /\ UNCHANGED made
     \/ Raise("UnicodeDecodeError") /\ UNCHANGED made
     \/ /\ \E script \in {"fit", "unfit"}, jar \in {"fit", "unfit"},
              spec \in {VersionFor(asked), NoSpec} :
             made' = [script |-> script, jar |-> jar, spec |-> spec,
                      specBlocked |-> FALSE]
        /\ Goto("install")
  /\ UNCHANGED <<wrapper, asked, apks, taken, ran, declared>>

(* The artifacts are copied one by one: script, (batch file,) JAR and        *)
(* properties.  A missing artifact or a failing copy ends it half way; after *)
(* the last one the temporary directory may resist its removal.             *)
Copied(n) ==
  [script |-> IF n < 1 \/ wrapper.script = "blocked" THEN wrapper.script
              ELSE made.script,
   jar    |-> IF n < 3 \/ wrapper.jar = "blocked" THEN wrapper.jar ELSE made.jar,
   spec   |-> IF n < 4 \/ wrapper.specBlocked THEN wrapper.spec ELSE made.spec,
   specBlocked |-> wrapper.specBlocked]

Install ==
  /\ pc = "install"
  /\ \/ wrapper' = Copied(4) /\ Goto("revalidate")
     \/ \E n \in 0..4 : wrapper' = Copied(n) /\ Raise("BuildError")
  /\ UNCHANGED <<asked, made, apks, taken, ran, declared>>

(* Bug: what gradle wrapper made is taken as it is. *)
RevalidateNothing ==
  /\ pc = "revalidate"
  /\ Goto("build")
  /\ UNCHANGED <<wrapper, asked, made, apks, taken, ran, declared>>

Revalidate ==
  /\ pc = "revalidate"
  /\ \/ Valid(wrapper) /\ wrapper.spec # NoSpec /\ Goto("build")
     \/ ~ (Valid(wrapper) /\ wrapper.spec # NoSpec) /\ Raise("BuildError")
     \/ Raise("OSError")
  /\ UNCHANGED <<wrapper, asked, made, apks, taken, ran, declared>>

(* _run_gradle_task: what assembleDebug leaves is wherever the project's    *)
(* own build files put it, or nowhere the patterns match.                   *)
RunGradleTask ==
  /\ pc = "build"
  /\ ran' = {wrapper}
  /\ \/ Raise("BuildError") /\ UNCHANGED apks
     \/ Raise("UnicodeDecodeError") /\ UNCHANGED apks
     \/ /\ \E places \in SUBSET Patterns :
             apks' = apks \cup {[pattern |-> p, mtime |-> Now] : p \in places}
        /\ Goto("locate")
  /\ UNCHANGED <<wrapper, asked, made, taken, declared>>

(* Bug: the order of the modification times is not reversed. *)
BestMatchOldest(a) ==
  /\ \A b \in apks : a.pattern <= b.pattern
  /\ \A b \in apks : b.pattern = a.pattern => a.mtime <= b.mtime

(* The most recent match of the first pattern that matches anything. *)
BestMatch(a) ==
  /\ \A b \in apks : a.pattern <= b.pattern
  /\ \A b \in apks : b.pattern = a.pattern => b.mtime <= a.mtime

LocateApk ==
  /\ pc = "locate"
  /\ \/ \E a \in apks : BestMatch(a) /\ taken' = {a} /\ Goto("copy")
     \/ apks = {} /\ Raise("BuildError") /\ UNCHANGED taken
     \/ Raise("OSError") /\ UNCHANGED taken
  /\ UNCHANGED <<wrapper, asked, made, apks, ran, declared>>

(* copy2 to the output path, outside any try. *)
CopyApk ==
  /\ pc = "copy"
  /\ Goto("done") \/ Raise("OSError")
  /\ UNCHANGED <<wrapper, asked, made, apks, taken, ran, declared>>

Next ==
  \/ CheckProject \/ Validate \/ GenerateWrapper \/ Install \/ Revalidate
  \/ RunGradleTask \/ LocateApk \/ CopyApk

Spec == Init /\ [][Next]_vars

-----------------------------------------------------------------------------
(* Whatever the project contained and wherever a regeneration stopped, only  *)
(* a wrapper that passed the validation in _ensure_wrapper as a whole runs   *)
(* assembleDebug.                                                            *)
OnlyValidatedWrapperRuns ==
  \A w \in ran : Valid(w) /\ w.spec \in Specs

(* A project that came with the official URL of a Gradle version is built    *)
(* with that version, whether its wrapper was used or regenerated.           *)
DeclaredGradleRuns ==
  declared # NoSpec => \A w \in ran : w.spec = declared

(* An APK the generator left behind is never taken for the build's, unless   *)
(* it lies where an earlier search pattern matches than the build's own.     *)
FreshApkWins ==
  (\E b \in apks : IsBuilt(b) /\ \A a \in apks : b.pattern <= a.pattern)
  => \A t \in taken : IsBuilt(t)

=============================================================================
