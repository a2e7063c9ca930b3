-------------------------- MODULE ApkBuilderProofs --------------------------
(***************************************************************************)
(* What module ApkBuilder promises, for any Gradle versions and any APKs   *)
(* the generator may have left: types, which wrapper runs, which version   *)
(* builds, and which APK is taken.                                         *)
(***************************************************************************)
EXTENDS ApkBuilder, TLAPS

USE DEF vars

(* The wrapper in the project names the declared Gradle until a regeneration *)
(* overwrites it; then what Revalidate looks at names the version asked for  *)
(* or none.                                                                  *)
WrapperInv ==
  /\ (pc \in {"check", "validate", "generate", "install"}) =>
       wrapper.spec = declared
  /\ (pc \in {"generate", "install"}) => asked = declared
  /\ (pc = "install") => made.spec \in {VersionFor(declared), NoSpec}
  /\ (pc = "revalidate") => wrapper.spec \in {VersionFor(declared), NoSpec}

(* A wrapper that may run assembleDebug. *)
Sound(w) ==
  /\ Valid(w) /\ w.spec \in Specs
  /\ declared # NoSpec => w.spec = declared

RunInv ==
  /\ (pc = "build") => Sound(wrapper)
  /\ \A w \in ran : Sound(w)

(* An APK is taken once, after the build has written its own. *)
ApkInv ==
  /\ (pc \notin {"copy", "done", "failed"}) => taken = {}
  /\ \A t \in taken : t \in apks /\ BestMatch(t)

IInv == TypeOK /\ WrapperInv /\ RunInv /\ ApkInv

LEMMA NoneIsNoException == None \notin BuildExceptions
BY DEF None, BuildExceptions

(* A regeneration names the version the project declared, or the Worker's.   *)
LEMMA VersionType ==
  ASSUME NEW s \in Specs \cup {NoSpec}
  PROVE  VersionFor(s) \in Specs
BY SpecsAssumption DEF VersionFor

(* However far the copying gets, the project holds a wrapper of some kind.   *)
LEMMA CopiedType ==
  ASSUME TypeOK, NEW n \in 0..4
  PROVE  Copied(n) \in Wrappers
  <1>1. /\ wrapper.script \in Scripts /\ made.script \in Scripts
        /\ wrapper.jar \in Jars /\ made.jar \in Jars
        /\ wrapper.spec \in Specs \cup {NoSpec}
        /\ made.spec \in Specs \cup {NoSpec}
        /\ wrapper.specBlocked \in BOOLEAN
    BY DEF TypeOK, Wrappers
  <1> QED BY <1>1 DEF Copied, Wrappers

LEMMA CopiedAll ==
  /\ Copied(4).spec = wrapper.spec \/ Copied(4).spec = made.spec
  /\ (~ wrapper.specBlocked) => Copied(4).spec = made.spec
BY DEF Copied

(* A project whose properties cannot be written has none. *)
BlockedInv ==
  (pc \in {"check", "validate", "generate", "install"} /\ wrapper.specBlocked)
    => wrapper.spec = NoSpec

LEMMA InvInit == Init => IInv /\ BlockedInv
  <1> SUFFICES ASSUME Init PROVE IInv /\ BlockedInv
    OBVIOUS
  <1>1. wrapper \in Wrappers /\ wrapper.spec \in Specs \cup {NoSpec}
    BY DEF Init, Wrappers
  <1>2. TypeOK
    BY <1>1, NoneIsNoException DEF Init, TypeOK, Steps
  <1> QED BY <1>2 DEF Init, IInv, WrapperInv, RunInv, ApkInv, BlockedInv

LEMMA TypeNext ==
  ASSUME TypeOK, [Next]_vars
  PROVE  TypeOK'
  <1> USE NoneIsNoException DEF TypeOK, Steps, Goto, Raise, BuildExceptions
  <1>1. CASE CheckProject
    BY <1>1 DEF CheckProject
  <1>2. CASE Validate
    <2>1. wrapper.spec \in Specs \cup {NoSpec}
      BY DEF Wrappers
    <2> QED BY <1>2, <2>1 DEF Validate
  <1>3. CASE GenerateWrapper
    <2>1. made' \in Wrappers
      <3>1. CASE made' = made
        BY <3>1
      <3>2. ASSUME NEW script \in {"fit", "unfit"}, NEW jar \in {"fit", "unfit"},
                   NEW spec \in {VersionFor(asked), NoSpec},
                   made' = [script |-> script, jar |-> jar, spec |-> spec,
                            specBlocked |-> FALSE]
            PROVE  made' \in Wrappers
        <4>1. spec \in Specs \cup {NoSpec}
          BY VersionType
        <4> QED BY <3>2, <4>1 DEF Wrappers, Scripts, Jars
      <3> QED BY <1>3, <3>1, <3>2 DEF GenerateWrapper
    <2> QED BY <1>3, <2>1 DEF GenerateWrapper
  <1>4. CASE Install
    <2>1. wrapper' \in Wrappers
      BY <1>4, CopiedType DEF Install
    <2> QED BY <1>4, <2>1 DEF Install
  <1>5. CASE Revalidate
    BY <1>5 DEF Revalidate
  <1>6. CASE RunGradleTask
    <2>1. Now \in 1..Now
      BY ShippedAssumption DEF Now
    <2>2. apks' \subseteq Apks
      <3>1. CASE apks' = apks
        BY <3>1
      <3>2. ASSUME NEW places \in SUBSET Patterns,
                   apks' = apks \cup {[pattern |-> p, mtime |-> Now] : p \in places}
            PROVE  apks' \subseteq Apks
        BY <2>1, <3>2 DEF Apks
      <3> QED BY <1>6, <3>1, <3>2 DEF RunGradleTask
    <2>3. ran' \subseteq Wrappers
      BY <1>6 DEF RunGradleTask
    <2> QED BY <1>6, <2>2, <2>3 DEF RunGradleTask
  <1>7. CASE LocateApk
    <2>1. taken' \subseteq Apks
      BY <1>7 DEF LocateApk
    <2> QED BY <1>7, <2>1 DEF LocateApk
  <1>8. CASE CopyApk
    BY <1>8 DEF CopyApk
  <1>9. CASE UNCHANGED vars
    BY <1>9
  <1> QED BY <1>1, <1>2, <1>3, <1>4, <1>5, <1>6, <1>7, <1>8, <1>9 DEF Next

LEMMA WrapperNext ==
  ASSUME IInv, BlockedInv, [Next]_vars
  PROVE  WrapperInv' /\ BlockedInv'
  <1> USE DEF WrapperInv, BlockedInv, Goto, Raise
  <1>1. TypeOK /\ WrapperInv
    BY DEF IInv
  <1>2. CASE CheckProject
    BY <1>1, <1>2 DEF CheckProject
  <1>3. CASE Validate
    BY <1>1, <1>3 DEF Validate
  <1>4. CASE GenerateWrapper
    <2>1. (pc' = "install") => made'.spec \in {VersionFor(asked), NoSpec}
      BY <1>4 DEF GenerateWrapper
    <2> QED BY <1>1, <1>4, <2>1 DEF GenerateWrapper, VersionFor
  <1>5. CASE Install
    <2>1. (pc' = "revalidate") => wrapper' = Copied(4)
      BY <1>5 DEF Install
    <2>2. Copied(4).spec \in {VersionFor(declared), NoSpec}
      <3>1. CASE wrapper.specBlocked
        BY <1>1, <1>5, <3>1, CopiedAll DEF Install
      <3>2. CASE ~ wrapper.specBlocked
        BY <1>1, <1>5, <3>2, CopiedAll DEF Install
      <3> QED BY <3>1, <3>2
    <2>3. /\ pc' \in {"revalidate", "failed"} /\ declared' = declared
      BY <1>5 DEF Install
    <2> QED BY <2>1, <2>2, <2>3 DEF VersionFor
  <1>6. CASE Revalidate
    BY <1>6 DEF Revalidate
  <1>7. CASE RunGradleTask
    BY <1>7 DEF RunGradleTask
  <1>8. CASE LocateApk
    BY <1>8 DEF LocateApk
  <1>9. CASE CopyApk
    BY <1>9 DEF CopyApk
  <1>10. CASE UNCHANGED vars
    BY <1>1, <1>10 DEF VersionFor
  <1> QED BY <1>2, <1>3, <1>4, <1>5, <1>6, <1>7, <1>8, <1>9, <1>10 DEF Next

LEMMA RunNext ==
  ASSUME IInv, [Next]_vars
  PROVE  RunInv'
  <1> USE DEF RunInv, Goto, Raise
  <1>1. /\ TypeOK /\ WrapperInv /\ RunInv
        /\ wrapper.spec \in Specs \cup {NoSpec}
    BY DEF IInv, TypeOK, Wrappers
  <1>2. declared' = declared
    BY DEF Next, CheckProject, Validate, GenerateWrapper, Install, Revalidate,
           RunGradleTask, LocateApk, CopyApk
  <1>3. \A w : Sound(w) => Sound(w)'
    BY <1>2 DEF Sound, Valid
  <1>4. CASE Validate
    <2>1. (pc' = "build") => /\ Valid(wrapper) /\ wrapper.spec # NoSpec
                            /\ wrapper.spec = declared
      BY <1>1, <1>4 DEF Validate, WrapperInv
    <2>2. (pc' = "build") => Sound(wrapper)
      BY <1>1, <2>1 DEF Sound
    <2>3. wrapper' = wrapper /\ ran' = ran
      BY <1>4 DEF Validate
    <2> QED BY <1>1, <1>2, <2>2, <2>3 DEF Sound, Valid
  <1>5. CASE Revalidate
    <2>1. (pc' = "build") =>
             /\ Valid(wrapper) /\ wrapper.spec # NoSpec
             /\ wrapper.spec \in {VersionFor(declared), NoSpec}
      BY <1>1, <1>5 DEF Revalidate, WrapperInv
    <2>2. (pc' = "build") => Sound(wrapper)
      BY <1>1, <2>1 DEF Sound, VersionFor
    <2>3. wrapper' = wrapper /\ ran' = ran
      BY <1>5 DEF Revalidate
    <2> QED BY <1>1, <1>2, <2>2, <2>3 DEF Sound, Valid
  <1>6. CASE RunGradleTask
    <2>1. pc' # "build" /\ ran' = {wrapper} /\ Sound(wrapper)
      BY <1>1, <1>6 DEF RunGradleTask
    <2> QED BY <1>2, <2>1 DEF Sound, Valid
  <1>7. CASE CheckProject \/ GenerateWrapper \/ Install \/ LocateApk \/ CopyApk
    <2>1. pc' # "build" /\ ran' = ran
      BY <1>7 DEF CheckProject, GenerateWrapper, Install, LocateApk, CopyApk
    <2> QED BY <1>1, <1>2, <2>1 DEF Sound, Valid
  <1>8. CASE UNCHANGED vars
    BY <1>1, <1>8 DEF Sound, Valid
  <1> QED BY <1>4, <1>5, <1>6, <1>7, <1>8 DEF Next

LEMMA ApkNext ==
  ASSUME IInv, [Next]_vars
  PROVE  ApkInv'
  <1> USE DEF ApkInv, Goto, Raise
  <1>1. ApkInv
    BY DEF IInv
  <1>2. CASE LocateApk
    <2>1. apks' = apks /\ pc = "locate" /\ pc' \in {"copy", "failed"}
      BY <1>2 DEF LocateApk
    <2>2. \A t \in taken' : t \in apks /\ BestMatch(t)
      BY <1>1, <1>2, <2>1 DEF LocateApk
    <2> QED BY <2>1, <2>2 DEF BestMatch
  <1>3. CASE RunGradleTask
    <2>1. taken' = {}
      BY <1>1, <1>3 DEF RunGradleTask
    <2> QED BY <2>1
  <1>4. CASE CheckProject \/ Validate \/ GenerateWrapper \/ Install \/ Revalidate
    <2>1. taken = {} /\ taken' = taken
      BY <1>1, <1>4 DEF CheckProject, Validate, GenerateWrapper, Install, Revalidate
    <2> QED BY <2>1
  <1>5. CASE CopyApk
    <2>1. /\ taken' = taken /\ apks' = apks /\ pc' \in {"done", "failed"}
      BY <1>5 DEF CopyApk
    <2> QED BY <1>1, <2>1 DEF BestMatch
  <1>6. CASE UNCHANGED vars
    BY <1>1, <1>6 DEF BestMatch
  <1> QED BY <1>2, <1>3, <1>4, <1>5, <1>6 DEF Next

LEMMA InvAlways == Spec => [](IInv /\ BlockedInv)
  <1>1. IInv /\ BlockedInv /\ [Next]_vars => (IInv /\ BlockedInv)'
    BY TypeNext, WrapperNext, RunNext, ApkNext DEF IInv
  <1> QED BY <1>1, InvInit, PTL DEF Spec

(* Every variable keeps its type, and only the exceptions of build_apk leave *)
(* it.                                                                       *)
THEOREM TypeCorrect == Spec => []TypeOK
  <1>1. IInv /\ BlockedInv => TypeOK
    BY DEF IInv
  <1> QED BY <1>1, InvAlways, PTL

(* Only a wrapper that was validated as a whole runs assembleDebug.          *)
THEOREM WrapperSafety == Spec => []OnlyValidatedWrapperRuns
  <1>1. IInv /\ BlockedInv => OnlyValidatedWrapperRuns
    BY DEF IInv, RunInv, Sound, OnlyValidatedWrapperRuns
  <1> QED BY <1>1, InvAlways, PTL

(* A regenerated wrapper builds with the Gradle the project declared.        *)
THEOREM DeclaredVersion == Spec => []DeclaredGradleRuns
  <1>1. IInv /\ BlockedInv => DeclaredGradleRuns
    BY DEF IInv, RunInv, Sound, DeclaredGradleRuns
  <1> QED BY <1>1, InvAlways, PTL

(* What the generator left is not taken for what the build wrote, unless an  *)
(* earlier pattern matches it.                                               *)
THEOREM FreshApk == Spec => []FreshApkWins
  <1>1. ASSUME IInv PROVE FreshApkWins
    <2> SUFFICES ASSUME NEW b \in apks, IsBuilt(b),
                        \A a \in apks : b.pattern <= a.pattern,
                        NEW t \in taken
                 PROVE  IsBuilt(t)
      BY DEF FreshApkWins
    <2>1. t \in apks /\ BestMatch(t) /\ apks \subseteq Apks
      BY <1>1 DEF IInv, ApkInv, TypeOK
    <2>2. t.pattern \in Nat /\ b.pattern \in Nat /\ t.mtime \in 1..Now
      BY <2>1 DEF Apks, Patterns
    <2>3. t.pattern = b.pattern
      BY <2>1, <2>2 DEF BestMatch
    <2>4. b.mtime <= t.mtime /\ b.mtime = Now
      BY <2>1, <2>3 DEF BestMatch, IsBuilt
    <2> QED BY <2>2, <2>4, ShippedAssumption DEF IsBuilt, Now
  <1> QED BY <1>1, InvAlways, PTL
=============================================================================
