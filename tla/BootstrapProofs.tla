---------------------------- MODULE BootstrapProofs ----------------------------
(***************************************************************************)
(* What Bootstrap promises for any set of jb- directory names, any set of  *)
(* boot flags, with and without a signed system volume and whatever the    *)
(* faults: IInv is inductive, and the safety properties follow from it.    *)
(***************************************************************************)
EXTENDS Bootstrap, TLAPS

USE NamesAssumption, ParametersAssumption

\* What the callers of jailbreak_get_prebootPath rely on: it names a directory
\* only when that directory is the only one and holds procursus, and it says
\* ENOENT only when there is none.
LEMMA PrebootPathFacts ==
  ASSUME NEW j \in [JbDirs -> DirState]
  PROVE  /\ PrebootPath(j) \in JbDirs \cup Errnos
         /\ PrebootPath(j) = "ENOENT" <=> Present(j) = {}
         /\ PrebootPath(j) \in JbDirs =>
              HasProcursus(j, PrebootPath(j)) /\ Present(j) = {PrebootPath(j)}
         /\ \A d \in JbDirs : Present(j) = {d} /\ HasProcursus(j, d) => PrebootPath(j) = d
<1> DEFINE the == CHOOSE d \in JbDirs : j[d] # "absent"
<1>1. CASE Present(j) = {}
  BY <1>1 DEF PrebootPath, Present, HasProcursus, Errnos, VarJbKinds, FixedRoots
<1>2. CASE Present(j) # {}
  <2>1. the \in Present(j)
    BY <1>2 DEF Present
  <2>2. PrebootPath(j) = IF Present(j) # {the} THEN "EEXIST"
                         ELSE IF HasProcursus(j, the) THEN the ELSE "ENXIO"
    BY <1>2 DEF PrebootPath
  <2> HIDE DEF the
  <2> QED
    BY <1>2, <2>1, <2>2 DEF Present, Errnos, VarJbKinds, FixedRoots
<1> QED
  BY <1>1, <1>2

\* A directory that is answered holds procursus even when the lookup fails, and
\* with no lookup failing the answer is the truth.
LEMMA AnswersFacts ==
  ASSUME NEW j \in [JbDirs -> DirState], NEW mayFail,
         NEW path \in PrebootAnswers(j, mayFail)
  PROVE  /\ path \in JbDirs \cup Errnos
         /\ path \in JbDirs => HasProcursus(j, path)
         /\ ~mayFail => path = PrebootPath(j)
BY PrebootPathFacts DEF PrebootAnswers, Errnos

\* Reloading the environment makes JB_ROOT_PATH the directory answered;
\* whatever the answer, the result is a path.
LEMMA LoadEnvFacts ==
  ASSUME NEW r \in RootPath, NEW path \in JbDirs \cup Errnos
  PROVE  /\ LoadEnv(r, path) \in RootPath
         /\ path \in JbDirs => LoadEnv(r, path) = path
         /\ LoadEnv(r, path) \in JbDirs => LoadEnv(r, path) \in {r, path}
BY DEF LoadEnv, RootPath, FixedRoots

\* A link create_var_jb makes leads to the directory it is told, and what is
\* not a dangling link and not missing stays as it was.
LEMMA CreateVarJbFacts ==
  ASSUME NEW j \in [JbDirs -> DirState], NEW v \in VarJb, NEW path \in JbDirs \cup Errnos
  PROVE  /\ CreateVarJb(v, j, path) \in VarJb
         /\ v # "none" => CreateVarJb(v, j, path) = v
         /\ v = "none" /\ path \in JbDirs => CreateVarJb(v, j, path) = path
         /\ v = "none" /\ path \notin JbDirs => CreateVarJb(v, j, path) = "none"
BY DEF CreateVarJb, VarJbResolves, VarJb, VarJbKinds

-----------------------------------------------------------------------------
(* The invariant is inductive.  The definitions of the state sets and of   *)
(* its conjuncts are used throughout.                                      *)

USE DEF Stage, FlagNames, DirState, VarJb, VarJbKinds, RootPath, FixedRoots, RootState,
        Pc, InstallPc, CleanupPc, ObliteratePc, Reply, Rootful, ForceRevert,
        Present, HasProcursus, files, rootfs, request, history, Attempt, Goto, Answer
USE DEF IInv, TypeOK, RequestsOnlyWhenUp, StepsOfTheMode, SnapshotRenamed, RootCanBeReverted,
        FilesAreSound, SingleJbDir, LinkIsToProcursus, BeforeMkdir, DirInProgress,
        AckedUntouched, EnvInStep, LostLinkIsForProcursus

\* load_bootstrapped_jailbreak_env, told the truth, names the one complete
\* directory; whatever it is told, it names no directory without procursus.
LEMMA EnvIsLoaded ==
  ASSUME TypeOK, LoadJailbreakEnv
  PROVE  /\ jbroot' \in RootPath /\ lostEnv' \in BOOLEAN
         /\ UNCHANGED <<acked, falseStart, lostLink>>
         /\ Rootful => jbroot' = jbroot
         /\ ~Rootful /\ ~lostEnv' =>
              \A d \in JbDirs : Present(jb) = {d} /\ HasProcursus(jb, d) => jbroot' = d
<1>1. PICK path \in Answers : jbroot' = EnvWith(path) /\ lostEnv' = (EnvWith(path) # EnvWith(Truth))
  BY DEF LoadJailbreakEnv
<1>2. path \in JbDirs \cup Errnos /\ Truth \in JbDirs \cup Errnos
  BY AnswersFacts, PrebootPathFacts DEF Answers, Truth
<1>3. EnvWith(path) \in RootPath
  BY <1>2, LoadEnvFacts DEF EnvWith
<1>4. ASSUME ~Rootful, ~lostEnv', NEW d \in JbDirs, Present(jb) = {d}, HasProcursus(jb, d)
      PROVE  jbroot' = d
  <2>1. Truth = d
    BY <1>4, PrebootPathFacts DEF Truth
  <2>2. LoadEnv(jbroot, Truth) = d
    BY <2>1, <1>2, LoadEnvFacts
  <2> QED
    BY <1>1, <1>4, <2>2 DEF EnvWith
<1> QED
  BY <1>1, <1>3, <1>4 DEF LoadJailbreakEnv, EnvWith

\* create_var_jb keeps a link, makes one only to a directory it is told of, and
\* told the truth makes the one to the only complete directory.
LEMMA LinkIsRepaired ==
  ASSUME TypeOK, ~Rootful, NEW path \in Answers, varjb' = VarJbWith(path)
  PROVE  /\ varjb' \in VarJb
         /\ varjb \in JbDirs => varjb' = varjb
         /\ varjb \in {"none", "artifact"} => varjb' \in {"none", path}
         /\ varjb' \in JbDirs => varjb' = varjb \/ HasProcursus(jb, varjb')
         /\ \A d \in JbDirs : /\ Present(jb) = {d} /\ HasProcursus(jb, d)
                             /\ varjb \in {"none", "artifact"}
                             /\ VarJbWith(path) = VarJbWith(Truth) => varjb' = d
<1> DEFINE v == RemoveBogusVarJb(varjb)
<1>1. path \in JbDirs \cup Errnos /\ (path \in JbDirs => HasProcursus(jb, path))
  BY AnswersFacts DEF Answers
<1>2. Truth \in JbDirs \cup Errnos
  BY PrebootPathFacts DEF Truth
<1>3. /\ v \in VarJb
      /\ varjb \in {"none", "artifact"} => v = "none"
      /\ varjb \in JbDirs => v = varjb
      /\ v # "none" => v = varjb
  BY DEF RemoveBogusVarJb
<1>4. varjb' = CreateVarJb(v, jb, path)
  BY DEF VarJbWith
<1>5. ASSUME NEW d \in JbDirs, Present(jb) = {d}, HasProcursus(jb, d),
             varjb \in {"none", "artifact"}, VarJbWith(path) = VarJbWith(Truth)
      PROVE  varjb' = d
  <2>1. Truth = d
    BY <1>5, PrebootPathFacts DEF Truth
  <2>2. VarJbWith(Truth) = CreateVarJb(v, jb, Truth)
    BY DEF VarJbWith
  <2> HIDE DEF v
  <2>3. CreateVarJb(v, jb, Truth) = d
    BY <1>2, <1>3, <1>5, <2>1, CreateVarJbFacts
  <2> QED
    BY <1>5, <2>2, <2>3
<1> HIDE DEF v
<1>6. /\ varjb' \in VarJb
      /\ v # "none" => varjb' = v
      /\ v = "none" /\ path \in JbDirs => varjb' = path
      /\ v = "none" /\ path \notin JbDirs => varjb' = "none"
  BY <1>1, <1>3, <1>4, CreateVarJbFacts
<1> QED
  BY <1>1, <1>3, <1>5, <1>6

\* A device that was never jailbroken satisfies the invariant.
LEMMA InitEstablishes == Init => IInv
<1> SUFFICES ASSUME Init PROVE IInv
  OBVIOUS
<1>1. TypeOK
  BY DEF Init
<1>2. RequestsOnlyWhenUp /\ StepsOfTheMode /\ SnapshotRenamed
  BY DEF Init
<1>3. FilesAreSound
  BY DEF Init
<1> HIDE DEF TypeOK, RequestsOnlyWhenUp, StepsOfTheMode, SnapshotRenamed, FilesAreSound
<1> QED
  BY <1>1, <1>2, <1>3 DEF IInv

\* fakedyld has run: the boot task keeps the invariant.
LEMMA LoaderStepKeeps == IInv /\ LoaderStep => IInv'
<1> SUFFICES ASSUME IInv, LoaderStep PROVE IInv'
  OBVIOUS
<1>1. CASE SpawnPayload
  <2>1. TypeOK'
    BY <1>1, EnvIsLoaded DEF SpawnPayload
  <2>2. (RequestsOnlyWhenUp /\ StepsOfTheMode)'
    BY <1>1, EnvIsLoaded DEF SpawnPayload
  <2>3. SnapshotRenamed'
    BY <1>1, EnvIsLoaded DEF SpawnPayload
  <2>4. (~falseStart => FilesAreSound)'
    BY <1>1, EnvIsLoaded DEF SpawnPayload
  <2> HIDE DEF TypeOK, RequestsOnlyWhenUp, StepsOfTheMode, SnapshotRenamed, FilesAreSound
  <2> QED
    BY <2>1, <2>2, <2>3, <2>4 DEF IInv
<1>2. CASE StageRevert
  <2>1. TypeOK'
    BY <1>2 DEF StageRevert, RemoveDirs, RemovedDirs
  <2>2. (RequestsOnlyWhenUp /\ StepsOfTheMode)'
    BY <1>2 DEF StageRevert, RemoveDirs, RemovedDirs
  <2>3. SnapshotRenamed'
    BY <1>2 DEF StageRevert, RemoveDirs, RemovedDirs
  <2>4. (~falseStart => FilesAreSound)'
    BY <1>2 DEF StageRevert, RemoveDirs, RemovedDirs
  <2> HIDE DEF TypeOK, RequestsOnlyWhenUp, StepsOfTheMode, SnapshotRenamed, FilesAreSound
  <2> QED
    BY <2>1, <2>2, <2>3, <2>4 DEF IInv
<1>3. CASE StageRevertLink
  <2>1. TypeOK'
    BY <1>3 DEF StageRevertLink, RemoveVarJb
  <2>2. (RequestsOnlyWhenUp /\ StepsOfTheMode)'
    BY <1>3 DEF StageRevertLink, RemoveVarJb
  <2>3. SnapshotRenamed'
    BY <1>3 DEF StageRevertLink, RemoveVarJb
  <2>4. (~falseStart => FilesAreSound)'
    BY <1>3 DEF StageRevertLink, RemoveVarJb
  <2> HIDE DEF TypeOK, RequestsOnlyWhenUp, StepsOfTheMode, SnapshotRenamed, FilesAreSound
  <2> QED
    BY <2>1, <2>2, <2>3, <2>4 DEF IInv
<1>4. CASE StageRevertName
  <2>1. TypeOK'
    <3> HIDE DEF RequestsOnlyWhenUp, StepsOfTheMode, SnapshotRenamed, FilesAreSound
    <3>1. /\ origfs' \in BOOLEAN /\ revertPending' \in BOOLEAN /\ attempt' \in Attempt
          /\ root' \in RootState
      BY <1>4 DEF StageRevertName, NameSnapshotBack
    <3>2. stage' \in Stage /\ pc' \in Pc /\ dir' \in JbDirs \cup {NoDir} /\ reply' \in Reply
      BY <1>4 DEF StageRevertName, NameSnapshotBack
    <3> QED
      BY <1>4, <3>1, <3>2 DEF StageRevertName
  <2>2. (RequestsOnlyWhenUp /\ StepsOfTheMode)'
    BY <1>4 DEF StageRevertName, NameSnapshotBack
  <2>3. SnapshotRenamed'
    BY <1>4 DEF StageRevertName, NameSnapshotBack
  <2>4. (~falseStart => FilesAreSound)'
    BY <1>4 DEF StageRevertName, NameSnapshotBack
  <2> HIDE DEF TypeOK, RequestsOnlyWhenUp, StepsOfTheMode, SnapshotRenamed, FilesAreSound
  <2> QED
    BY <2>1, <2>2, <2>3, <2>4 DEF IInv
<1>5. CASE StageRevertSnapshot
  <2>1. TypeOK'
    <3> HIDE DEF RequestsOnlyWhenUp, StepsOfTheMode, SnapshotRenamed, FilesAreSound
    <3>1. /\ origfs' \in BOOLEAN /\ revertPending' \in BOOLEAN /\ attempt' \in Attempt
          /\ root' \in RootState
      BY <1>5 DEF StageRevertSnapshot, RevertToSnapshot
    <3>2. stage' \in Stage /\ pc' \in Pc /\ dir' \in JbDirs \cup {NoDir} /\ reply' \in Reply
      BY <1>5 DEF StageRevertSnapshot, RevertToSnapshot
    <3> QED
      BY <1>5, <3>1, <3>2 DEF StageRevertSnapshot
  <2>2. (RequestsOnlyWhenUp /\ StepsOfTheMode)'
    BY <1>5 DEF StageRevertSnapshot, RevertToSnapshot
  <2>3. SnapshotRenamed'
    BY <1>5 DEF StageRevertSnapshot, RevertToSnapshot
  <2>4. (~falseStart => FilesAreSound)'
    BY <1>5 DEF StageRevertSnapshot, RevertToSnapshot
  <2> HIDE DEF TypeOK, RequestsOnlyWhenUp, StepsOfTheMode, SnapshotRenamed, FilesAreSound
  <2> QED
    BY <2>1, <2>2, <2>3, <2>4 DEF IInv
<1>6. CASE StageVarJb
  <2>1. PICK path \in Answers : /\ varjb' = VarJbWith(path)
                               /\ lostLink' = (VarJbWith(path) # VarJbWith(Truth))
    BY <1>6 DEF StageVarJb
  <2>2. CASE Rootful
    <3>1. varjb' = UnlinkVarJb(RemoveBogusVarJb(varjb)) /\ lostLink' = FALSE
      BY <2>1, <2>2 DEF VarJbWith
    <3>2. varjb' \in VarJbKinds /\ (varjb \in JbDirs \cup {"none", "artifact"} => varjb' = "none")
      BY <3>1 DEF UnlinkVarJb, RemoveBogusVarJb
    <3>3. TypeOK' /\ (RequestsOnlyWhenUp /\ StepsOfTheMode /\ SnapshotRenamed)'
      BY <1>6, <3>1, <3>2 DEF StageVarJb
    <3>4. (~falseStart => FilesAreSound)'
      BY <1>6, <2>2, <3>1, <3>2 DEF StageVarJb
    <3> HIDE DEF TypeOK, RequestsOnlyWhenUp, StepsOfTheMode, SnapshotRenamed, FilesAreSound
    <3> QED
      BY <3>3, <3>4 DEF IInv
  <2>3. CASE ~Rootful
    <3>1. /\ varjb' \in VarJb /\ lostLink' \in BOOLEAN
          /\ varjb \in JbDirs => varjb' = varjb
          /\ varjb \in {"none", "artifact"} => varjb' \in {"none", path}
          /\ varjb' \in JbDirs => varjb' = varjb \/ HasProcursus(jb, varjb')
          /\ \A d \in JbDirs : /\ Present(jb) = {d} /\ HasProcursus(jb, d)
                              /\ varjb \in {"none", "artifact"} /\ ~lostLink' => varjb' = d
      BY <2>1, <2>3, LinkIsRepaired
    <3>2. path \in JbDirs => HasProcursus(jb, path)
      BY AnswersFacts DEF Answers
    <3>3. TypeOK' /\ (RequestsOnlyWhenUp /\ StepsOfTheMode /\ SnapshotRenamed)'
      BY <1>6, <3>1 DEF StageVarJb
    <3>4. ASSUME ~falseStart' PROVE (SingleJbDir /\ LinkIsToProcursus)'
      BY <1>6, <3>1, <3>4 DEF StageVarJb
    <3>5. ASSUME ~falseStart' PROVE (BeforeMkdir /\ DirInProgress /\ EnvInStep /\ LostLinkIsForProcursus)'
      BY <1>6, <2>3, <3>5 DEF StageVarJb
    <3>6. ASSUME ~falseStart' PROVE AckedUntouched'
      <4>1. acked # NoDir => Present(jb) = {acked} /\ HasProcursus(jb, acked)
        BY <1>6, <3>6 DEF StageVarJb
      <4>2. acked # NoDir => varjb' \in {"none", acked}
        <5>1. acked # NoDir => varjb \in {"none", "artifact", acked} /\ acked \in JbDirs
          BY <1>6, <3>6 DEF StageVarJb
        <5>2. acked # NoDir /\ path \in JbDirs => path = acked
          BY <3>2, <4>1
        <5>3. CASE varjb \in {"none", "artifact"}
          <6>1. path \in JbDirs \/ varjb' # path \/ varjb' = "none"
            BY <3>1, <5>3, AnswersFacts DEF Answers, Errnos
          <6> QED
            BY <3>1, <5>2, <5>3, <6>1
        <5> HIDE DEF IInv
        <5> QED
          BY <3>1, <5>1, <5>3
      <4> QED
        BY <1>6, <2>3, <3>1, <3>6, <4>1, <4>2 DEF StageVarJb
    <3> HIDE DEF TypeOK, RequestsOnlyWhenUp, StepsOfTheMode, SnapshotRenamed, SingleJbDir,
                 LinkIsToProcursus, BeforeMkdir, DirInProgress, AckedUntouched, EnvInStep,
                 LostLinkIsForProcursus
    <3> QED
      BY <3>3, <3>4, <3>5, <3>6 DEF IInv, FilesAreSound
  <2> QED
    BY <2>2, <2>3
<1> QED
  BY <1>1, <1>2, <1>3, <1>4, <1>5, <1>6 DEF LoaderStep

\* So does every step of a bootstrap request.
LEMMA InstallStepKeeps == IInv /\ InstallStep => IInv'
<1> SUFFICES ASSUME IInv, InstallStep PROVE IInv'
  OBVIOUS
<1>1. CASE RenameSnapshot
  <2>1. TypeOK'
    <3> HIDE DEF RequestsOnlyWhenUp, StepsOfTheMode, SnapshotRenamed, FilesAreSound
    <3>1. /\ origfs' \in BOOLEAN /\ revertPending' \in BOOLEAN /\ attempt' \in Attempt
          /\ root' \in RootState
      BY <1>1 DEF RenameSnapshot, FirstStep
    <3>2. stage' \in Stage /\ pc' \in Pc /\ dir' \in JbDirs \cup {NoDir} /\ reply' \in Reply
      BY <1>1 DEF RenameSnapshot, FirstStep
    <3> QED
      BY <1>1, <3>1, <3>2 DEF RenameSnapshot
  <2>2. (RequestsOnlyWhenUp /\ StepsOfTheMode)'
    BY <1>1 DEF RenameSnapshot, FirstStep
  <2>3. SnapshotRenamed'
    BY <1>1 DEF RenameSnapshot, FirstStep
  <2>4. (~falseStart => FilesAreSound)'
    BY <1>1 DEF RenameSnapshot, FirstStep
  <2> HIDE DEF TypeOK, RequestsOnlyWhenUp, StepsOfTheMode, SnapshotRenamed, FilesAreSound
  <2> QED
    BY <2>1, <2>2, <2>3, <2>4 DEF IInv
<1>2. CASE MakeDir
  <2>1. TypeOK'
    BY <1>2 DEF MakeDir
  <2>2. (RequestsOnlyWhenUp /\ StepsOfTheMode)'
    BY <1>2 DEF MakeDir
  <2>3. SnapshotRenamed'
    BY <1>2 DEF MakeDir
  <2>4. (~falseStart => FilesAreSound)'
    BY <1>2 DEF MakeDir
  <2> HIDE DEF TypeOK, RequestsOnlyWhenUp, StepsOfTheMode, SnapshotRenamed, FilesAreSound
  <2> QED
    BY <2>1, <2>2, <2>3, <2>4 DEF IInv
<1>3. CASE ClearBogus
  <2>1. TypeOK'
    BY <1>3 DEF ClearBogus, RemoveBogusVarJb
  <2>2. (RequestsOnlyWhenUp /\ StepsOfTheMode)'
    BY <1>3 DEF ClearBogus, RemoveBogusVarJb
  <2>3. SnapshotRenamed'
    BY <1>3 DEF ClearBogus, RemoveBogusVarJb
  <2>4. (~falseStart => FilesAreSound)'
    BY <1>3 DEF ClearBogus, RemoveBogusVarJb
  <2> HIDE DEF TypeOK, RequestsOnlyWhenUp, StepsOfTheMode, SnapshotRenamed, FilesAreSound
  <2> QED
    BY <2>1, <2>2, <2>3, <2>4 DEF IInv
<1>4. CASE ClearLink
  <2>1. TypeOK'
    BY <1>4 DEF ClearLink, UnlinkVarJb
  <2>2. (RequestsOnlyWhenUp /\ StepsOfTheMode)'
    BY <1>4 DEF ClearLink, UnlinkVarJb
  <2>3. SnapshotRenamed'
    BY <1>4 DEF ClearLink, UnlinkVarJb
  <2>4. (~falseStart => FilesAreSound)'
    BY <1>4 DEF ClearLink, UnlinkVarJb
  <2> HIDE DEF TypeOK, RequestsOnlyWhenUp, StepsOfTheMode, SnapshotRenamed, FilesAreSound
  <2> QED
    BY <2>1, <2>2, <2>3, <2>4 DEF IInv
<1>5. CASE SpawnTar
  <2>1. TypeOK'
    BY <1>5 DEF SpawnTar
  <2>2. (RequestsOnlyWhenUp /\ StepsOfTheMode)'
    BY <1>5 DEF SpawnTar
  <2>3. SnapshotRenamed'
    BY <1>5 DEF SpawnTar
  <2>4. (~falseStart => FilesAreSound)'
    BY <1>5 DEF SpawnTar
  <2> HIDE DEF TypeOK, RequestsOnlyWhenUp, StepsOfTheMode, SnapshotRenamed, FilesAreSound
  <2> QED
    BY <2>1, <2>2, <2>3, <2>4 DEF IInv
<1>6. CASE Extract
  <2>1. TypeOK'
    BY <1>6 DEF Extract
  <2>2. (RequestsOnlyWhenUp /\ StepsOfTheMode)'
    BY <1>6 DEF Extract
  <2>3. SnapshotRenamed'
    BY <1>6 DEF Extract
  <2>4. (~falseStart => FilesAreSound)'
    BY <1>6 DEF Extract
  <2> HIDE DEF TypeOK, RequestsOnlyWhenUp, StepsOfTheMode, SnapshotRenamed, FilesAreSound
  <2> QED
    BY <2>1, <2>2, <2>3, <2>4 DEF IInv
<1>7. CASE RenameTree
  <2>1. TypeOK'
    BY <1>7 DEF RenameTree
  <2>2. (RequestsOnlyWhenUp /\ StepsOfTheMode)'
    BY <1>7 DEF RenameTree
  <2>3. SnapshotRenamed'
    BY <1>7 DEF RenameTree
  <2>4. (~falseStart => FilesAreSound)'
    BY <1>7 DEF RenameTree
  <2> HIDE DEF TypeOK, RequestsOnlyWhenUp, StepsOfTheMode, SnapshotRenamed, FilesAreSound
  <2> QED
    BY <2>1, <2>2, <2>3, <2>4 DEF IInv
<1>8. CASE LinkVarJb
  <2>1. TypeOK'
    <3>1. varjb' \in VarJb
      BY <1>8 DEF LinkVarJb
    <3>2. pc' \in Pc /\ dir' \in JbDirs \cup {NoDir} /\ reply' \in Reply
      BY <1>8 DEF LinkVarJb
    <3> HIDE DEF RequestsOnlyWhenUp, StepsOfTheMode, SnapshotRenamed, FilesAreSound
    <3> QED
      BY <1>8, <3>1, <3>2 DEF LinkVarJb
  <2>2. (RequestsOnlyWhenUp /\ StepsOfTheMode)'
    BY <1>8 DEF LinkVarJb
  <2>3. SnapshotRenamed'
    BY <1>8 DEF LinkVarJb
  <2>4. (~falseStart => FilesAreSound)'
    BY <1>8 DEF LinkVarJb
  <2> HIDE DEF TypeOK, RequestsOnlyWhenUp, StepsOfTheMode, SnapshotRenamed, FilesAreSound
  <2> QED
    BY <2>1, <2>2, <2>3, <2>4 DEF IInv
<1>9. CASE Configure
  <2>1. TypeOK'
    BY <1>9 DEF Configure
  <2>2. (RequestsOnlyWhenUp /\ StepsOfTheMode)'
    BY <1>9 DEF Configure
  <2>3. SnapshotRenamed'
    BY <1>9 DEF Configure
  <2>4. (~falseStart => FilesAreSound)'
    BY <1>9 DEF Configure
  <2> HIDE DEF TypeOK, RequestsOnlyWhenUp, StepsOfTheMode, SnapshotRenamed, FilesAreSound
  <2> QED
    BY <2>1, <2>2, <2>3, <2>4 DEF IInv
<1>10. CASE MarkInstalled
  <2>1. TypeOK'
    BY <1>10 DEF MarkInstalled
  <2>2. (RequestsOnlyWhenUp /\ StepsOfTheMode)'
    BY <1>10 DEF MarkInstalled
  <2>3. SnapshotRenamed'
    BY <1>10 DEF MarkInstalled
  <2>4. (~falseStart => FilesAreSound)'
    BY <1>10 DEF MarkInstalled
  <2> HIDE DEF TypeOK, RequestsOnlyWhenUp, StepsOfTheMode, SnapshotRenamed, FilesAreSound
  <2> QED
    BY <2>1, <2>2, <2>3, <2>4 DEF IInv
<1>11. CASE CheckLaunchDaemons
  <2>1. TypeOK'
    BY <1>11 DEF CheckLaunchDaemons
  <2>2. (RequestsOnlyWhenUp /\ StepsOfTheMode)'
    BY <1>11 DEF CheckLaunchDaemons
  <2>3. SnapshotRenamed'
    BY <1>11 DEF CheckLaunchDaemons
  <2>4. (~falseStart => FilesAreSound)'
    BY <1>11 DEF CheckLaunchDaemons
  <2> HIDE DEF TypeOK, RequestsOnlyWhenUp, StepsOfTheMode, SnapshotRenamed, FilesAreSound
  <2> QED
    BY <2>1, <2>2, <2>3, <2>4 DEF IInv
<1>12. CASE ReloadAfterInstall
  <2>1. TypeOK'
    BY <1>12, EnvIsLoaded DEF ReloadAfterInstall, ReloadEnv
  <2>2. (RequestsOnlyWhenUp /\ StepsOfTheMode)'
    BY <1>12, EnvIsLoaded DEF ReloadAfterInstall, ReloadEnv
  <2>3. SnapshotRenamed'
    BY <1>12, EnvIsLoaded DEF ReloadAfterInstall, ReloadEnv
  <2>4. (~falseStart => FilesAreSound)'
    BY <1>12, EnvIsLoaded DEF ReloadAfterInstall, ReloadEnv
  <2> HIDE DEF TypeOK, RequestsOnlyWhenUp, StepsOfTheMode, SnapshotRenamed, FilesAreSound
  <2> QED
    BY <2>1, <2>2, <2>3, <2>4 DEF IInv
<1>13. CASE AnswerSuccess
  <2>1. TypeOK'
    BY <1>13 DEF AnswerSuccess
  <2>2. (RequestsOnlyWhenUp /\ StepsOfTheMode)'
    BY <1>13 DEF AnswerSuccess
  <2>3. SnapshotRenamed'
    BY <1>13 DEF AnswerSuccess
  <2>4. (~falseStart => FilesAreSound)'
    BY <1>13 DEF AnswerSuccess
  <2> HIDE DEF TypeOK, RequestsOnlyWhenUp, StepsOfTheMode, SnapshotRenamed, FilesAreSound
  <2> QED
    BY <2>1, <2>2, <2>3, <2>4 DEF IInv
<1> QED
  BY <1>1, <1>2, <1>3, <1>4, <1>5, <1>6, <1>7, <1>8, <1>9, <1>10, <1>11, <1>12, <1>13 DEF InstallStep

\* So does the clean-up of a failed installation.
LEMMA CleanupStepKeeps == IInv /\ CleanupStep => IInv'
<1> SUFFICES ASSUME IInv, CleanupStep PROVE IInv'
  OBVIOUS
<1>1. CASE CleanTarPath
  <2>1. TypeOK'
    BY <1>1 DEF CleanTarPath, RemoveTarPath
  <2>2. (RequestsOnlyWhenUp /\ StepsOfTheMode)'
    BY <1>1 DEF CleanTarPath, RemoveTarPath
  <2>3. SnapshotRenamed'
    BY <1>1 DEF CleanTarPath, RemoveTarPath
  <2>4. (~falseStart => FilesAreSound)'
    BY <1>1 DEF CleanTarPath, RemoveTarPath
  <2> HIDE DEF TypeOK, RequestsOnlyWhenUp, StepsOfTheMode, SnapshotRenamed, FilesAreSound
  <2> QED
    BY <2>1, <2>2, <2>3, <2>4 DEF IInv
<1>2. CASE CleanLink
  <2>1. TypeOK'
    BY <1>2 DEF CleanLink, UnlinkVarJb
  <2>2. (RequestsOnlyWhenUp /\ StepsOfTheMode)'
    BY <1>2 DEF CleanLink, UnlinkVarJb
  <2>3. SnapshotRenamed'
    BY <1>2 DEF CleanLink, UnlinkVarJb
  <2>4. (~falseStart => FilesAreSound)'
    BY <1>2 DEF CleanLink, UnlinkVarJb
  <2> HIDE DEF TypeOK, RequestsOnlyWhenUp, StepsOfTheMode, SnapshotRenamed, FilesAreSound
  <2> QED
    BY <2>1, <2>2, <2>3, <2>4 DEF IInv
<1> QED
  BY <1>1, <1>2 DEF CleanupStep

\* So does every step of an obliterate request.
LEMMA ObliterateStepKeeps == IInv /\ ObliterateStep => IInv'
<1> SUFFICES ASSUME IInv, ObliterateStep PROVE IInv'
  OBVIOUS
<1>1. CASE ObliterateDirs
  <2>1. TypeOK'
    BY <1>1 DEF ObliterateDirs, RemoveDirs, RemovedDirs, CannotRemove
  <2>2. (RequestsOnlyWhenUp /\ StepsOfTheMode)'
    BY <1>1 DEF ObliterateDirs, RemoveDirs, RemovedDirs, CannotRemove
  <2>3. SnapshotRenamed'
    BY <1>1 DEF ObliterateDirs, RemoveDirs, RemovedDirs, CannotRemove
  <2>4. (~falseStart => FilesAreSound)'
    BY <1>1 DEF ObliterateDirs, RemoveDirs, RemovedDirs, CannotRemove
  <2> HIDE DEF TypeOK, RequestsOnlyWhenUp, StepsOfTheMode, SnapshotRenamed, FilesAreSound
  <2> QED
    BY <2>1, <2>2, <2>3, <2>4 DEF IInv
<1>2. CASE ObliterateLink
  <2>1. TypeOK'
    BY <1>2 DEF ObliterateLink, RemoveVarJb
  <2>2. (RequestsOnlyWhenUp /\ StepsOfTheMode)'
    BY <1>2 DEF ObliterateLink, RemoveVarJb
  <2>3. SnapshotRenamed'
    BY <1>2 DEF ObliterateLink, RemoveVarJb
  <2>4. (~falseStart => FilesAreSound)'
    BY <1>2 DEF ObliterateLink, RemoveVarJb
  <2> HIDE DEF TypeOK, RequestsOnlyWhenUp, StepsOfTheMode, SnapshotRenamed, FilesAreSound
  <2> QED
    BY <2>1, <2>2, <2>3, <2>4 DEF IInv
<1>3. CASE ObliterateSnapshot
  <2>1. TypeOK'
    <3> HIDE DEF RequestsOnlyWhenUp, StepsOfTheMode, SnapshotRenamed, FilesAreSound
    <3>1. /\ origfs' \in BOOLEAN /\ revertPending' \in BOOLEAN /\ attempt' \in Attempt
          /\ root' \in RootState
      BY <1>3 DEF ObliterateSnapshot, CleanFakefs, NameSnapshotBack
    <3>2. stage' \in Stage /\ pc' \in Pc /\ dir' \in JbDirs \cup {NoDir} /\ reply' \in Reply
      BY <1>3 DEF ObliterateSnapshot, CleanFakefs, NameSnapshotBack
    <3> QED
      BY <1>3, <3>1, <3>2 DEF ObliterateSnapshot
  <2>2. (RequestsOnlyWhenUp /\ StepsOfTheMode)'
    BY <1>3 DEF ObliterateSnapshot, CleanFakefs, NameSnapshotBack
  <2>3. SnapshotRenamed'
    BY <1>3 DEF ObliterateSnapshot, CleanFakefs, NameSnapshotBack
  <2>4. (~falseStart => FilesAreSound)'
    BY <1>3 DEF ObliterateSnapshot, CleanFakefs, NameSnapshotBack
  <2> HIDE DEF TypeOK, RequestsOnlyWhenUp, StepsOfTheMode, SnapshotRenamed, FilesAreSound
  <2> QED
    BY <2>1, <2>2, <2>3, <2>4 DEF IInv
<1>4. CASE ObliterateRevert
  <2>1. TypeOK'
    <3> HIDE DEF RequestsOnlyWhenUp, StepsOfTheMode, SnapshotRenamed, FilesAreSound
    <3>1. /\ origfs' \in BOOLEAN /\ revertPending' \in BOOLEAN /\ attempt' \in Attempt
          /\ root' \in RootState
      BY <1>4 DEF ObliterateRevert, RevertToSnapshot
    <3>2. stage' \in Stage /\ pc' \in Pc /\ dir' \in JbDirs \cup {NoDir} /\ reply' \in Reply
      BY <1>4 DEF ObliterateRevert, RevertToSnapshot
    <3> QED
      BY <1>4, <3>1, <3>2 DEF ObliterateRevert
  <2>2. (RequestsOnlyWhenUp /\ StepsOfTheMode)'
    BY <1>4 DEF ObliterateRevert, RevertToSnapshot
  <2>3. SnapshotRenamed'
    BY <1>4 DEF ObliterateRevert, RevertToSnapshot
  <2>4. (~falseStart => FilesAreSound)'
    BY <1>4 DEF ObliterateRevert, RevertToSnapshot
  <2> HIDE DEF TypeOK, RequestsOnlyWhenUp, StepsOfTheMode, SnapshotRenamed, FilesAreSound
  <2> QED
    BY <2>1, <2>2, <2>3, <2>4 DEF IInv
<1>5. CASE ReloadAfterObliterate
  <2>1. TypeOK'
    BY <1>5, EnvIsLoaded DEF ReloadAfterObliterate, ReloadEnv
  <2>2. (RequestsOnlyWhenUp /\ StepsOfTheMode)'
    BY <1>5, EnvIsLoaded DEF ReloadAfterObliterate, ReloadEnv
  <2>3. SnapshotRenamed'
    BY <1>5, EnvIsLoaded DEF ReloadAfterObliterate, ReloadEnv
  <2>4. (~falseStart => FilesAreSound)'
    BY <1>5, EnvIsLoaded DEF ReloadAfterObliterate, ReloadEnv
  <2> HIDE DEF TypeOK, RequestsOnlyWhenUp, StepsOfTheMode, SnapshotRenamed, FilesAreSound
  <2> QED
    BY <2>1, <2>2, <2>3, <2>4 DEF IInv
<1>6. CASE FinishObliterate
  <2>1. TypeOK'
    BY <1>6 DEF FinishObliterate
  <2>2. (RequestsOnlyWhenUp /\ StepsOfTheMode)'
    BY <1>6 DEF FinishObliterate
  <2>3. SnapshotRenamed'
    BY <1>6 DEF FinishObliterate
  <2>4. (~falseStart => FilesAreSound)'
    BY <1>6 DEF FinishObliterate
  <2> HIDE DEF TypeOK, RequestsOnlyWhenUp, StepsOfTheMode, SnapshotRenamed, FilesAreSound
  <2> QED
    BY <2>1, <2>2, <2>3, <2>4 DEF IInv
<1> QED
  BY <1>1, <1>2, <1>3, <1>4, <1>5, <1>6 DEF ObliterateStep

\* So do the arrival of requests and what happens around palera1nd.
LEMMA RequestsKeep == IInv /\ Requests => IInv'
<1> SUFFICES ASSUME IInv, Requests PROVE IInv'
  OBVIOUS
<1>1. CASE RefuseBootstrap
  <2>1. TypeOK'
    BY <1>1 DEF RefuseBootstrap
  <2>2. (RequestsOnlyWhenUp /\ StepsOfTheMode)'
    BY <1>1 DEF RefuseBootstrap
  <2>3. SnapshotRenamed'
    BY <1>1 DEF RefuseBootstrap
  <2>4. (~falseStart => FilesAreSound)'
    BY <1>1 DEF RefuseBootstrap
  <2> HIDE DEF TypeOK, RequestsOnlyWhenUp, StepsOfTheMode, SnapshotRenamed, FilesAreSound
  <2> QED
    BY <2>1, <2>2, <2>3, <2>4 DEF IInv
<1>2. CASE StartBootstrap
  <2>1. /\ stage = "up" /\ pc = "idle" /\ pc' \in {"spawn", "mkdir", "snapshot"}
        /\ pc' = IF SSV THEN FirstStep ELSE "snapshot"
        /\ falseStart' = (falseStart \/ (~Rootful /\ Truth # "ENOENT"))
        /\ lostLink' = (lostLink /\ Truth # "ENOENT")
        /\ reply' = "none" /\ ~ForceRevert
        /\ UNCHANGED <<stage, pflags, files, jbroot, rootfs, dir, acked, lostEnv>>
    BY <1>2 DEF StartBootstrap, MayBootstrap, FirstStep
  <2>2. Truth = "ENOENT" <=> Present(jb) = {}
    BY PrebootPathFacts DEF Truth
  <2>3. TypeOK'
    BY <2>1
  <2>4. (RequestsOnlyWhenUp /\ StepsOfTheMode)'
    BY <2>1 DEF FirstStep
  <2>5. SnapshotRenamed'
    BY <2>1
  <2>6. ASSUME ~falseStart' PROVE FilesAreSound'
    <3>1. CASE Rootful
      BY <2>1, <2>6, <3>1
    <3>2. CASE ~Rootful
      <4>1. Present(jb) = {} /\ Truth = "ENOENT" /\ ~lostLink'
        BY <2>1, <2>2, <2>6, <3>2
      <4>2. acked = NoDir
        BY <2>1, <2>6, <4>1
      <4> QED
        BY <2>1, <2>6, <3>2, <4>1, <4>2 DEF FirstStep
    <3> QED
      BY <3>1, <3>2
  <2> HIDE DEF TypeOK, RequestsOnlyWhenUp, StepsOfTheMode, SnapshotRenamed, FilesAreSound
  <2> QED
    BY <2>3, <2>4, <2>5, <2>6 DEF IInv
<1>3. CASE StartObliterate
  <2>1. TypeOK'
    BY <1>3 DEF StartObliterate
  <2>2. (RequestsOnlyWhenUp /\ StepsOfTheMode)'
    BY <1>3 DEF StartObliterate
  <2>3. SnapshotRenamed'
    BY <1>3 DEF StartObliterate
  <2>4. (~falseStart => FilesAreSound)'
    BY <1>3 DEF StartObliterate
  <2> HIDE DEF TypeOK, RequestsOnlyWhenUp, StepsOfTheMode, SnapshotRenamed, FilesAreSound
  <2> QED
    BY <2>1, <2>2, <2>3, <2>4 DEF IInv
<1> QED
  BY <1>1, <1>2, <1>3 DEF Requests

\* Boots, reboots, kills, preference files and half-done removals keep it too.
LEMMA EnvironmentKeeps == IInv /\ Environment => IInv'
<1> SUFFICES ASSUME IInv, Environment PROVE IInv'
  OBVIOUS
<1>1. ASSUME NEW f \in BootFlags, Boot(f) PROVE IInv'
  <2>1. f \in SUBSET {"rootful", "force_revert"}
    OBVIOUS
  <2>2. "rootful" \notin f /\ "force_revert" \in f => f = {"force_revert"}
    <3>1. \A n \in f : n = "rootful" \/ n = "force_revert"
      BY <2>1
    <3>2. SUFFICES ASSUME "rootful" \notin f, "force_revert" \in f
                   PROVE  \A n : n \in f <=> n \in {"force_revert"}
      BY Zenon
    <3> QED
      BY <3>1, <3>2
  <2>3. /\ \/ root' = "stock" /\ revertPending' = FALSE
           \/ UNCHANGED <<root, revertPending>>
        /\ UNCHANGED <<origfs, attempt>>
    BY <1>1 DEF Boot, MountRoot
  <2>4. /\ stage = "off" /\ stage' = "spawn" /\ pc' = "idle" /\ dir' = NoDir /\ reply' = "none"
        /\ pflags' = f /\ jbroot' \in {"/", "/var/jb"}
        /\ UNCHANGED <<jb, varjb, falseStart, lostLink, lostEnv>>
    BY <1>1 DEF Boot
  <2>5. (acked' = acked \/ acked' = NoDir) /\ (f = {"force_revert"} => acked' = NoDir)
    BY <1>1 DEF Boot
  <2>6. TypeOK'
    <3> HIDE DEF RequestsOnlyWhenUp, StepsOfTheMode, SnapshotRenamed, FilesAreSound
    <3>1. /\ root' \in RootState /\ origfs' \in BOOLEAN /\ revertPending' \in BOOLEAN
          /\ attempt' \in Attempt
      BY <2>3
    <3>2. /\ stage' \in Stage /\ pc' \in Pc /\ dir' \in JbDirs \cup {NoDir} /\ reply' \in Reply
          /\ pflags' \in SUBSET FlagNames /\ jbroot' \in RootPath
      BY <2>1, <2>4
    <3> QED
      BY <2>4, <2>5, <3>1, <3>2
  <2>7. (RequestsOnlyWhenUp /\ StepsOfTheMode /\ SnapshotRenamed)'
    BY <2>3, <2>4
  <2>8. ASSUME ~falseStart' PROVE FilesAreSound'
    <3>1. (SingleJbDir /\ LinkIsToProcursus /\ BeforeMkdir /\ DirInProgress)'
      BY <2>4, <2>8
    <3>2. (EnvInStep /\ LostLinkIsForProcursus)'
      BY <2>4
    <3>3. AckedUntouched'
      <4>1. acked' # NoDir => acked' = acked /\ acked # NoDir
        BY <2>5
      <4>2. acked' # NoDir /\ "rootful" \notin f => "force_revert" \notin f
        BY <2>2, <2>5
      <4>3. acked' # NoDir => jb[acked] = "installed" /\ varjb \in {"none", "artifact", acked}
        BY <2>4, <2>8, <4>1
      <4> HIDE DEF IInv
      <4> QED
        BY <2>4, <4>1, <4>2, <4>3
    <3> HIDE DEF SingleJbDir, LinkIsToProcursus, BeforeMkdir, DirInProgress, AckedUntouched,
                 EnvInStep, LostLinkIsForProcursus
    <3> QED
      BY <3>1, <3>2, <3>3 DEF FilesAreSound
  <2> HIDE DEF TypeOK, RequestsOnlyWhenUp, StepsOfTheMode, SnapshotRenamed, FilesAreSound
  <2> QED
    BY <2>6, <2>7, <2>8 DEF IInv
<1>2. CASE UserspaceReboot
  <2>1. TypeOK'
    BY <1>2 DEF UserspaceReboot
  <2>2. (RequestsOnlyWhenUp /\ StepsOfTheMode)'
    BY <1>2 DEF UserspaceReboot
  <2>3. SnapshotRenamed'
    BY <1>2 DEF UserspaceReboot
  <2>4. (~falseStart => FilesAreSound)'
    BY <1>2 DEF UserspaceReboot
  <2> HIDE DEF TypeOK, RequestsOnlyWhenUp, StepsOfTheMode, SnapshotRenamed, FilesAreSound
  <2> QED
    BY <2>1, <2>2, <2>3, <2>4 DEF IInv
<1>3. CASE PowerOff
  <2>1. TypeOK'
    BY <1>3 DEF PowerOff
  <2>2. (RequestsOnlyWhenUp /\ StepsOfTheMode)'
    BY <1>3 DEF PowerOff
  <2>3. SnapshotRenamed'
    BY <1>3 DEF PowerOff
  <2>4. (~falseStart => FilesAreSound)'
    BY <1>3 DEF PowerOff
  <2> HIDE DEF TypeOK, RequestsOnlyWhenUp, StepsOfTheMode, SnapshotRenamed, FilesAreSound
  <2> QED
    BY <2>1, <2>2, <2>3, <2>4 DEF IInv
<1>4. CASE Kill
  <2>1. TypeOK'
    BY <1>4 DEF Kill
  <2>2. (RequestsOnlyWhenUp /\ StepsOfTheMode)'
    BY <1>4 DEF Kill
  <2>3. SnapshotRenamed'
    BY <1>4 DEF Kill
  <2>4. (~falseStart => FilesAreSound)'
    BY <1>4 DEF Kill
  <2> HIDE DEF TypeOK, RequestsOnlyWhenUp, StepsOfTheMode, SnapshotRenamed, FilesAreSound
  <2> QED
    BY <2>1, <2>2, <2>3, <2>4 DEF IInv
<1>5. CASE PrefsCreateVarJb
  <2>1. TypeOK'
    BY <1>5 DEF PrefsCreateVarJb
  <2>2. (RequestsOnlyWhenUp /\ StepsOfTheMode)'
    BY <1>5 DEF PrefsCreateVarJb
  <2>3. SnapshotRenamed'
    BY <1>5 DEF PrefsCreateVarJb
  <2>4. (~falseStart => FilesAreSound)'
    BY <1>5 DEF PrefsCreateVarJb
  <2> HIDE DEF TypeOK, RequestsOnlyWhenUp, StepsOfTheMode, SnapshotRenamed, FilesAreSound
  <2> QED
    BY <2>1, <2>2, <2>3, <2>4 DEF IInv
<1>6. ASSUME NEW d \in JbDirs, RemovalProgress(d) PROVE IInv'
  <2>1. TypeOK'
    BY <1>6 DEF RemovalProgress, Removing
  <2>2. (RequestsOnlyWhenUp /\ StepsOfTheMode)'
    BY <1>6 DEF RemovalProgress, Removing
  <2>3. SnapshotRenamed'
    BY <1>6 DEF RemovalProgress, Removing
  <2>4. (~falseStart => FilesAreSound)'
    BY <1>6 DEF RemovalProgress, Removing
  <2> HIDE DEF TypeOK, RequestsOnlyWhenUp, StepsOfTheMode, SnapshotRenamed, FilesAreSound
  <2> QED
    BY <2>1, <2>2, <2>3, <2>4 DEF IInv
<1> QED
  BY <1>1, <1>2, <1>3, <1>4, <1>5, <1>6 DEF Environment

\* A step that changes none of the variables changes none of the conjuncts.
LEMMA StutteringKeeps == IInv /\ UNCHANGED vars => IInv'
<1> SUFFICES ASSUME IInv, UNCHANGED vars PROVE IInv'
  OBVIOUS
<1>1. TypeOK'
  BY DEF vars
<1>2. (RequestsOnlyWhenUp /\ StepsOfTheMode)'
  BY DEF vars
<1>3. SnapshotRenamed'
  BY DEF vars
<1>4. (~falseStart => FilesAreSound)'
  BY DEF vars
<1> HIDE DEF TypeOK, RequestsOnlyWhenUp, StepsOfTheMode, SnapshotRenamed, FilesAreSound
<1> QED
  BY <1>1, <1>2, <1>3, <1>4 DEF IInv

-----------------------------------------------------------------------------
(* The theorems.                                                           *)

\* Whatever fails, is killed or loses power, and however often: every
\* reachable state of the bootstrap, obliterate and boot code satisfies IInv.
THEOREM Invariance == Spec => []IInv
<1>1. IInv /\ [Next]_vars => IInv'
  <2> SUFFICES ASSUME IInv, [Next]_vars PROVE IInv'
    OBVIOUS
  <2> HIDE DEF IInv
  <2>1. CASE LoaderStep
    BY <2>1, LoaderStepKeeps
  <2>2. CASE JailbreakdStep
    BY <2>2, InstallStepKeeps, CleanupStepKeeps, ObliterateStepKeeps DEF JailbreakdStep
  <2>3. CASE Requests
    BY <2>3, RequestsKeep
  <2>4. CASE Environment
    BY <2>4, EnvironmentKeeps
  <2>5. CASE UNCHANGED vars
    BY <2>5, StutteringKeeps
  <2> QED
    BY <2>1, <2>2, <2>3, <2>4, <2>5 DEF Next
<1> HIDE DEF IInv
<1> QED
  BY <1>1, InitEstablishes, PTL DEF Spec

\* Until a bootstrap is begun because opendir failed on a directory that is
\* there, jailbreak_get_prebootPath never finds two jb- directories to choose
\* from, and a link at /var/jb never leads past the one that holds procursus.
THEOREM DirectoriesAreSound == Spec => []JbDirsAreSound
<1>1. IInv => JbDirsAreSound
  BY DEF JbDirsAreSound
<1> HIDE DEF IInv, JbDirsAreSound
<1> QED
  BY <1>1, Invariance, PTL

\* What palera1nd answered with Success survives every kill, power loss and
\* reboot until its removal is requested or a bootstrap is begun over it on a
\* false ENOENT; /var/jb leads to it unless this boot task could not read the
\* directory, and launchd's environment names it unless the last reload could not.
THEOREM AcknowledgedInstallsAreDurable == Spec => []AcknowledgedInstallHolds
<1>1. IInv => AcknowledgedInstallHolds
  BY DEF AcknowledgedInstallHolds, InstallIsDurable, EnvFollowsInstall
<1> HIDE DEF IInv, AcknowledgedInstallHolds
<1> QED
  BY <1>1, Invariance, PTL

\* On a device without a signed system volume whose root file system differs
\* from the pristine one, the snapshot is orig-fs until a revert is attempted,
\* and an attempt none of whose calls failed has scheduled the revert, however
\* many attempts failed or were cut short before.  (bootstrap.c, revert_snapshot)
THEOREM RootStaysRevertible == Spec => []RootCanBeReverted
<1>1. IInv => RootCanBeReverted
  BY DEF RootCanBeReverted
<1> HIDE DEF IInv
<1> QED
  BY <1>1, Invariance, PTL

\* No step of a rootful boot changes the jb- directories of a rootless
\* install: neither remove_jailbreak_files nor REMOVE_TPATH, and no request.
THEOREM RootfulBootsKeepThem == Spec => RootfulLeavesPreboot
<1>1. IInv /\ [Next]_vars => (Rootful /\ stage # "off" => UNCHANGED jb)
  <2> SUFFICES ASSUME IInv, [Next]_vars, Rootful, stage # "off" PROVE UNCHANGED jb
    BY DEF files
  <2>1. CASE LoaderStep
    BY <2>1 DEF LoaderStep, SpawnPayload, StageRevert, RemoveDirs, RemovedDirs, StageRevertLink,
                StageRevertName, StageRevertSnapshot, StageVarJb
  <2>2. CASE InstallStep
    BY <2>2 DEF InstallStep, RenameSnapshot, MakeDir, ClearBogus, ClearLink, SpawnTar, Extract,
                RenameTree, LinkVarJb, Configure, MarkInstalled, CheckLaunchDaemons,
                ReloadAfterInstall, ReloadEnv, AnswerSuccess
  <2>3. CASE CleanupStep
    BY <2>3 DEF CleanupStep, CleanTarPath, RemoveTarPath, CleanLink
  <2>4. CASE ObliterateDirs
    BY <2>4 DEF ObliterateDirs, RemoveDirs, RemovedDirs
  <2>5. CASE ObliterateStep /\ ~ObliterateDirs
    BY <2>5 DEF ObliterateStep, ObliterateLink, ObliterateSnapshot, ObliterateRevert,
                ReloadAfterObliterate, ReloadEnv, FinishObliterate
  <2>6. CASE Requests
    BY <2>6 DEF Requests, RefuseBootstrap, StartBootstrap, StartObliterate
  <2>7. CASE Environment
    BY <2>7 DEF Environment, Boot, UserspaceReboot, PowerOff, Kill, PrefsCreateVarJb,
                RemovalProgress
  <2>8. CASE UNCHANGED vars
    BY <2>8 DEF vars
  <2> QED
    BY <2>1, <2>2, <2>3, <2>4, <2>5, <2>6, <2>7, <2>8 DEF Next, JailbreakdStep
<1> HIDE DEF IInv, Rootful
<1> QED
  BY <1>1, Invariance, PTL DEF Spec, RootfulLeavesPreboot

-----------------------------------------------------------------------------
(* What requests leave behind as long as nobody is cut short.              *)

\* With every lookup working, JB_ROOT_PATH becomes what the files say.
LEMMA EnvIsTrue ==
  ASSUME NobodyIsCutShort, TypeOK, LoadJailbreakEnv
  PROVE  /\ Rootful => jbroot' = jbroot
         /\ ~Rootful => \/ jbroot' = "/var/jb"
                        \/ jbroot' \in JbDirs /\ HasProcursus(jb, jbroot')
                        \/ jbroot' = jbroot /\ Present(jb) # {}
         /\ ~Rootful /\ Present(jb) = {} => jbroot' = "/var/jb"
<1>1. PICK path \in Answers : jbroot' = EnvWith(path)
  BY DEF LoadJailbreakEnv
<1>2. path = PrebootPath(jb)
  <2>1. ("lookup" \in Faults) \in BOOLEAN /\ ~("lookup" \in Faults)
    BY DEF NobodyIsCutShort
  <2> QED
    BY <1>1, <2>1 DEF Answers, PrebootAnswers
<1> QED
  BY <1>1, <1>2, PrebootPathFacts DEF EnvWith, LoadEnv

\* ... no bootstrap starts where there is a directory ...
LEMMA NobodyIsMisled ==
  ASSUME NobodyIsCutShort, TypeOK, ~falseStart, [Next]_vars PROVE ~falseStart'
<1>1. CASE StartBootstrap
  <2>1. Answers = {Truth}
    BY DEF NobodyIsCutShort, Answers, Truth, PrebootAnswers
  <2> QED
    BY <1>1, <2>1 DEF StartBootstrap, MayBootstrap
<1>2. CASE Next /\ ~StartBootstrap
  <2>1. CASE LoaderStep
    BY <2>1 DEF LoaderStep, SpawnPayload, LoadJailbreakEnv, StageRevert, StageRevertLink,
                StageRevertName, StageRevertSnapshot, StageVarJb
  <2>2. CASE InstallStep
    BY <2>2 DEF InstallStep, RenameSnapshot, MakeDir, ClearBogus, ClearLink, SpawnTar, Extract,
                RenameTree, LinkVarJb, Configure, MarkInstalled, CheckLaunchDaemons,
                ReloadAfterInstall, ReloadEnv, LoadJailbreakEnv, AnswerSuccess
  <2>3. CASE CleanupStep \/ ObliterateStep
    BY <2>3 DEF CleanupStep, CleanTarPath, CleanLink, ObliterateStep, ObliterateDirs,
                ObliterateLink, ObliterateSnapshot, ObliterateRevert, ReloadAfterObliterate,
                ReloadEnv, LoadJailbreakEnv, FinishObliterate
  <2>4. CASE Requests
    BY <1>2, <2>4 DEF Requests, RefuseBootstrap, StartObliterate
  <2>5. CASE Environment
    BY <2>5 DEF Environment, Boot, UserspaceReboot, PowerOff, Kill, PrefsCreateVarJb,
                RemovalProgress
  <2> QED
    BY <1>2, <2>1, <2>2, <2>3, <2>4, <2>5 DEF Next, JailbreakdStep
<1>3. CASE UNCHANGED vars
  BY <1>3 DEF vars
<1> QED
  BY <1>1, <1>2, <1>3

\* ... and create_var_jb makes a link to procursus, or none.
LEMMA LinkIsTrue ==
  ASSUME TypeOK, NEW path \in Answers, varjb' = VarJbWith(path)
  PROVE  varjb' \in JbDirs => ~Rootful /\ (varjb' = varjb \/ HasProcursus(jb, varjb'))
<1>1. CASE Rootful
  BY <1>1 DEF VarJbWith, UnlinkVarJb, RemoveBogusVarJb
<1>2. CASE ~Rootful
  BY <1>2, LinkIsRepaired
<1> QED
  BY <1>1, <1>2

\* A device that was never jailbroken has no link and no JB_ROOT_PATH to dangle.
LEMMA CleanInit == Init => CleanIInv
<1> SUFFICES ASSUME Init PROVE CleanIInv
  OBVIOUS
<1> QED
  BY DEF Init, CleanIInv, LinkIsSolid, EnvIsSolid, RemovalGetsThere

\* The boot task leaves no link and no JB_ROOT_PATH without its directory.
LEMMA LoaderStepIsClean ==
  ASSUME NobodyIsCutShort, IInv, IInv', ~falseStart, ~falseStart', CleanIInv, LoaderStep PROVE CleanIInv'
<1> USE DEF CleanIInv, NobodyIsCutShort
<1>1. CASE SpawnPayload
  <2>1. LinkIsSolid' /\ RemovalGetsThere'
    BY <1>1 DEF SpawnPayload, LinkIsSolid, RemovalGetsThere
  <2>2. EnvIsSolid'
    BY <1>1, EnvIsTrue DEF SpawnPayload, EnvIsSolid
  <2> QED
    BY <2>1, <2>2
<1>2. CASE StageRevert
  <2>1. LinkIsSolid'
    <3>1. CASE UNCHANGED jb /\ stage' = "varjb"
      <4>1. ~ForceRevert \/ Rootful
        BY <1>2, <3>1 DEF StageRevert, CannotRemove
      <4> QED
        BY <1>2, <3>1, <4>1 DEF StageRevert, LinkIsSolid
    <3>2. CASE ForceRevert /\ Rootful /\ RemoveDirs
      BY <1>2, <3>2 DEF StageRevert, RemoveDirs, RemovedDirs, LinkIsSolid
    <3>3. CASE ForceRevert /\ ~Rootful /\ stage' = "revert_link"
      BY <1>2, <3>3 DEF StageRevert, LinkIsSolid
    <3> QED
      BY <1>2, <3>1, <3>2, <3>3 DEF StageRevert
  <2>2. EnvIsSolid'
    BY <1>2 DEF StageRevert, RemoveDirs, RemovedDirs, EnvIsSolid
  <2>3. RemovalGetsThere'
    BY <1>2 DEF StageRevert, RemoveDirs, RemovedDirs, RemovalGetsThere
  <2> QED
    BY <2>1, <2>2, <2>3
<1>3. CASE StageRevertLink
  BY <1>3 DEF StageRevertLink, RemoveVarJb, LinkIsSolid, EnvIsSolid, RemovalGetsThere
<1>4. CASE StageVarJb
  <2>1. varjb' \in JbDirs => ~Rootful /\ (varjb' = varjb \/ HasProcursus(jb, varjb'))
    BY <1>4, LinkIsTrue DEF StageVarJb
  <2>2. LinkIsSolid'
    BY <1>4, <2>1 DEF StageVarJb, LinkIsSolid
  <2>3. EnvIsSolid' /\ RemovalGetsThere'
    BY <1>4, <2>1 DEF StageVarJb, EnvIsSolid, RemovalGetsThere
  <2> QED
    BY <2>2, <2>3
<1>5. CASE StageRevertName \/ StageRevertSnapshot
  BY <1>5 DEF StageRevertName, NameSnapshotBack, StageRevertSnapshot, LinkIsSolid, EnvIsSolid,
              RemovalGetsThere
<1> QED
  BY <1>1, <1>2, <1>3, <1>4, <1>5 DEF LoaderStep

\* A bootstrap request links only a directory that holds procursus.
LEMMA InstallStepIsClean ==
  ASSUME NobodyIsCutShort, IInv, IInv', ~falseStart, ~falseStart', CleanIInv, InstallStep PROVE CleanIInv'
<1> USE DEF CleanIInv
<1>1. LinkIsSolid'
  <2>1. CASE RenameSnapshot \/ MakeDir \/ ClearBogus \/ ClearLink \/ SpawnTar \/ Extract
    BY <2>1 DEF RenameSnapshot, MakeDir, ClearBogus, RemoveBogusVarJb, ClearLink, UnlinkVarJb,
                SpawnTar, Extract, LinkIsSolid
  <2>2. CASE RenameTree \/ LinkVarJb \/ Configure \/ MarkInstalled
    BY <2>2 DEF RenameTree, LinkVarJb, Configure, MarkInstalled, LinkIsSolid
  <2>3. CASE CheckLaunchDaemons \/ ReloadAfterInstall \/ AnswerSuccess
    BY <2>3 DEF CheckLaunchDaemons, ReloadAfterInstall, ReloadEnv, AnswerSuccess, LinkIsSolid
  <2> QED
    BY <2>1, <2>2, <2>3 DEF InstallStep
<1>2. EnvIsSolid'
  <2>1. CASE RenameSnapshot \/ MakeDir \/ ClearBogus \/ ClearLink \/ SpawnTar \/ Extract
    BY <2>1 DEF RenameSnapshot, FirstStep, MakeDir, ClearBogus, ClearLink, SpawnTar, Extract,
                EnvIsSolid
  <2>2. CASE RenameTree \/ LinkVarJb \/ Configure \/ MarkInstalled
    BY <2>2 DEF RenameTree, LinkVarJb, Configure, MarkInstalled, EnvIsSolid
  <2>3. CASE CheckLaunchDaemons
    BY <2>3 DEF CheckLaunchDaemons, EnvIsSolid
  <2>4. CASE ReloadAfterInstall \/ AnswerSuccess
    BY <2>4, EnvIsTrue DEF ReloadAfterInstall, ReloadEnv, AnswerSuccess, EnvIsSolid
  <2> QED
    BY <2>1, <2>2, <2>3, <2>4 DEF InstallStep
<1>3. RemovalGetsThere'
  BY DEF InstallStep, RenameSnapshot, FirstStep, MakeDir, ClearBogus, ClearLink, SpawnTar,
         Extract, RenameTree, LinkVarJb, Configure, MarkInstalled, CheckLaunchDaemons,
         ReloadAfterInstall, ReloadEnv, AnswerSuccess, RemovalGetsThere
<1> QED
  BY <1>1, <1>2, <1>3

\* RM_STRAP takes the link after the directory.
LEMMA CleanupStepIsClean ==
  ASSUME NobodyIsCutShort, IInv, IInv', ~falseStart, ~falseStart', CleanIInv, CleanupStep PROVE CleanIInv'
<1> USE DEF CleanIInv, NobodyIsCutShort
<1>1. CASE CleanTarPath
  <2>1. LinkIsSolid'
    BY <1>1 DEF CleanTarPath, RemoveTarPath, LinkIsSolid
  <2>2. EnvIsSolid' /\ RemovalGetsThere'
    BY <1>1 DEF CleanTarPath, RemoveTarPath, EnvIsSolid, RemovalGetsThere
  <2> QED
    BY <2>1, <2>2
<1>2. CASE CleanLink
  BY <1>2 DEF CleanLink, UnlinkVarJb, LinkIsSolid, EnvIsSolid, RemovalGetsThere
<1> QED
  BY <1>1, <1>2 DEF CleanupStep

\* revert_rootless takes the directories, then the link, and has launchd
\* reload its environment.
LEMMA ObliterateStepIsClean ==
  ASSUME NobodyIsCutShort, IInv, IInv', ~falseStart, ~falseStart', CleanIInv, ObliterateStep PROVE CleanIInv'
<1> USE DEF CleanIInv, NobodyIsCutShort
<1>1. CASE ObliterateDirs
  BY <1>1 DEF ObliterateDirs, RemoveDirs, RemovedDirs, CannotRemove, LinkIsSolid, EnvIsSolid,
              RemovalGetsThere
<1>2. CASE ObliterateLink
  BY <1>2 DEF ObliterateLink, RemoveVarJb, LinkIsSolid, EnvIsSolid, RemovalGetsThere
<1>3. CASE ObliterateSnapshot \/ ObliterateRevert
  <2>1. /\ Rootful /\ UNCHANGED <<stage, pflags, files, jbroot, reply>>
        /\ pc' \in {"obl_reload", "obl_revert"}
    BY <1>3 DEF ObliterateSnapshot, NameSnapshotBack, ObliterateRevert
  <2> QED
    BY <2>1 DEF LinkIsSolid, EnvIsSolid, RemovalGetsThere
<1>4. CASE ReloadAfterObliterate
  <2>1. LinkIsSolid'
    BY <1>4 DEF ReloadAfterObliterate, ReloadEnv, LinkIsSolid
  <2>2. EnvIsSolid'
    BY <1>4, EnvIsTrue DEF ReloadAfterObliterate, ReloadEnv, EnvIsSolid, RemovalGetsThere
  <2>3. RemovalGetsThere'
    BY <1>4, EnvIsTrue DEF ReloadAfterObliterate, ReloadEnv, RemovalGetsThere
  <2> QED
    BY <2>1, <2>2, <2>3
<1>5. CASE FinishObliterate
  BY <1>5 DEF FinishObliterate, LinkIsSolid, EnvIsSolid, RemovalGetsThere
<1> QED
  BY <1>1, <1>2, <1>3, <1>4, <1>5 DEF ObliterateStep

\* A bootstrap request starts only where there is nothing to link to.
LEMMA RequestsAreClean ==
  ASSUME NobodyIsCutShort, IInv, IInv', ~falseStart, ~falseStart', CleanIInv, Requests PROVE CleanIInv'
<1> USE DEF CleanIInv
<1>1. CASE RefuseBootstrap
  BY <1>1 DEF RefuseBootstrap, LinkIsSolid, EnvIsSolid, RemovalGetsThere
<1>2. CASE StartBootstrap
  <2>1. ~Rootful => Present(jb) = {}
    BY <1>2, PrebootPathFacts DEF StartBootstrap, Truth
  <2> QED
    BY <1>2, <2>1 DEF StartBootstrap, MayBootstrap, FirstStep, LinkIsSolid, EnvIsSolid, RemovalGetsThere
<1>3. CASE StartObliterate
  BY <1>3 DEF StartObliterate, LinkIsSolid, EnvIsSolid, RemovalGetsThere
<1> QED
  BY <1>1, <1>2, <1>3 DEF Requests

\* Nor do boots and restarts that find palera1nd idle leave anything dangling.
LEMMA EnvironmentIsClean ==
  ASSUME NobodyIsCutShort, IInv, IInv', ~falseStart, ~falseStart', CleanIInv, Environment PROVE CleanIInv'
<1> USE DEF CleanIInv, NobodyIsCutShort
<1>1. CASE \E f \in BootFlags : Boot(f)
  BY <1>1 DEF Boot, LinkIsSolid, EnvIsSolid, RemovalGetsThere
<1>2. CASE UserspaceReboot \/ PowerOff
  BY <1>2 DEF UserspaceReboot, PowerOff, LinkIsSolid, EnvIsSolid, RemovalGetsThere
<1>3. CASE Kill \/ PrefsCreateVarJb
  BY <1>3 DEF Kill, PrefsCreateVarJb, LinkIsSolid, EnvIsSolid, RemovalGetsThere
<1>4. CASE \E d \in JbDirs : RemovalProgress(d)
  <2>1. PICK d \in JbDirs : RemovalProgress(d)
    BY <1>4
  <2>2. LinkIsSolid'
    BY <2>1 DEF RemovalProgress, Removing, LinkIsSolid
  <2>3. EnvIsSolid'
    BY <2>1 DEF RemovalProgress, Removing, EnvIsSolid
  <2>4. RemovalGetsThere'
    BY <2>1 DEF RemovalProgress, Removing, RemovalGetsThere
  <2> QED
    BY <2>2, <2>3, <2>4
<1> QED
  BY <1>1, <1>2, <1>3, <1>4 DEF Environment

\* As long as palera1nd is not killed, the device not cut off and no removal
\* gives up, a request that has ended left no dangling link and no stale
\* JB_ROOT_PATH, and a removal answered with Success left nothing behind.
\* (bootstrap.c: RM_STRAP; obliterate.c: revert_rootless, reload_launchd_env)
THEOREM EndedRequestsLeaveNothing ==
  ASSUME NobodyIsCutShort PROVE Spec => []EndedRequestsAreClean
<1>1. ASSUME IInv, ~falseStart, [Next]_vars PROVE ~falseStart'
  BY <1>1, NobodyIsMisled
<1>2. ASSUME IInv, IInv', ~falseStart, CleanIInv, [Next]_vars PROVE CleanIInv'
  <2> HIDE DEF IInv
  <2>0. ~falseStart'
    BY <1>1, <1>2
  <2>1. CASE LoaderStep
    BY <1>2, <2>0, <2>1, LoaderStepIsClean
  <2>2. CASE JailbreakdStep
    BY <1>2, <2>0, <2>2, InstallStepIsClean, CleanupStepIsClean, ObliterateStepIsClean
       DEF JailbreakdStep
  <2>3. CASE Requests
    BY <1>2, <2>0, <2>3, RequestsAreClean
  <2>4. CASE Environment
    BY <1>2, <2>0, <2>4, EnvironmentIsClean
  <2>5. CASE UNCHANGED vars
    BY <1>2, <2>5 DEF vars, CleanIInv, LinkIsSolid, EnvIsSolid, RemovalGetsThere
  <2> QED
    BY <1>2, <2>1, <2>2, <2>3, <2>4, <2>5 DEF Next
<1>3. IInv /\ CleanIInv => EndedRequestsAreClean
  BY PrebootPathFacts
     DEF CleanIInv, LinkIsSolid, EnvIsSolid, RemovalGetsThere, EndedRequestsAreClean,
         NothingDangles, ObliteratedIsGone
<1>4. Init => ~falseStart
  BY DEF Init
<1> HIDE DEF IInv, EndedRequestsAreClean
<1> QED
  BY <1>1, <1>2, <1>3, <1>4, CleanInit, Invariance, PTL DEF Spec

-----------------------------------------------------------------------------
(* Bootstrap implements Install: every step of the requests, of the boot   *)
(* and of the faults is a step of Install or changes nothing it can see.   *)

\* The variables of Install, as the refinement maps them.
Tree   == [d \in JbDirs |-> TreeOf(d)]
Worker == IF pc \in InstallPc /\ ~Rootful THEN dir ELSE NoDir
Used   == IF stage # "up" \/ Rootful \/ lostLink THEN "down"
          ELSE IF varjb \in JbDirs /\ HasProcursus(jb, varjb) THEN varjb
          ELSE NoDir

Simulated == Promise!Next \/ UNCHANGED Promise!vars

\* What each action of Install asks of the mapped variables.
LEMMA Stutters == UNCHANGED <<Tree, Worker, acked, Used>> => Simulated
BY Zenon DEF Simulated, Promise!vars, Tree, Worker, Used

\* mkdtemp begins an installation.
LEMMA Begins ==
  ASSUME NEW d \in JbDirs,
         \A e \in JbDirs : Tree[e] = "none",
         Tree' = [Tree EXCEPT ![d] = "partial"],
         Worker' \in {d, NoDir},
         UNCHANGED <<acked, Used>>
  PROVE  Simulated
BY Zenon DEF Simulated, Promise!Next, Promise!Begin, Tree, Worker, Used

\* .installed_palera1n completes it.
LEMMA Completes ==
  ASSUME Worker \in JbDirs, Tree[Worker] = "partial",
         Tree' = [Tree EXCEPT ![Worker] = "whole"],
         UNCHANGED <<Worker, acked, Used>>
  PROVE  Simulated
BY Zenon DEF Simulated, Promise!Next, Promise!Complete, Tree, Worker, Used

\* palera1nd answers with Success.
LEMMA Acknowledges ==
  ASSUME Worker \in JbDirs, Tree[Worker] = "whole", Used = Worker,
         acked' = Worker, Worker' = NoDir, UNCHANGED <<Tree, Used>>
  PROVE  Simulated
BY Zenon DEF Simulated, Promise!Next, Promise!Acknowledge, Tree, Worker, Used

\* A request fails, or dies with palera1nd.
LEMMA Abandons ==
  ASSUME Worker' = NoDir, UNCHANGED <<Tree, acked, Used>> PROVE Simulated
BY Zenon DEF Simulated, Promise!Next, Promise!Abandon, Tree, Worker, Used

\* Somebody asks for a removal.
LEMMA Withdraws ==
  ASSUME acked' = NoDir, UNCHANGED <<Tree, Worker, Used>> PROVE Simulated
BY Zenon DEF Simulated, Promise!Next, Promise!Withdraw, Tree, Worker, Used

\* removefile takes files of a directory.
LEMMA Loses ==
  ASSUME NEW d \in JbDirs, d \notin {Worker, acked}, Tree[d] # "none",
         NEW left \in {"partial", "none"}, Tree' = [Tree EXCEPT ![d] = left],
         Used' \in IF Used = d THEN {d, NoDir} ELSE {Used},
         UNCHANGED <<Worker, acked>>
  PROVE  Simulated
BY Zenon DEF Simulated, Promise!Next, Promise!Lose, Tree, Worker, Used

\* /var/jb is made, removed, or becomes visible.
LEMMA Relinks ==
  ASSUME \/ acked \in JbDirs /\ Used' = acked
         \/ acked \notin JbDirs /\ Used' = NoDir
         \/ acked \notin JbDirs /\ Used' \in JbDirs /\ Tree[Used'] # "none",
         UNCHANGED <<Tree, Worker, acked>>
  PROVE  Simulated
<1>1. Promise!Visible = IF acked \in JbDirs THEN {acked}
                        ELSE {NoDir} \cup {d \in JbDirs : Tree[d] # "none"}
  BY Zenon DEF Promise!Visible, Tree
<1>2. Used' \in Promise!Visible
  BY <1>1
<1> QED
  BY <1>2, Zenon DEF Simulated, Promise!Next, Promise!Relink, Tree, Worker, Used

\* The session or the device ends.
LEMMA GoesDown ==
  ASSUME Used' = "down", Worker' = NoDir, UNCHANGED <<Tree, acked>> PROVE Simulated
BY Zenon DEF Simulated, Promise!Next, Promise!GoDown, Tree, Worker, Used

\* One jb- directory changes.
LEMMA TreeUpdates ==
  ASSUME jb \in [JbDirs -> DirState], NEW d \in JbDirs, NEW s, jb' = [jb EXCEPT ![d] = s]
  PROVE  Tree' = [Tree EXCEPT ![d] = IF s = "absent" THEN "none"
                                     ELSE IF s = "installed" THEN "whole" ELSE "partial"]
BY DEF Tree, TreeOf

\* remove_jailbreak_files takes the only directory there is, or none.
LEMMA RemovesOne ==
  ASSUME TypeOK, SingleJbDir, RemoveDirs
  PROVE  \/ jb' = jb
         \/ \E d \in JbDirs : jb[d] # "absent" /\ jb' = [jb EXCEPT ![d] = "absent"]
<1>1. PICK remove \in SUBSET Present(jb) : jb' = RemovedDirs(remove)
  BY DEF RemoveDirs
<1>2. CASE Rootful \/ remove = {}
  BY <1>1, <1>2 DEF RemovedDirs
<1>3. CASE ~Rootful /\ remove # {}
  <2>1. PICK d \in remove : TRUE
    BY <1>3
  <2>2. remove = {d}
    BY <2>1
  <2> QED
    BY <1>1, <1>3, <2>2 DEF RemovedDirs
<1> QED
  BY <1>2, <1>3

\* Only mkdtemp gives a request its directory, and every answer takes it away.
DirUnset == pc \in {"idle", "snapshot", "mkdir"} \cup ObliteratePc => dir = NoDir

LEMMA DirUnsetKeeps == ASSUME IInv, DirUnset, [Next]_vars PROVE DirUnset'
<1> USE DEF DirUnset
<1>1. CASE LoaderStep
  BY <1>1 DEF LoaderStep, SpawnPayload, StageRevert, StageRevertLink, StageRevertName,
              StageRevertSnapshot, StageVarJb
<1>2. CASE InstallStep
  BY <1>2 DEF InstallStep, RenameSnapshot, FirstStep, MakeDir, ClearBogus, ClearLink, SpawnTar,
              Extract, RenameTree, LinkVarJb, Configure, MarkInstalled, CheckLaunchDaemons,
              ReloadAfterInstall, ReloadEnv, AnswerSuccess
<1>3. CASE CleanupStep
  BY <1>3 DEF CleanupStep, CleanTarPath, CleanLink
<1>4. CASE ObliterateStep
  BY <1>4 DEF ObliterateStep, ObliterateDirs, ObliterateLink, ObliterateSnapshot,
              NameSnapshotBack, ObliterateRevert, ReloadAfterObliterate, ReloadEnv,
              FinishObliterate
<1>5. CASE Requests
  BY <1>5 DEF Requests, RefuseBootstrap, StartBootstrap, FirstStep, StartObliterate
<1>6. CASE Environment
  BY <1>6 DEF Environment, Boot, UserspaceReboot, PowerOff, Kill, PrefsCreateVarJb,
              RemovalProgress
<1>7. CASE UNCHANGED vars
  BY <1>7 DEF vars
<1> QED
  BY <1>1, <1>2, <1>3, <1>4, <1>5, <1>6, <1>7 DEF Next, JailbreakdStep

\* The boot task finishes a forced revert and repairs the link.
LEMMA LoaderStepSimulates ==
  ASSUME IInv, IInv', ~falseStart, ~falseStart', LoaderStep PROVE Simulated
<1>1. CASE SpawnPayload
  BY <1>1, Stutters DEF SpawnPayload, LoadJailbreakEnv, Tree, TreeOf, Worker, Used
<1>2. CASE StageRevert
  <2>1. CASE jb' = jb
    BY <1>2, <2>1, Stutters DEF StageRevert, Tree, TreeOf, Worker, Used
  <2>2. CASE jb' # jb
    <3>1. ForceRevert /\ ~Rootful /\ RemoveDirs
      BY <1>2, <2>2 DEF StageRevert, RemoveDirs, RemovedDirs
    <3>2. PICK d \in JbDirs : jb[d] # "absent" /\ jb' = [jb EXCEPT ![d] = "absent"]
      BY <2>2, <3>1, RemovesOne
    <3>3. Tree[d] # "none" /\ Tree' = [Tree EXCEPT ![d] = "none"]
      BY <3>2, TreeUpdates DEF Tree, TreeOf
    <3>4. Worker = NoDir /\ Worker' = NoDir /\ Used = "down" /\ Used' = "down"
      BY <1>2 DEF StageRevert, Worker, Used
    <3>5. acked = NoDir /\ acked' = NoDir
      BY <1>2, <3>1 DEF StageRevert
    <3> QED
      BY <3>3, <3>4, <3>5, Loses
  <2> QED
    BY <2>1, <2>2
<1>3. CASE StageRevertLink \/ StageRevertName \/ StageRevertSnapshot
  <2>1. /\ stage # "up" /\ stage' # "up" /\ UNCHANGED <<jb, pflags, pc, dir, acked>>
    BY <1>3 DEF StageRevertLink, StageRevertName, NameSnapshotBack, StageRevertSnapshot
  <2> QED
    BY <2>1, Stutters DEF Tree, TreeOf, Worker, Used
<1>4. CASE StageVarJb
  <2>1. Tree' = Tree /\ Worker' = Worker /\ acked' = acked
    BY <1>4 DEF StageVarJb, Tree, TreeOf, Worker
  <2>2. CASE Rootful \/ lostLink'
    BY <1>4, <2>1, <2>2, Stutters DEF StageVarJb, Used
  <2>3. CASE ~Rootful /\ ~lostLink'
    <3>1. Used' = IF varjb' \in JbDirs /\ HasProcursus(jb', varjb') THEN varjb' ELSE NoDir
      BY <1>4, <2>3 DEF StageVarJb, Used
    <3>2. acked \in JbDirs => Used' = acked
      BY <1>4, <2>3, <3>1 DEF StageVarJb
    <3>3. acked \notin JbDirs /\ Used' # NoDir => Used' \in JbDirs /\ Tree[Used'] # "none"
      BY <1>4, <2>3, <3>1 DEF StageVarJb, Tree, TreeOf
    <3> QED
      BY <2>1, <3>2, <3>3, Relinks
  <2> QED
    BY <2>2, <2>3
<1> QED
  BY <1>1, <1>2, <1>3, <1>4 DEF LoaderStep

\* A bootstrap request: mkdtemp begins the installation, the marker file
\* completes it, and the answer acknowledges it or abandons it.
LEMMA InstallStepSimulates ==
  ASSUME IInv, IInv', ~falseStart, ~falseStart', DirUnset, InstallStep PROVE Simulated
<1> USE DEF DirUnset
<1>0. ASSUME UNCHANGED <<stage, pflags, jb, acked>>, Used' = Used, pc \in InstallPc,
             \/ pc' \in InstallPc /\ (Rootful \/ dir' = dir)
             \/ pc' \notin InstallPc
      PROVE  Simulated
  BY <1>0, Stutters, Abandons DEF Tree, TreeOf, Worker
<1> DEFINE Quiet == RenameSnapshot \/ ClearBogus \/ ClearLink \/ SpawnTar \/ Extract
                    \/ Configure \/ CheckLaunchDaemons \/ ReloadAfterInstall
<1>1. CASE Quiet
  <2>1. UNCHANGED <<stage, pflags, jb, acked>> /\ pc \in InstallPc
    BY <1>1 DEF RenameSnapshot, ClearBogus, ClearLink, SpawnTar, Extract, Configure,
                CheckLaunchDaemons, ReloadAfterInstall, ReloadEnv, LoadJailbreakEnv
  <2>2. pc' \in InstallPc => dir' = dir
    BY <1>1 DEF RenameSnapshot, FirstStep, ClearBogus, ClearLink, SpawnTar, Extract, Configure,
                CheckLaunchDaemons, ReloadAfterInstall, ReloadEnv
  <2>3. Used' = Used
    BY <1>1 DEF RenameSnapshot, ClearBogus, RemoveBogusVarJb, ClearLink, UnlinkVarJb, SpawnTar,
                Extract, Configure, CheckLaunchDaemons, ReloadAfterInstall, ReloadEnv,
                LoadJailbreakEnv, Used
  <2> QED
    BY <1>0, <2>1, <2>2, <2>3
<1>2. CASE MakeDir
  <2>1. CASE jb' = jb
    <3>1. pc' = "idle" /\ Used' = Used
      BY <1>2, <2>1 DEF MakeDir, Used
    <3> QED
      BY <1>0, <1>2, <2>1, <3>1 DEF MakeDir
  <2>2. CASE jb' # jb
    <3>1. PICK d \in JbDirs : /\ jb[d] = "absent" /\ jb' = [jb EXCEPT ![d] = "made"]
                              /\ (pc' = "idle" \/ (pc' = "clearbogus" /\ dir' = d))
      BY <1>2, <2>2 DEF MakeDir
    <3>2. \A e \in JbDirs : Tree[e] = "none"
      BY <1>2 DEF MakeDir, Tree, TreeOf
    <3>3. Tree' = [Tree EXCEPT ![d] = "partial"]
      <4>1. jb \in [JbDirs -> DirState] /\ d \in JbDirs /\ jb' = [jb EXCEPT ![d] = "made"]
        BY <3>1
      <4>2. "made" # "absent" /\ "made" # "installed"
        OBVIOUS
      <4> HIDE DEF IInv, DirUnset
      <4> QED
        BY <4>1, <4>2, TreeUpdates
    <3>4. Worker' \in {d, NoDir}
      BY <3>1 DEF Worker
    <3>5. UNCHANGED <<acked, Used>>
      BY <1>2, <3>1 DEF MakeDir, Used
    <3> QED
      BY <3>2, <3>3, <3>4, <3>5, Begins
  <2> QED
    BY <2>1, <2>2
<1>3. CASE RenameTree
  <2>1. Tree' = Tree /\ Used' = Used
    BY <1>3 DEF RenameTree, Tree, TreeOf, Used
  <2>2. Worker' = Worker \/ Worker' = NoDir
    BY <1>3 DEF RenameTree, Worker
  <2> QED
    BY <1>3, <2>1, <2>2, Stutters, Abandons DEF RenameTree
<1>4. CASE LinkVarJb
  <2>1. CASE varjb' = varjb
    BY <1>0, <1>4, <2>1 DEF LinkVarJb, Used
  <2>2. CASE varjb' = dir /\ pc' = "configure"
    <3>1. UNCHANGED <<Tree, Worker, acked>> /\ acked = NoDir
      BY <1>4, <2>2 DEF LinkVarJb, Tree, TreeOf, Worker
    <3>2. Used' = dir /\ dir \in JbDirs /\ Tree[dir] # "none"
      BY <1>4, <2>2 DEF LinkVarJb, Used, Tree, TreeOf
    <3> QED
      BY <3>1, <3>2, Relinks
  <2> QED
    BY <1>4, <2>1, <2>2 DEF LinkVarJb
<1>5. CASE MarkInstalled
  <2>1. CASE Rootful \/ pc' = "rm_strap"
    BY <1>0, <1>5, <2>1 DEF MarkInstalled, Used
  <2>2. CASE ~Rootful /\ pc' = "checklaunch"
    <3>1. Worker = dir /\ Worker' = dir /\ dir \in JbDirs /\ Tree[dir] = "partial"
      BY <1>5, <2>2 DEF MarkInstalled, Worker, Tree, TreeOf
    <3>2. Tree' = [Tree EXCEPT ![dir] = "whole"]
      BY <1>5, <2>2, TreeUpdates DEF MarkInstalled
    <3>3. UNCHANGED <<acked, Used>>
      BY <1>5, <2>2 DEF MarkInstalled, Used
    <3> QED
      BY <3>1, <3>2, <3>3, Completes
  <2> QED
    BY <1>5, <2>1, <2>2 DEF MarkInstalled
<1>6. CASE AnswerSuccess
  <2>1. CASE Rootful
    BY <1>6, <2>1, Stutters DEF AnswerSuccess, Tree, TreeOf, Worker, Used
  <2>2. CASE ~Rootful
    <3>1. Worker = dir /\ dir \in JbDirs /\ Tree[dir] = "whole" /\ Used = dir
      BY <1>6, <2>2 DEF AnswerSuccess, Worker, Tree, TreeOf, Used
    <3>2. acked' = dir /\ Worker' = NoDir /\ UNCHANGED <<Tree, Used>>
      BY <1>6, <2>2 DEF AnswerSuccess, Worker, Tree, TreeOf, Used
    <3> QED
      BY <3>1, <3>2, Acknowledges
  <2> QED
    BY <2>1, <2>2
<1> QED
  BY <1>1, <1>2, <1>3, <1>4, <1>5, <1>6 DEF InstallStep

\* The clean-up takes the files of a request that is no longer at work.
LEMMA CleanupStepSimulates ==
  ASSUME IInv, IInv', ~falseStart, ~falseStart', CleanupStep PROVE Simulated
<1>1. Worker = NoDir /\ Worker' = NoDir /\ acked' = acked
  BY DEF CleanupStep, CleanTarPath, CleanLink, Worker
<1>2. CASE Rootful
  BY <1>1, <1>2, Stutters
     DEF CleanupStep, CleanTarPath, RemoveTarPath, CleanLink, Tree, TreeOf, Used
<1>3. CASE ~Rootful /\ CleanTarPath
  <2>1. CASE jb' = jb
    BY <1>1, <1>3, <2>1, Stutters DEF CleanTarPath, Tree, TreeOf, Used
  <2>2. CASE jb' = [jb EXCEPT ![dir] = "absent"]
    <3>1. dir \in JbDirs /\ acked = NoDir /\ Tree[dir] # "none"
      BY <1>3 DEF CleanTarPath, Tree, TreeOf
    <3>2. Tree' = [Tree EXCEPT ![dir] = "none"]
      BY <2>2, <3>1, TreeUpdates
    <3>3. Used' \in IF Used = dir THEN {dir, NoDir} ELSE {Used}
      BY <1>3, <2>2, <3>1 DEF CleanTarPath, Used
    <3> QED
      BY <1>1, <3>1, <3>2, <3>3, Loses
  <2> QED
    BY <1>3, <2>1, <2>2 DEF CleanTarPath, RemoveTarPath
<1>4. CASE ~Rootful /\ CleanLink
  <2>1. Tree' = Tree /\ acked = NoDir /\ Used' \in {Used, NoDir}
    BY <1>4 DEF CleanLink, UnlinkVarJb, Tree, TreeOf, Used
  <2> QED
    BY <1>1, <2>1, Stutters, Relinks
<1> QED
  BY <1>2, <1>3, <1>4 DEF CleanupStep

\* A removal takes the files of an install that was given up, and a rootful
\* device goes down at its end.
LEMMA ObliterateStepSimulates ==
  ASSUME IInv, IInv', ~falseStart, ~falseStart', ObliterateStep PROVE Simulated
<1>1. Worker = NoDir /\ Worker' = NoDir /\ acked' = acked
  BY DEF ObliterateStep, ObliterateDirs, ObliterateLink, ObliterateSnapshot, NameSnapshotBack,
         ObliterateRevert, ReloadAfterObliterate, ReloadEnv, LoadJailbreakEnv, FinishObliterate,
         Worker
<1>2. CASE ObliterateDirs
  <2>1. CASE jb' = jb
    BY <1>1, <1>2, <2>1, Stutters DEF ObliterateDirs, Tree, TreeOf, Used
  <2>2. CASE jb' # jb
    <3>1. PICK d \in JbDirs : jb[d] # "absent" /\ jb' = [jb EXCEPT ![d] = "absent"]
      BY <1>2, <2>2, RemovesOne DEF ObliterateDirs
    <3>2. ~Rootful
      BY <1>2, <2>2 DEF ObliterateDirs, RemoveDirs, RemovedDirs
    <3>3. acked = NoDir /\ stage = "up"
      BY <1>2, <3>2 DEF ObliterateDirs
    <3>4. Tree[d] # "none" /\ Tree' = [Tree EXCEPT ![d] = "none"]
      BY <3>1, TreeUpdates DEF Tree, TreeOf
    <3>5. Used' \in IF Used = d THEN {d, NoDir} ELSE {Used}
      BY <1>2, <3>1, <3>2, <3>3 DEF ObliterateDirs, Used
    <3> QED
      BY <1>1, <3>3, <3>4, <3>5, Loses
  <2> QED
    BY <2>1, <2>2
<1>3. CASE ObliterateLink
  <2>1. Tree' = Tree /\ acked = NoDir /\ Used' \in {Used, NoDir}
    BY <1>3 DEF ObliterateLink, RemoveVarJb, Tree, TreeOf, Used
  <2> QED
    BY <1>1, <2>1, Stutters, Relinks
<1>4. CASE ObliterateSnapshot \/ ObliterateRevert \/ ReloadAfterObliterate \/ FinishObliterate
  <2>1. Tree' = Tree /\ Used' = Used
    BY <1>4 DEF ObliterateSnapshot, ObliterateRevert, ReloadAfterObliterate, ReloadEnv,
                LoadJailbreakEnv, FinishObliterate, Tree, TreeOf, Used
  <2> QED
    BY <1>1, <2>1, Stutters
<1> QED
  BY <1>2, <1>3, <1>4 DEF ObliterateStep

\* A request for a removal takes the promise back; the others promise nothing yet.
LEMMA RequestsSimulate ==
  ASSUME IInv, ~falseStart, ~falseStart', DirUnset, Requests PROVE Simulated
<1>1. Tree' = Tree
  BY DEF Requests, RefuseBootstrap, StartBootstrap, StartObliterate, Tree, TreeOf
<1>2. Worker = NoDir /\ Worker' = NoDir
  BY DEF Requests, RefuseBootstrap, StartBootstrap, FirstStep, StartObliterate, Worker, DirUnset
<1>3. acked' = acked \/ acked' = NoDir
  BY DEF Requests, RefuseBootstrap, StartBootstrap, StartObliterate
<1>4. CASE Used' = Used
  BY <1>1, <1>2, <1>3, <1>4, Stutters, Withdraws
<1>5. CASE Used' # Used
  <2>1. StartBootstrap
    BY <1>5 DEF Requests, RefuseBootstrap, StartBootstrap, StartObliterate, Used
  <2>2. lostLink /\ ~lostLink' /\ ~Rootful /\ stage = "up"
    BY <1>5, <2>1 DEF StartBootstrap, Used
  <2>3. Present(jb) = {}
    BY <2>1, <2>2, PrebootPathFacts DEF StartBootstrap, Truth
  <2>4. acked \notin JbDirs /\ acked' = acked
    BY <2>1, <2>3 DEF StartBootstrap
  <2>5. jb' = jb /\ varjb' = varjb /\ stage' = stage /\ pflags' = pflags
    BY <2>1 DEF StartBootstrap
  <2>6. Used' = IF varjb \in JbDirs /\ HasProcursus(jb, varjb) THEN varjb ELSE NoDir
    BY <2>2, <2>5 DEF Used
  <2>7. Used' = NoDir
    BY <2>3, <2>6
  <2> QED
    BY <1>1, <1>2, <2>4, <2>7, Relinks
<1> QED
  BY <1>4, <1>5

\* Boots, kills, power loss, cfprefsd, and removals that are under way.
LEMMA EnvironmentSimulates ==
  ASSUME IInv, IInv', ~falseStart, ~falseStart', Environment PROVE Simulated
<1>1. CASE \E f \in BootFlags : Boot(f)
  <2>1. UNCHANGED <<Tree, Worker, Used>>
    BY <1>1 DEF Boot, Tree, TreeOf, Worker, Used
  <2>2. acked' = acked \/ acked' = NoDir
    BY <1>1 DEF Boot
  <2> QED
    BY <2>1, <2>2, Stutters, Withdraws
<1>2. CASE UserspaceReboot \/ PowerOff
  BY <1>2, GoesDown DEF UserspaceReboot, PowerOff, Tree, TreeOf, Worker, Used
<1>3. CASE Kill
  BY <1>3, Abandons DEF Kill, Tree, TreeOf, Worker, Used
<1>4. CASE PrefsCreateVarJb
  BY <1>4, Stutters DEF PrefsCreateVarJb, Tree, TreeOf, Worker, Used
<1>5. CASE \E d \in JbDirs : RemovalProgress(d)
  <2>1. PICK d \in JbDirs : RemovalProgress(d)
    BY <1>5
  <2>2. acked = NoDir /\ UNCHANGED <<Worker, acked>> /\ Worker = NoDir
    BY <2>1 DEF RemovalProgress, Removing, Worker
  <2>3. Tree[d] # "none"
    BY <2>1 DEF RemovalProgress, Tree, TreeOf
  <2>4. Tree' = [Tree EXCEPT ![d] = "partial"]
    <3>1. PICK s \in {"made", "torn"} : jb' = [jb EXCEPT ![d] = s]
      BY <2>1 DEF RemovalProgress
    <3> QED
      BY <3>1, TreeUpdates
  <2>5. Used' \in IF Used = d THEN {d, NoDir} ELSE {Used}
    BY <2>1 DEF RemovalProgress, Used
  <2> QED
    BY <2>2, <2>3, <2>4, <2>5, Loses
<1> QED
  BY <1>1, <1>2, <1>3, <1>4, <1>5 DEF Environment

\* Once misled, palera1nd stays misled.
LEMMA FalseStartStays == ASSUME [Next]_vars, falseStart PROVE falseStart'
<1>1. CASE LoaderStep
  BY <1>1 DEF LoaderStep, SpawnPayload, LoadJailbreakEnv, StageRevert, StageRevertLink,
              StageRevertName, StageRevertSnapshot, StageVarJb
<1>2. CASE InstallStep
  BY <1>2 DEF InstallStep, RenameSnapshot, MakeDir, ClearBogus, ClearLink, SpawnTar, Extract,
              RenameTree, LinkVarJb, Configure, MarkInstalled, CheckLaunchDaemons,
              ReloadAfterInstall, ReloadEnv, LoadJailbreakEnv, AnswerSuccess
<1>3. CASE CleanupStep \/ ObliterateStep
  BY <1>3 DEF CleanupStep, CleanTarPath, CleanLink, ObliterateStep, ObliterateDirs,
              ObliterateLink, ObliterateSnapshot, ObliterateRevert, ReloadAfterObliterate,
              ReloadEnv, LoadJailbreakEnv, FinishObliterate
<1>4. CASE Requests
  BY <1>4 DEF Requests, RefuseBootstrap, StartBootstrap, StartObliterate
<1>5. CASE Environment
  BY <1>5 DEF Environment, Boot, UserspaceReboot, PowerOff, Kill, PrefsCreateVarJb,
              RemovalProgress
<1>6. CASE UNCHANGED vars
  BY <1>6 DEF vars
<1> QED
  BY <1>1, <1>2, <1>3, <1>4, <1>5, <1>6 DEF Next, JailbreakdStep

\* The requests, the boot task and whatever may happen to them together keep
\* the promise of Install, up to a bootstrap that a failed lookup has misled: at
\* most one tree, finished only by the request that began it, and behind
\* /var/jb from the answer to the removal.
\* (bootstrap.c, obliterate.c, sysstatuscheck.c, load_bootstrapped_jailbreak_env)
THEOREM BootstrapImplementsInstall == Spec => InstallIsPromised
<1>1. Init => DirUnset /\ Promise!Init
  BY DEF Init, DirUnset, Promise!Init, TreeOf
<1>2. ASSUME IInv, IInv', DirUnset, [Next]_vars
      PROVE  [falseStart' \/ Promise!Next]_(Promise!vars)
  <2>1. SUFFICES ASSUME ~falseStart' PROVE Simulated
    BY <2>1, Zenon DEF Simulated
  <2>2. ~falseStart
    BY <1>2, <2>1, FalseStartStays
  <2> HIDE DEF IInv
  <2>3. CASE LoaderStep
    BY <1>2, <2>1, <2>2, <2>3, LoaderStepSimulates
  <2>4. CASE InstallStep
    BY <1>2, <2>1, <2>2, <2>4, InstallStepSimulates
  <2>5. CASE CleanupStep \/ ObliterateStep
    BY <1>2, <2>1, <2>2, <2>5, CleanupStepSimulates, ObliterateStepSimulates
  <2>6. CASE Requests
    BY <1>2, <2>1, <2>2, <2>6, RequestsSimulate
  <2>7. CASE Environment
    BY <1>2, <2>1, <2>2, <2>7, EnvironmentSimulates
  <2>8. CASE UNCHANGED vars
    BY <2>8, Stutters DEF vars, files, request, history, Tree, TreeOf, Worker, Used
  <2> QED
    BY <1>2, <2>3, <2>4, <2>5, <2>6, <2>7, <2>8 DEF Next, JailbreakdStep
<1>3. IInv /\ DirUnset /\ [Next]_vars => DirUnset'
  BY DirUnsetKeeps
<1> HIDE DEF IInv
<1> QED
  BY <1>1, <1>2, <1>3, Invariance, PTL DEF Spec, InstallIsPromised

=============================================================================
