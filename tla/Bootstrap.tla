------------------------------- MODULE Bootstrap -------------------------------
(***************************************************************************)
(* How the jailbreak's files come, stay and go: palera1nd installs a       *)
(* bootstrap (bootstrap) or removes it (obliterate), one request at a time *)
(* on its main dispatch queue; at every boot and userspace reboot launchd  *)
(* runs /cores/payload -s (sysstatuscheck), which removes the files of a   *)
(* force revert and repairs /var/jb; payload_dylib inside launchd keeps    *)
(* JB_ROOT_PATH in step.  cfprefsd, whose hook redirects preferences to    *)
(* /var/jb, may create that directory at any moment.  Each system call     *)
(* with an effect on the files is a step of its own: palera1nd can be      *)
(* killed, and the device can lose power, between any two of them.         *)
(***************************************************************************)
EXTENDS PrebootFs

CONSTANTS
  SSV,        \* does this device have a signed system volume?
  BootFlags,  \* the sets of paleinfo flags the host may boot the device with
  Faults      \* which of FaultKinds may happen

FlagNames == {"rootful", "force_revert"}

\* "step"    a system call or a child process of a request fails
\* "lookup"  the directory of the boot-manifest-hash cannot be found or read
\* "revert"  a call of revert_snapshot or clean_fakefs fails
\* "remove"  removefile or readdir gives up and files are left behind
\* "kill"    palera1nd is killed in the middle of a request
\* "power"   the device goes down in the middle of anything
\* "prefs"   cfprefsd creates /var/jb for a redirected preference file
FaultKinds == {"step", "lookup", "revert", "remove", "kill", "power", "prefs"}

ASSUME ParametersAssumption ==
  /\ SSV \in BOOLEAN
  /\ BootFlags \subseteq SUBSET FlagNames
  /\ Faults \subseteq FaultKinds

VARIABLES
  stage,          \* how far the boot has come
  pflags,         \* the paleinfo flags of this boot
  jb,             \* the state of every jb- directory
  varjb,          \* what /var/jb is
  jbroot,         \* JB_ROOT_PATH in launchd
  root,           \* the root file system of the rootful jailbreak
  origfs,         \* is the root snapshot named orig-fs?
  revertPending,  \* did fs_snapshot_revert succeed since the last mount?
  attempt,        \* history: how the last attempt at reverting went
  pc,             \* what palera1nd does next
  dir,            \* the jb- directory of the request in progress
  reply,          \* palera1nd's last answer
  acked,          \* history: the directory of the last bootstrap answered
                  \* with Success and not asked to be removed since
  falseStart,     \* history: a bootstrap began on an ENOENT that was not true
  lostLink,       \* history: create_var_jb of this boot task was told a lie
                  \* and left out the link
  lostEnv         \* history: so was the last reload of JB_ROOT_PATH

files   == <<jb, varjb>>
rootfs  == <<root, origfs, revertPending, attempt>>
request == <<pc, dir, reply>>
history == <<acked, falseStart, lostLink, lostEnv>>
vars    == <<stage, pflags, files, jbroot, rootfs, request, history>>

Stage     == {"off", "spawn", "revert", "revert_link", "revert_name", "revert_fs",
              "varjb", "up"}
RootState == {"stock", "partial", "strapped", "wiped"}
Attempt   == {"none", "begun", "failed", "complete"}
Reply     == {"none", "refused", "error", "success", "obliterated"}

InstallPc    == {"snapshot", "mkdir", "clearbogus", "clearlink", "spawn", "extract",
                 "rename", "symlink", "configure", "mark", "checklaunch",
                 "reload", "load"}
CleanupPc    == {"rm_tpath", "rm_strap", "rm_link"}
ObliteratePc == {"obl_dirs", "obl_link", "obl_snapshot", "obl_revert", "obl_reload",
                 "obl_reboot"}
Pc           == {"idle"} \cup InstallPc \cup CleanupPc \cup ObliteratePc

TypeOK ==
  /\ stage \in Stage
  /\ pflags \in SUBSET FlagNames
  /\ jb \in [JbDirs -> DirState]
  /\ varjb \in VarJb
  /\ jbroot \in RootPath
  /\ root \in RootState
  /\ origfs \in BOOLEAN
  /\ revertPending \in BOOLEAN
  /\ attempt \in Attempt
  /\ pc \in Pc
  /\ dir \in JbDirs \cup {NoDir}
  /\ reply \in Reply
  /\ acked \in JbDirs \cup {NoDir}
  /\ falseStart \in BOOLEAN /\ lostLink \in BOOLEAN /\ lostEnv \in BOOLEAN

Rootful     == "rootful" \in pflags
ForceRevert == "force_revert" \in pflags

\* A device that was never jailbroken, or that another jailbreak has used.
Init ==
  /\ stage = "off"
  /\ pflags = {}
  /\ jb = [d \in JbDirs |-> "absent"]
  /\ varjb \in VarJbKinds
  /\ jbroot = "/var/jb"
  /\ root = "stock"
  /\ origfs = FALSE
  /\ revertPending = FALSE
  /\ attempt = "none"
  /\ pc = "idle"
  /\ dir = NoDir
  /\ reply = "none"
  /\ acked = NoDir
  /\ falseStart = FALSE /\ lostLink = FALSE /\ lostEnv = FALSE

\* What jailbreak_get_prebootPath may answer now, and what it should.
Answers == PrebootAnswers(jb, "lookup" \in Faults)
Truth   == PrebootPath(jb)

-----------------------------------------------------------------------------
(* Boot: fakedyld, launchd's hooks and the sysstatuscheck stage.           *)

\* A new mount of the root file system carries out a pending revert.  A forced
\* revert of a fakefs deletes the volume before launchd runs (prelaunchd), and
\* the next rootful boot is from a new copy of the system.
MountRoot(f) ==
  /\ IF (SSV /\ f = FlagNames) \/ (revertPending /\ (~SSV \/ "rootful" \in f))
     THEN root' = "stock" /\ revertPending' = FALSE
     ELSE UNCHANGED <<root, revertPending>>
  /\ UNCHANGED <<origfs, attempt>>

\* fakedyld starts launchd with a fresh environment.
Boot(f) ==
  /\ stage = "off"
  /\ root = "wiped" => SSV /\ ("rootful" \notin f \/ "force_revert" \in f)
  /\ MountRoot(f)
  /\ pflags' = f
  /\ jbroot' = IF "rootful" \in f THEN "/" ELSE "/var/jb"
  /\ stage' = "spawn"
  /\ pc' = "idle" /\ dir' = NoDir /\ reply' = "none"
  /\ acked' = IF f = {"force_revert"} THEN NoDir ELSE acked
  /\ UNCHANGED <<files, falseStart, lostLink, lostEnv>>

\* load_bootstrapped_jailbreak_env, which a rootful launchd does not call.
EnvWith(path) == IF Rootful THEN jbroot ELSE LoadEnv(jbroot, path)
LoadJailbreakEnv ==
  \E path \in Answers :
    /\ jbroot' = EnvWith(path)
    /\ lostEnv' = (EnvWith(path) # EnvWith(Truth))
    /\ UNCHANGED <<acked, falseStart, lostLink>>

\* posix_spawn_hook reloads the environment before it spawns /cores/payload.
SpawnPayload ==
  /\ stage = "spawn"
  /\ LoadJailbreakEnv
  /\ stage' = "revert"
  /\ UNCHANGED <<pflags, files, rootfs, request>>

\* What remove_jailbreak_files leaves of the jb- directories.  removefile's
\* result is ignored, so a removal that failed looks like one that worked.
RemovedDirs_AnyMode(remove) == [d \in JbDirs |-> IF d \in remove THEN "absent" ELSE jb[d]]
RemovedDirs(remove) ==
  [d \in JbDirs |-> IF d \in remove /\ ~Rootful THEN "absent" ELSE jb[d]]

RemoveDirs ==
  \E remove \in SUBSET Present(jb) :
    /\ "remove" \in Faults \/ remove = Present(jb)
    /\ jb' = RemovedDirs(remove)

\* removefile("/var/jb") takes a link and a directory alike.
RemoveVarJb_WhenItResolves == varjb' = IF VarJbResolves(varjb, jb) THEN "none" ELSE varjb
RemoveVarJb ==
  \/ varjb' = "none"
  \/ "remove" \in Faults /\ UNCHANGED varjb

\* remove_jailbreak_files returns before it removes anything, /var/jb included.
CannotRemove == ~Rootful /\ "lookup" \in Faults

\* revert_snapshot, whose failures are printed and forgotten: it returns before
\* it has the file system open, or gives the snapshot its name back (which
\* fails, too, when an earlier attempt has done so) ...
RevertFails == "revert" \in Faults
NameSnapshotBack_OrReturn(next, done) ==
  /\ UNCHANGED <<root, revertPending>>
  /\ \/ origfs /\ origfs' = FALSE /\ attempt' = "begun" /\ next
     \/ ~origfs /\ UNCHANGED origfs /\ attempt' = "complete" /\ done
     \/ RevertFails /\ UNCHANGED origfs /\ attempt' = "failed" /\ (next \/ done)
NameSnapshotBack(next, done) ==
  /\ UNCHANGED <<root, revertPending>>
  /\ \/ origfs' = FALSE /\ attempt' = "begun" /\ next
     \/ RevertFails /\ UNCHANGED origfs /\ attempt' = "failed" /\ (next \/ done)

\* ... and reverts to it under that name, which must be its name by then.
RevertToSnapshot ==
  /\ UNCHANGED <<root, origfs>>
  /\ \/ /\ revertPending' = (revertPending \/ ~origfs)
        /\ attempt' = IF attempt = "begun" THEN "complete" ELSE attempt
     \/ RevertFails /\ UNCHANGED revertPending /\ attempt' = "failed"

StageRevert ==
  /\ stage = "revert"
  /\ \/ ~ForceRevert /\ stage' = "varjb" /\ UNCHANGED jb
     \/ /\ ForceRevert
        /\ RemoveDirs
        /\ stage' = IF ~Rootful THEN "revert_link" ELSE IF SSV THEN "varjb" ELSE "revert_name"
     \/ ForceRevert /\ CannotRemove /\ stage' = "varjb" /\ UNCHANGED jb
  /\ UNCHANGED <<pflags, varjb, jbroot, rootfs, request, history>>

StageRevertName ==
  /\ stage = "revert_name"
  /\ NameSnapshotBack(stage' = "revert_fs", stage' = "varjb")
  /\ UNCHANGED <<pflags, files, jbroot, request, history>>

StageRevertSnapshot ==
  /\ stage = "revert_fs"
  /\ RevertToSnapshot
  /\ stage' = "varjb"
  /\ UNCHANGED <<pflags, files, jbroot, request, history>>

StageRevertLink ==
  /\ stage = "revert_link"
  /\ RemoveVarJb
  /\ stage' = "varjb"
  /\ UNCHANGED <<pflags, jb, jbroot, rootfs, request, history>>

VarJbWith(path) ==
  IF Rootful THEN UnlinkVarJb(RemoveBogusVarJb(varjb))
             ELSE CreateVarJb(RemoveBogusVarJb(varjb), jb, path)

\* The /var/jb part of sysstatuscheck, up to the start of the daemons.
StageVarJb ==
  /\ stage = "varjb"
  /\ \E path \in Answers :
       /\ varjb' = VarJbWith(path)
       /\ lostLink' = (VarJbWith(path) # VarJbWith(Truth))
  /\ stage' = "up"
  /\ UNCHANGED <<pflags, jb, jbroot, rootfs, request, acked, falseStart, lostEnv>>

\* launchd replaces itself and keeps its environment; palera1nd dies.
UserspaceReboot ==
  /\ stage = "up"
  /\ pc = "idle" \/ "kill" \in Faults
  /\ stage' = "spawn"
  /\ pc' = "idle" /\ dir' = NoDir /\ reply' = "none"
  /\ UNCHANGED <<pflags, files, jbroot, rootfs, history>>

PowerOff ==
  /\ stage # "off"
  /\ (stage = "up" /\ pc = "idle") \/ "power" \in Faults
  /\ stage' = "off"
  /\ pc' = "idle" /\ dir' = NoDir /\ reply' = "none"
  /\ UNCHANGED <<pflags, files, jbroot, rootfs, history>>

-----------------------------------------------------------------------------
(* palera1nd: bootstrap().  Every request handler starts from "idle".      *)

Goto(label) == pc' = label /\ UNCHANGED <<dir, reply>>
Answer(r)   == pc' = "idle" /\ dir' = NoDir /\ reply' = r
CanFail     == "step" \in Faults

\* /.procursus_strapped comes with the extracted files: after an extraction
\* that was cut short it may or may not be there.
MayBootstrap(path) ==
  /\ ~ForceRevert
  /\ IF Rootful THEN root # "strapped" ELSE path = "ENOENT"

RefuseBootstrap ==
  /\ stage = "up" /\ pc = "idle"
  /\ \/ \E path \in Answers : ~MayBootstrap(path)
     \/ (Rootful /\ root # "stock") \/ CanFail
  /\ Answer("refused")
  /\ UNCHANGED <<stage, pflags, files, jbroot, rootfs, history>>

\* The root file system this boot runs on has been removed: what the programs
\* still in memory could do then is not modelled.
RootIsGone == root = "wiped" /\ (Rootful \/ ~SSV)

\* Where the installation goes on once the volume is mounted writable.
FirstStep == IF Rootful THEN "spawn" ELSE "mkdir"

StartBootstrap ==
  /\ stage = "up" /\ pc = "idle"
  /\ ~RootIsGone
  /\ \E path \in Answers : MayBootstrap(path)
  /\ pc' = IF SSV THEN FirstStep ELSE "snapshot"
  /\ reply' = "none"
  /\ falseStart' = (falseStart \/ (~Rootful /\ Truth # "ENOENT"))
  /\ lostLink' = (lostLink /\ Truth # "ENOENT")
  /\ UNCHANGED <<stage, pflags, files, jbroot, rootfs, dir, acked, lostEnv>>

\* Renaming com.apple.os.update-<hash> fails with ENOENT when it was renamed
\* before, which is not an error.
RenameSnapshot ==
  /\ pc = "snapshot"
  /\ \/ origfs' = TRUE /\ attempt' = "none" /\ Goto(FirstStep)
     \/ CanFail /\ Answer("error") /\ UNCHANGED <<origfs, attempt>>
  /\ UNCHANGED <<stage, pflags, files, jbroot, root, revertPending, history>>

\* mkdtemp, then chmod; a directory chmod fails on is left behind.
MakeDir ==
  /\ pc = "mkdir"
  /\ \/ \E d \in JbDirs :
          /\ jb[d] = "absent"
          /\ jb' = [jb EXCEPT ![d] = "made"]
          /\ \/ pc' = "clearbogus" /\ dir' = d /\ UNCHANGED reply
             \/ CanFail /\ Answer("error")
     \/ CanFail /\ Answer("error") /\ UNCHANGED jb
  /\ UNCHANGED <<stage, pflags, varjb, jbroot, rootfs, history>>

ClearBogus ==
  /\ pc = "clearbogus"
  /\ varjb' = RemoveBogusVarJb(varjb)
  /\ Goto("clearlink")
  /\ UNCHANGED <<stage, pflags, jb, jbroot, rootfs, history>>

\* lstat and unlink /var/jb; a directory ends the request, and the new jb-
\* directory stays.
ClearLink ==
  /\ pc = "clearlink"
  /\ \/ varjb \notin {"dir", "artifact"} /\ varjb' = UnlinkVarJb(varjb) /\ Goto("spawn")
     \/ (varjb \in {"dir", "artifact"} \/ CanFail) /\ Answer("error") /\ UNCHANGED varjb
  /\ UNCHANGED <<stage, pflags, jb, jbroot, rootfs, history>>

\* Pipes, threads, tar and zstd; an error here returns without a clean-up.
SpawnTar ==
  /\ pc = "spawn"
  /\ \/ /\ Goto("extract")
        /\ root' = IF Rootful THEN "partial" ELSE root
     \/ CanFail /\ Answer("error") /\ UNCHANGED root
  /\ UNCHANGED <<stage, pflags, files, jbroot, origfs, revertPending, attempt, history>>

\* Both children exit; a failed waitpid returns without a clean-up too.
Extract ==
  /\ pc = "extract"
  /\ \/ /\ root' = IF Rootful THEN "strapped" ELSE root
        /\ Goto(IF Rootful THEN "configure" ELSE "rename")
     \/ CanFail /\ Goto("rm_tpath") /\ UNCHANGED root
     \/ CanFail /\ Answer("error") /\ UNCHANGED root
  /\ UNCHANGED <<stage, pflags, files, jbroot, origfs, revertPending, attempt, history>>

\* <dir>/var/jb becomes <dir>/procursus.
RenameTree ==
  /\ pc = "rename"
  /\ \/ jb' = [jb EXCEPT ![dir] = "renamed"] /\ Goto("symlink")
     \/ CanFail /\ Goto("rm_tpath") /\ UNCHANGED jb
  /\ UNCHANGED <<stage, pflags, varjb, jbroot, rootfs, history>>

LinkVarJb_IgnoresEexist ==
  /\ pc = "symlink"
  /\ \/ varjb' = (IF varjb = "none" THEN dir ELSE varjb) /\ Goto("configure")
     \/ CanFail /\ Goto("rm_tpath") /\ UNCHANGED varjb
  /\ UNCHANGED <<stage, pflags, jb, jbroot, rootfs, history>>
LinkVarJb ==
  /\ pc = "symlink"
  /\ \/ varjb = "none" /\ varjb' = dir /\ Goto("configure")
     \/ (varjb # "none" \/ CanFail) /\ Goto("rm_tpath") /\ UNCHANGED varjb
  /\ UNCHANGED <<stage, pflags, jb, jbroot, rootfs, history>>

\* Copy passwd and group, run prep_bootstrap.sh, set the two passwords.  Only
\* a missing pw binary ends the request without RM_STRAP.
Configure ==
  /\ pc = "configure"
  /\ \/ Goto("mark")
     \/ CanFail /\ (Goto("rm_strap") \/ Answer("error"))
  /\ UNCHANGED <<stage, pflags, files, jbroot, rootfs, history>>

\* Write .installed_palera1n.
MarkInstalled ==
  /\ pc = "mark"
  /\ \/ /\ jb' = IF Rootful THEN jb ELSE [jb EXCEPT ![dir] = "installed"]
        /\ Goto("checklaunch")
     \/ CanFail /\ Goto("rm_strap") /\ UNCHANGED jb
  /\ UNCHANGED <<stage, pflags, varjb, jbroot, rootfs, history>>

CheckLaunchDaemons ==
  /\ pc = "checklaunch"
  /\ Goto("reload") \/ (CanFail /\ Goto("rm_strap"))
  /\ UNCHANGED <<stage, pflags, files, jbroot, rootfs, history>>

\* reload_launchd_env, answered by payload_dylib's xpc_handler in launchd.
ReloadEnv_NoRootfulReply(next) ==
  /\ ~Rootful
  /\ LoadJailbreakEnv
  /\ Goto(next)
  /\ UNCHANGED <<stage, pflags, files, rootfs>>
ReloadEnv(next) ==
  /\ LoadJailbreakEnv
  /\ Goto(next)
  /\ UNCHANGED <<stage, pflags, files, rootfs>>

ReloadAfterInstall == pc = "reload" /\ ReloadEnv("load")

\* launchctl bootstrap of the installed daemons, whose result is ignored.
AnswerSuccess ==
  /\ pc = "load"
  /\ acked' = IF Rootful THEN acked ELSE dir
  /\ Answer("success")
  /\ UNCHANGED <<stage, pflags, files, jbroot, rootfs, falseStart, lostLink, lostEnv>>

-----------------------------------------------------------------------------
(* palera1nd: cleaning up after a failed installation.                     *)

\* The if in REMOVE_TPATH ends in a semicolon: tarPath, which is "/" on
\* rootful, is removed whatever the mode.
RemoveTarPath ==
  IF Rootful
  THEN root' = "wiped" /\ UNCHANGED <<jb, origfs, revertPending, attempt>>
  ELSE /\ \/ jb' = [jb EXCEPT ![dir] = "absent"]
          \/ "remove" \in Faults /\ UNCHANGED jb
       /\ UNCHANGED rootfs

\* REMOVE_TPATH alone, or the first half of RM_STRAP.
CleanTarPath ==
  /\ pc \in {"rm_tpath", "rm_strap"}
  /\ RemoveTarPath
  /\ IF pc = "rm_tpath" THEN Answer("error") ELSE Goto("rm_link")
  /\ UNCHANGED <<stage, pflags, varjb, jbroot, history>>

CleanLink ==
  /\ pc = "rm_link"
  /\ varjb' = UnlinkVarJb(varjb)
  /\ Answer("error")
  /\ UNCHANGED <<stage, pflags, jb, jbroot, rootfs, history>>

-----------------------------------------------------------------------------
(* palera1nd: obliterate().                                                *)

\* On a booted fakefs the request must say keep-fakefs.  remove_jailbreak_files
\* gives up before it touches anything when it cannot read the
\* boot-manifest-hash.
StartObliterate ==
  /\ stage = "up" /\ pc = "idle"
  /\ \/ /\ pc' = "obl_dirs" /\ reply' = "none" /\ UNCHANGED dir
        /\ acked' = IF Rootful THEN acked ELSE NoDir
     \/ /\ CanFail /\ ~Rootful
        /\ pc' = "obl_reload" /\ reply' = "error" /\ UNCHANGED <<dir, history>>
     \/ Rootful /\ SSV /\ Answer("refused") /\ UNCHANGED acked
  /\ UNCHANGED <<stage, pflags, files, jbroot, rootfs, falseStart, lostLink, lostEnv>>

\* What it returns when it cannot open the directory is Success.
ObliterateDirs ==
  /\ pc = "obl_dirs"
  /\ \/ RemoveDirs /\ Goto(IF Rootful THEN "obl_snapshot" ELSE "obl_link")
     \/ CannotRemove /\ Goto("obl_reload") /\ UNCHANGED jb
  /\ UNCHANGED <<stage, pflags, varjb, jbroot, rootfs, history>>

ObliterateLink ==
  /\ pc = "obl_link"
  /\ RemoveVarJb
  /\ Goto("obl_reload")
  /\ UNCHANGED <<stage, pflags, jb, jbroot, rootfs, history>>

\* clean_fakefs: nobody looks at its result either.
CleanFakefs ==
  /\ revertPending' = TRUE \/ (RevertFails /\ UNCHANGED revertPending)
  /\ UNCHANGED <<root, origfs, attempt>>

\* Nothing under force revert; else clean_fakefs or revert_snapshot.
ObliterateSnapshot ==
  /\ pc = "obl_snapshot"
  /\ \/ ForceRevert /\ UNCHANGED rootfs /\ Goto("obl_reload")
     \/ ~ForceRevert /\ SSV /\ CleanFakefs /\ Goto("obl_reload")
     \/ /\ ~ForceRevert /\ ~SSV
        /\ NameSnapshotBack(Goto("obl_revert"), Goto("obl_reload"))
  /\ UNCHANGED <<stage, pflags, files, jbroot, history>>

ObliterateRevert ==
  /\ pc = "obl_revert"
  /\ RevertToSnapshot
  /\ Goto("obl_reload")
  /\ UNCHANGED <<stage, pflags, files, jbroot, history>>

ReloadAfterObliterate == pc = "obl_reload" /\ ReloadEnv("obl_reboot")

\* A rootful device reboots, a rootless one just answers.
FinishObliterate ==
  /\ pc = "obl_reboot"
  /\ Answer(IF reply = "error" THEN "error" ELSE "obliterated")
  /\ stage' = IF Rootful THEN "off" ELSE stage
  /\ UNCHANGED <<pflags, files, jbroot, rootfs, history>>

-----------------------------------------------------------------------------
(* What happens around palera1nd and the boot task.                        *)

Removing(d) ==
  \/ pc \in {"rm_tpath", "rm_strap"} /\ d = dir
  \/ pc = "obl_dirs"
  \/ stage = "revert" /\ ForceRevert

\* A recursive removal has got as far as some files inside procursus, or all
\* of procursus.
RemovalProgress(d) ==
  /\ Removing(d) /\ ~Rootful
  /\ HasProcursus(jb, d)
  /\ jb' = [jb EXCEPT ![d] = IF jb[d] = "torn" THEN "made" ELSE "torn"]
  /\ UNCHANGED <<stage, pflags, varjb, jbroot, rootfs, request, history>>

\* launchd starts palera1nd again on the next message.
Kill ==
  /\ "kill" \in Faults
  /\ stage = "up" /\ pc # "idle"
  /\ Answer("none")
  /\ UNCHANGED <<stage, pflags, files, jbroot, rootfs, history>>

\* The redirected path of a preference file is created below /var/jb.
PrefsCreateVarJb ==
  /\ "prefs" \in Faults
  /\ stage = "up" /\ ~Rootful
  /\ varjb = "none"
  /\ varjb' = "artifact"
  /\ UNCHANGED <<stage, pflags, jb, jbroot, rootfs, request, history>>

-----------------------------------------------------------------------------

LoaderStep ==
  \/ SpawnPayload
  \/ StageRevert \/ StageRevertLink \/ StageRevertName \/ StageRevertSnapshot
  \/ StageVarJb

InstallStep ==
  \/ RenameSnapshot \/ MakeDir \/ ClearBogus \/ ClearLink \/ SpawnTar \/ Extract
  \/ RenameTree \/ LinkVarJb \/ Configure \/ MarkInstalled
  \/ CheckLaunchDaemons \/ ReloadAfterInstall \/ AnswerSuccess

CleanupStep == CleanTarPath \/ CleanLink

ObliterateStep ==
  \/ ObliterateDirs \/ ObliterateLink \/ ObliterateSnapshot \/ ObliterateRevert
  \/ ReloadAfterObliterate \/ FinishObliterate

JailbreakdStep == InstallStep \/ CleanupStep \/ ObliterateStep

Environment ==
  \/ \E f \in BootFlags : Boot(f)
  \/ UserspaceReboot \/ PowerOff \/ Kill \/ PrefsCreateVarJb
  \/ \E d \in JbDirs : RemovalProgress(d)

Requests == RefuseBootstrap \/ StartBootstrap \/ StartObliterate

Next == LoaderStep \/ JailbreakdStep \/ Requests \/ Environment

Spec == Init /\ [][Next]_vars

\* launchd runs the boot task to its end, and the kernel runs palera1nd's
\* main queue; neither waits for a lock of anybody else.  The children that they
\* wait for are assumed to exit; BootStages is about those of the boot task.
FairSpec == Spec /\ WF_vars(LoaderStep) /\ WF_vars(JailbreakdStep)

-----------------------------------------------------------------------------
(* Safety.                                                                 *)

\* There is never more than one jb- directory, whatever fails or is cut
\* short: jailbreak_get_prebootPath could not tell which one to use and every
\* later boot and request would fail with EEXIST.
SingleJbDir == \A d, e \in Present(jb) : d = e

\* A link at /var/jb never leads past the directory that holds procursus, so
\* the EEXIST create_var_jb would get from a link to an older directory, and
\* which sysstatuscheck ignores, cannot happen.
LinkIsToProcursus ==
  \A d \in JbDirs : HasProcursus(jb, d) /\ varjb \in JbDirs => varjb = d

\* The jb- directories and /var/jb agree with each other, until a bootstrap is
\* begun because jailbreak_get_prebootPath did not see a directory that is
\* there: bootstrap.c:81 has "Already Bootstrappped" for every other answer.
\* (bootstrap.c, prebootpath.c:21-24, remove_jailbreak_files, create_var_jb)
JbDirsAreSound == ~falseStart => SingleJbDir /\ LinkIsToProcursus

\* What palera1nd answered with Success outlives kills, power loss, userspace
\* reboots and boots into rootful mode: until somebody asks for its removal
\* the directory is complete, and after every rootless boot task that could
\* read the boot-manifest-hash's directory /var/jb leads to it.
InstallIsDurable ==
  acked # NoDir =>
    /\ jb[acked] = "installed"
    /\ stage = "up" /\ ~Rootful /\ ~lostLink => varjb = acked

\* After the boot task has run, launchd hands every process a JB_ROOT_PATH
\* that names the acknowledged install, if it could be read the last time.
EnvFollowsInstall ==
  stage = "up" /\ ~Rootful /\ acked # NoDir /\ pc = "idle" /\ ~lostEnv => jbroot = acked

\* What palera1nd acknowledged is there, is behind /var/jb and is in launchd's
\* environment, over every kill, power loss and reboot, until its removal is
\* requested or a bootstrap is begun over it on a false ENOENT.
\* (bootstrap.c, sysstatuscheck.c, load_bootstrapped_jailbreak_env)
AcknowledgedInstallHolds == ~falseStart => InstallIsDurable /\ EnvFollowsInstall

\* As long as palera1nd is not killed and can read the directory of the
\* boot-manifest-hash, no request leaves a dangling link at
\* /var/jb or a JB_ROOT_PATH whose directory is gone.
NothingDangles ==
  stage = "up" /\ pc = "idle" /\ ~Rootful /\ ~ForceRevert =>
    \A d \in JbDirs : varjb = d \/ jbroot = d => HasProcursus(jb, d)

\* Success from obliterate on rootless means a bootstrap can be installed
\* again: nothing is left that the next request would take for one.
ObliteratedIsGone ==
  reply = "obliterated" /\ ~Rootful =>
    PrebootPath(jb) = "ENOENT" /\ varjb \notin JbDirs /\ jbroot = "/var/jb"

\* A request that ended left the files as its answer says, fit for the next.
\* (bootstrap.c: RM_STRAP; obliterate.c: revert_rootless, reload_launchd_env)
EndedRequestsAreClean == NothingDangles /\ ObliteratedIsGone

\* A rootful boot never touches a rootless install, whichever of the shared
\* clean-up paths it takes.
RootfulLeavesPreboot == [][Rootful /\ stage # "off" => UNCHANGED jb]_vars

\* Without a signed system volume every change to the root file system can be
\* undone.  Until a revert is attempted the pristine snapshot is put by as
\* orig-fs; and an attempt none of whose calls fails has the next mount revert
\* to it, wherever earlier attempts that failed or were cut short have left
\* the snapshot's name.  (bootstrap.c:108-118, revert_snapshot)
RootCanBeReverted ==
  ~SSV /\ root # "stock" =>
    /\ attempt = "none" => origfs
    /\ attempt = "complete" => revertPending

\* The condition in REMOVE_TPATH: only a path with /jb- in it is removed.
RootSurvives == root # "wiped"

-----------------------------------------------------------------------------
(* The inductive invariant behind JbDirsAreSound, AcknowledgedInstallHolds *)
(* and RootCanBeReverted: what each step of a request may take for granted *)
(* about the files.                                                        *)

RequestsOnlyWhenUp ==
  /\ stage # "up" => pc = "idle"
  /\ pc \in InstallPc \cup CleanupPc => ~ForceRevert

\* The steps that are about a jb- directory belong to rootless requests, which
\* have one from mkdtemp on, those about the snapshot to rootful ones.
StepsOfTheMode ==
  /\ pc \in {"mkdir", "clearbogus", "clearlink", "rename", "symlink", "obl_link"} => ~Rootful
  /\ ~Rootful /\ pc \in (InstallPc \cup CleanupPc) \ {"snapshot", "mkdir"} => dir \in JbDirs
  /\ pc \in {"obl_snapshot", "obl_revert"} => Rootful
  /\ pc = "obl_revert" \/ stage \in {"revert_name", "revert_fs"} => ~SSV

\* Until mkdtemp there is no jb- directory.
BeforeMkdir == pc \in {"snapshot", "mkdir"} /\ ~Rootful => Present(jb) = {}

\* How far the directory of the request is, and what /var/jb is meanwhile.
DirInProgress ==
  ~Rootful =>
    /\ pc \in {"clearbogus", "clearlink", "spawn", "extract", "rename"} => jb[dir] = "made"
    /\ pc \in {"spawn", "extract", "rename", "symlink", "rm_tpath"} => varjb \notin JbDirs
    /\ pc \in {"symlink", "configure", "mark"} => jb[dir] = "renamed"
    /\ pc \in {"checklaunch", "reload", "load"} => jb[dir] = "installed"
    /\ pc \in {"rm_tpath", "rm_strap"} => jb[dir] # "absent"
    /\ pc \in {"configure", "mark", "checklaunch", "reload", "load"} => varjb = dir

\* No request and no force revert works on an acknowledged install, and only
\* where its link was left out may cfprefsd have made a directory of /var/jb.
AckedUntouched ==
  acked # NoDir =>
    /\ jb[acked] = "installed"
    /\ varjb \in {"none", "artifact", acked}
    /\ stage = "up" /\ ~Rootful /\ ~lostLink => varjb = acked
    /\ ~Rootful => pc \in {"idle", "obl_reload", "obl_reboot"} /\ ~ForceRevert

\* From the rename of the snapshot on, a request runs on a device whose
\* snapshot is orig-fs; once it is renamed back it can be reverted to.
SnapshotRenamed ==
  ~SSV =>
    /\ pc \in (InstallPc \cup CleanupPc) \ {"snapshot"} => origfs /\ attempt = "none"
    /\ stage = "revert_fs" \/ pc = "obl_revert" =>
         (attempt = "begun" /\ ~origfs) \/ attempt = "failed"
    /\ RootCanBeReverted

\* From the start of the boot task on JB_ROOT_PATH is the acknowledged install,
\* and before a request is answered it is the directory of that request.
EnvInStep ==
  ~Rootful /\ ~lostEnv =>
    /\ acked # NoDir /\ stage \notin {"off", "spawn"} => jbroot = acked
    /\ pc = "load" => jbroot = dir

\* The link is missed only where there is something to link to.
LostLinkIsForProcursus == lostLink /\ stage = "up" => ~Rootful /\ pc \notin InstallPc \cup CleanupPc

FilesAreSound ==
  /\ SingleJbDir
  /\ LinkIsToProcursus
  /\ BeforeMkdir
  /\ DirInProgress
  /\ AckedUntouched
  /\ EnvInStep
  /\ LostLinkIsForProcursus

IInv ==
  /\ TypeOK
  /\ RequestsOnlyWhenUp
  /\ StepsOfTheMode
  /\ SnapshotRenamed
  /\ ~falseStart => FilesAreSound

\* The inductive invariant behind EndedRequestsAreClean, which holds as long as
\* nobody is cut short or cannot see the directories, and no removal gives up.
NobodyIsCutShort == Faults \cap {"lookup", "remove", "kill", "power"} = {}

\* Only who is about to take the link away has removed what it leads to.
LinkIsSolid ==
  varjb \in JbDirs =>
    \/ HasProcursus(jb, varjb)
    \/ ~Rootful /\ pc \in {"rm_strap", "rm_link", "obl_dirs", "obl_link"}
    \/ ~Rootful /\ ForceRevert /\ stage \in {"revert", "revert_link"}

\* A request has launchd's environment name its directory last of all, and a
\* removal has it forget the directory after the files are gone.
EnvIsSolid ==
  stage # "off" /\ jbroot \in JbDirs =>
    /\ ~Rootful
    /\ pc \notin (InstallPc \ {"load"}) \cup CleanupPc
    /\ \/ HasProcursus(jb, jbroot) \/ ForceRevert
       \/ pc \in {"obl_dirs", "obl_link"} \/ (pc = "obl_reload" /\ reply # "error")

\* A removal that has not failed has taken the directories, then the link,
\* then JB_ROOT_PATH.
RemovalGetsThere ==
  ~Rootful =>
    /\ reply = "obliterated" => stage = "up" /\ pc = "idle"
    /\ pc # "obl_snapshot"
    /\ pc \in {"obl_dirs", "obl_link"} => reply = "none"
    /\ pc = "obl_link" => Present(jb) = {}
    /\ (pc \in {"obl_reload", "obl_reboot"} /\ reply # "error") \/ reply = "obliterated" =>
         Present(jb) = {} /\ varjb \notin JbDirs
    /\ (pc = "obl_reboot" /\ reply # "error") \/ reply = "obliterated" => jbroot = "/var/jb"

CleanIInv == LinkIsSolid /\ EnvIsSolid /\ RemovalGetsThere

-----------------------------------------------------------------------------
(* Refinement: palera1nd, the boot task and launchd together implement     *)
(* Install, until a bootstrap is begun on a false ENOENT.  The map forgets *)
(* how far an unfinished directory is, counts a request as at work only    *)
(* until its clean-up starts, and sees /var/jb only while rootless         *)
(* processes run that could follow it and the boot task has not left it    *)
(* out because it could not read the directory.                            *)

TreeOf(d) ==
  IF jb[d] = "absent" THEN "none" ELSE IF jb[d] = "installed" THEN "whole" ELSE "partial"

Promise ==
  INSTANCE Install
    WITH Dirs     <- JbDirs,
         None     <- NoDir,
         Down     <- "down",
         tree     <- [d \in JbDirs |-> TreeOf(d)],
         worker   <- IF pc \in InstallPc /\ ~Rootful THEN dir ELSE NoDir,
         promised <- acked,
         used     <- IF stage # "up" \/ Rootful \/ lostLink THEN "down"
                     ELSE IF varjb \in JbDirs /\ HasProcursus(jb, varjb) THEN varjb
                     ELSE NoDir

\* The requests, boots and crashes modelled here implement the promise of
\* Install: at most one tree, finished only by the request that began it, and
\* whole behind /var/jb from the acknowledgement to the removal.  Every step
\* is one of Install up to the first bootstrap that a lookup has misled.
InstallIsPromised == Promise!Init /\ [][falseStart' \/ Promise!Next]_(Promise!vars)

-----------------------------------------------------------------------------
(* Liveness.                                                               *)

\* Every request is answered, or dies with palera1nd: no failure leaves the
\* main queue waiting.
EveryRequestEnds == pc # "idle" ~> pc = "idle"

\* A boot that is not cut short gets past the boot task.
BootTaskEnds == stage = "spawn" ~> stage \in {"up", "off"}

\* Neither the main queue of palera1nd nor launchd's boot is held up for ever.
\* (bootstrap.c: waitpid; posix_spawn_hook waits for payload -s)
RequestsAndBootsEnd == EveryRequestEnds /\ BootTaskEnds

=============================================================================
