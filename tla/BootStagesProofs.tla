---------------------------- MODULE BootStagesProofs ----------------------------
(***************************************************************************)
(* For any device, any scripts, any faults and however many boots and      *)
(* userspace reboots: the jobs find /cores and the binpack as they need    *)
(* them, and the boot task keeps its order.  The invariant says of every   *)
(* stage which files and mounts the stages before it have left.            *)
(***************************************************************************)
EXTENDS BootStages, FiniteSetTheorems, TLAPS

USE BootStagesAssumption
USE DEF Platforms, Files, Places, FakedyldPc, MountPc, TaskPc,
        Tools, stage, tasks, rc, count, Goto, Step, Mount

\* The kernel starts a device of the set, from the ramdisk or from /cores.
LEMMA InitEstablishes == Init => IInv
<1> SUFFICES ASSUME Init PROVE IInv
  OBVIOUS
<1>1. pc = IF device.ramdisk THEN "payload" ELSE "dyld"
  BY DEF Init, Start
<1>2. /\ cores = [f \in Files |-> IF device.ramdisk THEN "none"
                                  ELSE IF f = "dyld" THEN "fakedyld" ELSE "whole"]
      /\ mounts = [p \in Places |-> IF p = "cores" /\ ~device.ramdisk THEN 1 ELSE 0]
  BY DEF Init, Start
<1>3. TypeOK
  <2>1. accident \in BOOLEAN /\ server \in BOOLEAN /\ kept \in BOOLEAN
    BY Zenon DEF Init
  <2>2. root \in {"ramdisk", "system"}
    BY DEF Init, Start
  <2> QED
    BY <1>1, <1>2, <2>1, <2>2 DEF Init, TypeOK
<1>4. CoresAreFilled
  BY <1>1, <1>2 DEF CoresAreFilled
<1>5. ImagesAreMountedOnce
  BY <1>1, <1>2 DEF Init, ImagesAreMountedOnce, FirstTime
<1>6. SettingsAreKept /\ OneChildAtATime
  BY DEF Init, SettingsAreKept, OneChildAtATime
<1> QED
  BY <1>3, <1>4, <1>5, <1>6 DEF IInv

-----------------------------------------------------------------------------
(* The types.                                                              *)

\* The loader's steps, the system's and those of the kernel leave every
\* variable in its range.
LEMMA TypeKeeps == TypeOK /\ [Next]_vars => TypeOK'
<1> SUFFICES ASSUME TypeOK, [Next]_vars PROVE TypeOK'
  OBVIOUS
<1> USE DEF TypeOK
<1>0. (accident \in BOOLEAN /\ server \in BOOLEAN /\ kept \in BOOLEAN)'
  <2>1. accident' \in {accident, TRUE, FALSE, accident \/ pc = "write prefs"}
    BY Zenon DEF Next, Loader, ReadPayload, MountRoot, ReadDyld, InitCores, WriteCores, WriteDyld,
           Hook, MountBinpack, MountLoader, MountStrap, MountFramework, StartBootscreen,
           InitDaemonHooks, StartTask, Remount, OpenPrefs, WritePrefs, HostKey, RevertSnapshot,
           Run, StartScript, Reap, ExecSysstatuscheck, Bootscreend, Draw, CheckForExit,
           StepFails, ChildEnds, StartServer, SavePrefs, UserspaceReboot, Restart, vars
  <2>2. server' \in {server, TRUE, FALSE}
    BY Zenon DEF Next, Loader, ReadPayload, MountRoot, ReadDyld, InitCores, WriteCores, WriteDyld,
           Hook, MountBinpack, MountLoader, MountStrap, MountFramework, StartBootscreen,
           InitDaemonHooks, StartTask, Remount, OpenPrefs, WritePrefs, HostKey, RevertSnapshot,
           Run, StartScript, Reap, ExecSysstatuscheck, Bootscreend, Draw, CheckForExit,
           StepFails, ChildEnds, StartServer, SavePrefs, UserspaceReboot, Restart, vars
  <2>3. kept' \in {kept, TRUE, FALSE}
    BY Zenon DEF Next, Loader, ReadPayload, MountRoot, ReadDyld, InitCores, WriteCores, WriteDyld,
           Hook, MountBinpack, MountLoader, MountStrap, MountFramework, StartBootscreen,
           InitDaemonHooks, StartTask, Remount, OpenPrefs, WritePrefs, HostKey, RevertSnapshot,
           Run, StartScript, Reap, ExecSysstatuscheck, Bootscreend, Draw, CheckForExit,
           StepFails, ChildEnds, StartServer, SavePrefs, UserspaceReboot, Restart, vars
  <2> QED
    BY <2>1, <2>2, <2>3, Zenon
<1>1. (device \in Devices /\ root \in {"ramdisk", "system"})'
  BY DEF Next, Loader, ReadPayload, MountRoot, ReadDyld, InitCores, WriteCores, WriteDyld,
           Hook, MountBinpack, MountLoader, MountStrap, MountFramework, StartBootscreen,
           InitDaemonHooks, StartTask, Remount, OpenPrefs, WritePrefs, HostKey, RevertSnapshot,
           Run, StartScript, Reap, ExecSysstatuscheck, Bootscreend, Draw, CheckForExit,
           StepFails, ChildEnds, StartServer, SavePrefs, UserspaceReboot, Restart, Start, vars
<1>2. (pc \in FakedyldPc \cup MountPc \cup TaskPc \cup {"panic"})'
  BY DEF Next, Loader, ReadPayload, MountRoot, ReadDyld, InitCores, WriteCores, WriteDyld,
           Hook, MountBinpack, MountLoader, MountStrap, MountFramework, StartBootscreen,
           InitDaemonHooks, StartTask, Remount, OpenPrefs, WritePrefs, HostKey, RevertSnapshot,
           Run, StartScript, Reap, ExecSysstatuscheck, Bootscreend, Draw, CheckForExit,
           StepFails, ChildEnds, StartServer, SavePrefs, UserspaceReboot, Restart, Start, vars
<1>3. (held \subseteq Files /\ cores \in [Files -> {"none", "fakedyld", "whole", "mixed"}])'
  <2>1. CASE InitCores \/ WriteCores \/ WriteDyld
    <3>1. CASE InitCores
      BY <3>1 DEF InitCores
    <3>2. CASE WriteCores
      <4>1. held' = held
        BY <3>2 DEF WriteCores
      <4>2. CASE device.ramdisk
        <5>1. cores' = [f \in Files |-> IF f \in held \ {"dyld"} THEN "whole" ELSE cores[f]]
          BY <3>2, <4>2 DEF WriteCores
        <5> QED
          BY <4>1, <5>1
      <4>3. CASE ~device.ramdisk
        BY <3>2, <4>1, <4>3 DEF WriteCores
      <4> QED
        BY <4>2, <4>3
    <3>3. CASE WriteDyld
      BY <3>3 DEF WriteDyld
    <3> QED
      BY <2>1, <3>1, <3>2, <3>3
  <2>2. CASE Restart
    BY <2>2 DEF Restart, Start
  <2>3. CASE ~(InitCores \/ WriteCores \/ WriteDyld \/ Restart)
    <3>1. cores' = cores /\ held' \subseteq Files
      BY <2>3 DEF Next, Loader, ReadPayload, MountRoot, ReadDyld, Hook, MountBinpack, MountLoader,
           MountStrap, MountFramework, StartBootscreen, InitDaemonHooks, StartTask, Remount,
           OpenPrefs, WritePrefs, HostKey, RevertSnapshot, Run, StartScript, Reap,
           ExecSysstatuscheck, Bootscreend, Draw, CheckForExit, StepFails, ChildEnds,
           StartServer, SavePrefs, UserspaceReboot, vars
    <3> QED
      BY <3>1
  <2> QED
    BY <2>1, <2>2, <2>3
<1>4. (mounts \in [Places -> Nat])'
  <2>1. \/ mounts' \in {mounts, Start(device).mounts}
        \/ \E p \in Places : mounts' = [mounts EXCEPT ![p] = @ + 1]
    BY DEF Next, Loader, ReadPayload, MountRoot, ReadDyld, InitCores, WriteCores, WriteDyld,
           Hook, MountBinpack, MountLoader, MountStrap, MountFramework, StartBootscreen,
           InitDaemonHooks, StartTask, Remount, OpenPrefs, WritePrefs, HostKey, RevertSnapshot,
           Run, StartScript, Reap, ExecSysstatuscheck, Bootscreend, Draw, CheckForExit,
           StepFails, ChildEnds, StartServer, SavePrefs, UserspaceReboot, Restart, vars
  <2>2. Start(device).mounts \in [Places -> Nat]
    BY DEF Start
  <2>3. ASSUME NEW p \in Places, mounts' = [mounts EXCEPT ![p] = @ + 1]
        PROVE  mounts' \in [Places -> Nat]
    <3>1. mounts \in [Places -> Nat]
      OBVIOUS
    <3> HIDE DEF TypeOK, Places
    <3> QED
      BY <2>3, <3>1
  <2> QED
    BY <2>1, <2>2, <2>3
<1>5. (/\ writable \subseteq {"preboot", "root"}
       /\ prefs \in {"missing", "plain", "damaged", "shown"}
       /\ screen \in {"none", "started", "shown"})'
  BY DEF Next, Loader, ReadPayload, MountRoot, ReadDyld, InitCores, WriteCores, WriteDyld,
           Hook, MountBinpack, MountLoader, MountStrap, MountFramework, StartBootscreen,
           InitDaemonHooks, StartTask, Remount, OpenPrefs, WritePrefs, HostKey, RevertSnapshot,
           Run, StartScript, Reap, ExecSysstatuscheck, Bootscreend, Draw, CheckForExit,
           StepFails, ChildEnds, StartServer, SavePrefs, UserspaceReboot, Restart, Start, vars
<1>6. (/\ todo \subseteq Scripts
       /\ waiting \subseteq Scripts \cup Tools /\ alive \subseteq Scripts \cup Tools)'
  BY DEF Next, Loader, ReadPayload, MountRoot, ReadDyld, InitCores, WriteCores, WriteDyld,
           Hook, MountBinpack, MountLoader, MountStrap, MountFramework, StartBootscreen,
           InitDaemonHooks, StartTask, Remount, OpenPrefs, WritePrefs, HostKey, RevertSnapshot,
           Run, StartScript, Reap, ExecSysstatuscheck, Bootscreend, Draw, CheckForExit,
           StepFails, ChildEnds, StartServer, SavePrefs, UserspaceReboot, Restart, Start, vars
<1>7. (boots \in Nat /\ reboots \in Nat)'
  <2>1. boots' \in {boots, boots + 1} /\ reboots' \in {reboots, reboots + 1, 0}
    BY DEF Next, Loader, ReadPayload, MountRoot, ReadDyld, InitCores, WriteCores, WriteDyld,
           Hook, MountBinpack, MountLoader, MountStrap, MountFramework, StartBootscreen,
           InitDaemonHooks, StartTask, Remount, OpenPrefs, WritePrefs, HostKey, RevertSnapshot,
           Run, StartScript, Reap, ExecSysstatuscheck, Bootscreend, Draw, CheckForExit,
           StepFails, ChildEnds, StartServer, SavePrefs, UserspaceReboot, Restart, vars
  <2>2. boots \in Nat /\ reboots \in Nat
    OBVIOUS
  <2> HIDE DEF TypeOK
  <2> QED
    BY <2>1, <2>2
<1> QED
  BY <1>0, <1>1, <1>2, <1>3, <1>4, <1>5, <1>6, <1>7, Zenon

-----------------------------------------------------------------------------
(* /cores and the mounts.                                                  *)

\* Which steps leave /cores, the mounts and the stage of the boot alone.
Quiet == Bootscreend \/ StartScript \/ ChildEnds \/ Reap \/ StartServer \/ SavePrefs
         \/ UNCHANGED vars

LEMMA QuietSteps == Quiet => UNCHANGED <<device, pc, held, cores, kept, mounts, reboots>>
BY DEF Quiet, Bootscreend, Draw, CheckForExit, StartScript, ChildEnds, Reap, StartServer,
       SavePrefs, vars

\* fakedyld writes what it holds in memory, and a dyld only where none is.
LEMMA CoresKeep == TypeOK /\ CoresAreFilled /\ [Next]_vars => CoresAreFilled'
<1> SUFFICES ASSUME TypeOK, CoresAreFilled, [Next]_vars PROVE CoresAreFilled'
  OBVIOUS
<1> USE DEF TypeOK, CoresAreFilled
<1>1. CASE ReadPayload \/ MountRoot \/ ReadDyld
  BY <1>1 DEF ReadPayload, MountRoot, ReadDyld
<1>2. CASE InitCores
  BY <1>2 DEF InitCores
<1>3. CASE WriteCores
  BY <1>3 DEF WriteCores
<1>4. CASE WriteDyld
  BY <1>4 DEF WriteDyld
<1>5. CASE Hook \/ MountBinpack \/ MountLoader \/ MountStrap \/ MountFramework
           \/ StartBootscreen \/ InitDaemonHooks \/ StartTask \/ Remount \/ OpenPrefs \/ WritePrefs
           \/ HostKey \/ RevertSnapshot \/ ExecSysstatuscheck \/ UserspaceReboot
  <2>1. cores' = cores /\ device' = device /\ kept' = kept
        /\ pc \in MountPc \cup TaskPc /\ pc' \in MountPc \cup TaskPc
    BY <1>5 DEF Hook, MountBinpack, MountLoader, MountStrap, MountFramework, StartBootscreen,
                InitDaemonHooks, StartTask, Remount, OpenPrefs, WritePrefs, HostKey, RevertSnapshot,
                ExecSysstatuscheck, UserspaceReboot
  <2> QED
    BY <2>1
<1>6. CASE StepFails
  BY <1>6 DEF StepFails
<1>7. CASE Restart
  BY <1>7 DEF Restart, Start
<1>8. CASE Quiet
  BY <1>8, QuietSteps
<1> QED
  BY <1>1, <1>2, <1>3, <1>4, <1>5, <1>6, <1>7, <1>8 DEF Next, Loader, Quiet

\* An image is mounted by the first pass through prelaunchd only.
LEMMA MountsKeep == TypeOK /\ ImagesAreMountedOnce /\ [Next]_vars => ImagesAreMountedOnce'
<1> SUFFICES ASSUME TypeOK, ImagesAreMountedOnce, [Next]_vars PROVE ImagesAreMountedOnce'
  OBVIOUS
<1> USE DEF TypeOK, ImagesAreMountedOnce, FirstTime
<1>1. CASE ReadPayload \/ MountRoot \/ ReadDyld \/ WriteCores \/ WriteDyld
  BY <1>1 DEF ReadPayload, MountRoot, ReadDyld, WriteCores, WriteDyld
<1>2. CASE InitCores
  BY <1>2 DEF InitCores
<1>3. CASE Hook
  BY <1>3 DEF Hook
<1>4. CASE MountBinpack
  BY <1>4 DEF MountBinpack
<1>5. CASE MountLoader
  BY <1>5 DEF MountLoader
<1>6. CASE MountStrap
  BY <1>6 DEF MountStrap
<1>7. CASE MountFramework
  BY <1>7 DEF MountFramework
<1>8. CASE \/ StartBootscreen \/ InitDaemonHooks \/ StartTask \/ Remount \/ OpenPrefs \/ WritePrefs
           \/ HostKey \/ RevertSnapshot \/ ExecSysstatuscheck
  BY <1>8 DEF StartBootscreen, InitDaemonHooks, StartTask, Remount, OpenPrefs, WritePrefs,
              HostKey, RevertSnapshot, ExecSysstatuscheck
<1>9. CASE UserspaceReboot
  BY <1>9 DEF UserspaceReboot
<1>10. CASE StepFails
  BY <1>10 DEF StepFails
<1>11. CASE Restart
  BY <1>11 DEF Restart, Start
<1>12. CASE Quiet
  BY <1>12, QuietSteps
<1> QED
  BY <1>1, <1>2, <1>3, <1>4, <1>5, <1>6, <1>7, <1>8, <1>9, <1>10, <1>11, <1>12
     DEF Next, Loader, Quiet

-----------------------------------------------------------------------------
(* The boot task.                                                          *)

\* Only the loader empties the preferences, and it writes them next.
LEMMA SettingsKeep == TypeOK /\ SettingsAreKept /\ [Next]_vars => SettingsAreKept'
<1> SUFFICES ASSUME TypeOK, SettingsAreKept, [Next]_vars, prefs' = "damaged"
             PROVE  accident' \/ pc' = "write prefs"
  BY DEF SettingsAreKept
<1>1. CASE OpenPrefs
  BY <1>1 DEF OpenPrefs, SettingsAreKept
<1>2. CASE WritePrefs
  BY <1>2 DEF WritePrefs
<1>3. CASE SavePrefs
  BY <1>3 DEF SavePrefs
<1>4. CASE Restart
  <2>1. accident \/ pc = "write prefs"
    BY <1>4 DEF Restart, SettingsAreKept
  <2>2. accident' = (accident \/ pc = "write prefs")
    BY <1>4 DEF Restart
  <2> QED
    BY <2>1, <2>2, Zenon
<1>5. CASE ~(OpenPrefs \/ WritePrefs \/ SavePrefs \/ Restart)
  <2>1. prefs' = prefs /\ accident' = accident
    BY <1>5 DEF Next, Loader, ReadPayload, MountRoot, ReadDyld, InitCores, WriteCores, WriteDyld,
           Hook, MountBinpack, MountLoader, MountStrap, MountFramework, StartBootscreen,
           InitDaemonHooks, StartTask, Remount, HostKey, RevertSnapshot, Run, StartScript,
           Reap, ExecSysstatuscheck, Bootscreend, Draw, CheckForExit, StepFails, ChildEnds,
           StartServer, UserspaceReboot, vars
  <2>2. pc = "write prefs" => pc' = pc
    BY <1>5 DEF Next, Loader, ReadPayload, MountRoot, ReadDyld, InitCores, WriteCores, WriteDyld,
           Hook, MountBinpack, MountLoader, MountStrap, MountFramework, StartBootscreen,
           InitDaemonHooks, StartTask, Remount, HostKey, RevertSnapshot, Run, StartScript,
           Reap, ExecSysstatuscheck, Bootscreend, Draw, CheckForExit, StepFails, Checked,
           ChildEnds, StartServer, UserspaceReboot, vars
  <2>3. accident \/ pc = "write prefs"
    BY <2>1 DEF SettingsAreKept
  <2> QED
    BY <2>1, <2>2, <2>3, Zenon
<1> QED
  BY <1>1, <1>2, <1>3, <1>4, <1>5

\* load_etc_rc_d waits for the script it has started before the next one.
LEMMA ScriptsKeep == TypeOK /\ OneChildAtATime /\ [Next]_vars => OneChildAtATime'
<1> SUFFICES ASSUME TypeOK, OneChildAtATime, [Next]_vars PROVE OneChildAtATime'
  OBVIOUS
<1> USE DEF TypeOK, OneChildAtATime
<1>1. CASE HostKey
  BY <1>1 DEF HostKey, Run
<1>2. CASE RevertSnapshot
  BY <1>2 DEF RevertSnapshot, Run
<1>3. CASE StartScript
  BY <1>3 DEF StartScript, Run
<1>4. CASE ChildEnds
  BY <1>4 DEF ChildEnds
<1>5. CASE Reap
  BY <1>5 DEF Reap
<1>6. CASE ExecSysstatuscheck
  BY <1>6 DEF ExecSysstatuscheck
<1>7. CASE Restart
  BY <1>7 DEF Restart
<1>8. CASE \/ ReadPayload \/ MountRoot \/ ReadDyld \/ InitCores \/ WriteCores \/ WriteDyld
           \/ Hook \/ MountBinpack \/ MountLoader \/ MountStrap \/ MountFramework
           \/ StartBootscreen \/ InitDaemonHooks \/ StartTask \/ Remount \/ OpenPrefs \/ WritePrefs
           \/ StepFails \/ UserspaceReboot
  <2>1. todo = {} /\ waiting = {} /\ UNCHANGED rc
    BY <1>8 DEF ReadPayload, MountRoot, ReadDyld, InitCores, WriteCores, WriteDyld, Hook,
           MountBinpack, MountLoader, MountStrap, MountFramework, StartBootscreen,
           InitDaemonHooks, StartTask, Remount, OpenPrefs, WritePrefs, StepFails, Checked, UserspaceReboot
  <2> QED
    BY <2>1
<1>9. CASE Bootscreend \/ StartServer \/ SavePrefs \/ UNCHANGED vars
  BY <1>9 DEF Bootscreend, Draw, CheckForExit, StartServer, SavePrefs, vars
<1> QED
  BY <1>1, <1>2, <1>3, <1>4, <1>5, <1>6, <1>7, <1>8, <1>9 DEF Next, Loader

-----------------------------------------------------------------------------
(* The theorems.                                                           *)

\* The invariant holds through any number of boots, faults and userspace reboots.
THEOREM Invariance == Spec => []IInv
<1>1. IInv /\ [Next]_vars => IInv'
  BY TypeKeeps, CoresKeep, MountsKeep, SettingsKeep, ScriptsKeep DEF IInv
<1> QED
  BY <1>1, InitEstablishes, PTL DEF Spec

\* Whatever path a boot took, its jobs find the payload and, but after a failed
\* unlink, the patched dyld on /cores, every image mounted once, and ElleKit's
\* substitute where it is needed (init_cores, write_file, prelaunchd).
THEOREM JobsHaveTheirBinpack == Spec => []JobsFindTheBinpack
<1>1. IInv => JobsFindTheBinpack
  <2> SUFFICES ASSUME IInv, pc = "jobs"
               PROVE  /\ \A f \in Files : cores[f] = "whole" \/ (f = "dyld" /\ kept)
                      /\ \A p \in {"cores", "binpack"} : mounts[p] = 1
                      /\ mounts["apps"] = IF device.platform \in {"ios", "tvos"} THEN 1 ELSE 0
                      /\ (mounts["framework"] > 0) = ~device.ellekit
    BY DEF JobsFindTheBinpack
  <2>1. \A f \in Files : cores[f] = "whole" \/ (f = "dyld" /\ kept)
    BY DEF IInv, CoresAreFilled
  <2>2. mounts["cores"] = 1 /\ mounts["binpack"] = 1
    BY DEF IInv, ImagesAreMountedOnce, FirstTime
  <2>3. mounts["apps"] = IF device.platform \in {"ios", "tvos"} THEN 1 ELSE 0
    BY DEF IInv, TypeOK, ImagesAreMountedOnce, FirstTime
  <2>4. (mounts["framework"] > 0) <=> ~device.ellekit
    BY DEF IInv, TypeOK, ImagesAreMountedOnce
  <2>5. (mounts["framework"] > 0) = ~device.ellekit
    BY <2>4
  <2> QED
    BY <2>1, <2>2, <2>3, <2>5
<1> QED
  BY <1>1, Invariance, PTL

\* SpringBoard's preferences are lost only by an accident while they are written,
\* and the tools and the scripts of /etc/rc.d run one by one, before the first job,
\* the scripts only on a normal boot (enable_non_default_system_apps, runCommand,
\* load_etc_rc_d).
THEOREM BootTasksAreOrderly == Spec => []BootTaskIsOrderly
<1>1. IInv => BootTaskIsOrderly
  <2> SUFFICES ASSUME IInv PROVE ScriptsRunOneByOne
    BY DEF IInv, BootTaskIsOrderly
  <2>1. CASE alive = {}
    BY <2>1, FS_EmptySet DEF ScriptsRunOneByOne
  <2>2. CASE alive # {}
    <3>1. PICK c \in Scripts \cup Tools : alive = {c}
      BY <2>2 DEF IInv, OneChildAtATime
    <3>2. Cardinality(alive) = 1
      BY <3>1, FS_Singleton
    <3>3. Cardinality(alive) <= 1
      BY <3>2
    <3>4. pc \in {"revert", "rc.d"}
      BY <2>2 DEF IInv, OneChildAtATime
    <3>5. alive \cap Scripts # {} => device.mode = "normal" /\ pc = "rc.d"
      BY DEF IInv, OneChildAtATime
    <3> QED
      BY <3>3, <3>4, <3>5 DEF ScriptsRunOneByOne
  <2> QED
    BY <2>1, <2>2
<1> QED
  BY <1>1, Invariance, PTL

=============================================================================
