------------------------------- MODULE BootStages -------------------------------
(***************************************************************************)
(* A boot seen from /cores: fakedyld fills it and starts launchd with      *)
(* payload.dylib; that runs the loader's prelaunchd stage, which mounts    *)
(* the binpack and the loader app, and the boot screen; launchd then runs  *)
(* the loader in place of sysstatuscheck, which remounts, changes          *)
(* SpringBoard's preferences, makes the ssh host key, mounts the root that *)
(* is to be reverted and runs the scripts of /etc/rc.d before the jobs     *)
(* start.  A userspace reboot repeats all but fakedyld.                    *)
(*                                                                         *)
(* The volumes behind / are those of FakeFs, /var/jb and the revert those  *)
(* of Bootstrap, the flags of a running system those of SafeMode.          *)
(***************************************************************************)
EXTENDS Naturals, FiniteSets

CONSTANTS
  Devices,     \* how a device boots, see Init
  Scripts,     \* what is in /etc/rc.d
  Faults,      \* whether calls may fail and the device may lose power
  MaxBoots,    \* bound: starts of the kernel
  MaxReboots   \* bound: userspace reboots of one boot

Platforms == {"ios", "tvos", "bridgeos"}

\* The programs that the boot task runs and waits for, besides the scripts.
Tools == {"dropbearkey", "mount_apfs"}

ASSUME BootStagesAssumption ==
  /\ Devices \subseteq [platform : Platforms, ramdisk : BOOLEAN, old : BOOLEAN, ellekit : BOOLEAN,
                        verbose : BOOLEAN, mode : {"normal", "safe", "revert"}, marker : BOOLEAN]
  /\ Scripts \cap Tools = {}
  /\ Faults \in BOOLEAN
  /\ MaxBoots \in Nat /\ MaxReboots \in Nat

VARIABLES
  device,
  pc,          \* the stage of the boot
  root,        \* what / is: the ramdisk or the system
  held,        \* the files that fakedyld has in memory
  cores,       \* the files under /cores
  kept,        \* unlink has failed and left fakedyld where dyld is written
  mounts,      \* how often something is mounted on a place
  writable,    \* the system's volumes that may be written to
  prefs,       \* com.apple.springboard.plist
  accident,    \* an unlucky power loss or a failed write of the preferences
  todo,        \* the scripts that are still to be started
  waiting,     \* the scripts and tools that waitpid was called for
  alive,       \* the scripts and tools that run
  screen,      \* bootscreend
  server,      \* whether the display server runs
  boots, reboots

stage == <<pc, root, held, cores, kept>>
tasks == <<writable, prefs, accident>>
rc    == <<todo, waiting, alive>>
count == <<boots, reboots>>
vars  == <<device, stage, mounts, tasks, rc, screen, server, count>>

Files  == {"payload", "payload.dylib", "dyld"}
Places == {"cores", "binpack", "apps", "strap", "framework"}

\* The processes that take over the display.
Servers == [ios |-> "backboardd", tvos |-> "backboardd", bridgeos |-> "dfrd"]

Goto(p) == pc' = p
Step(from, to) == pc = from /\ Goto(to)

\* CHECK_ERROR and panic: the failure of a step ends the boot.  While payload.dylib's
\* constructor runs, the loader's _panic reaches launchd as a signal.
Checked == {"payload", "mountroot", "dyld", "cores", "write", "patch",
            "hook", "binpack", "apps", "framework", "hooks"}
StepFails ==
  /\ Faults /\ pc \in Checked
  /\ Goto("panic")
  /\ UNCHANGED <<device, root, held, cores, kept, mounts, tasks, rc, screen, server, count>>

\* A device is [platform, ramdisk, old, ellekit, verbose, mode, marker]: whether
\* fakedyld runs from the ramdisk, on an old system (before iOS 14 with the
\* ramdisk, before iOS 15 without), whether ElleKit can be loaded, whether the
\* boot is verbose, normal, in safe mode or to revert, and whether one of the files
\* that ask for a writable / is there.
\*
\* The state the kernel starts with.  Either fakedyld runs from the ramdisk, or
\* the ramdisk is already on /cores and fakedyld is the dyld there.
Start(d) ==
  [pc       |-> IF d.ramdisk THEN "payload" ELSE "dyld",
   root     |-> IF d.ramdisk THEN "ramdisk" ELSE "system",
   cores    |-> [f \in Files |-> IF d.ramdisk THEN "none"
                                 ELSE IF f = "dyld" THEN "fakedyld" ELSE "whole"],
   mounts   |-> [p \in Places |-> IF p = "cores" /\ ~d.ramdisk THEN 1 ELSE 0]]

Init ==
  /\ device \in Devices
  /\ pc = Start(device).pc /\ root = Start(device).root
  /\ cores = Start(device).cores /\ mounts = Start(device).mounts
  /\ held = {} /\ kept = FALSE /\ writable = {}
  /\ prefs \in {"missing", "plain"} /\ accident = FALSE
  /\ todo = {} /\ waiting = {} /\ alive = {}
  /\ screen = "none" /\ server = FALSE
  /\ boots = 1 /\ reboots = 0
-------------------------------------------------------------------------------
(* fakedyld.                                                               *)

ReadPayload ==
  /\ Step("payload", "mountroot")
  /\ held' = held \cup {"payload", "payload.dylib"}
  /\ UNCHANGED <<device, root, cores, kept, mounts, tasks, rc, screen, server, count>>

MountRoot ==
  /\ Step("mountroot", "dyld")
  /\ root' = "system"
  /\ UNCHANGED <<device, held, cores, kept, mounts, tasks, rc, screen, server, count>>

ReadDyld ==
  /\ Step("dyld", "cores")
  /\ held' = held \cup {"dyld"}
  /\ UNCHANGED <<device, root, cores, kept, mounts, tasks, rc, screen, server, count>>

\* init_cores
InitCores ==
  /\ pc = "cores"
  /\ Goto(IF device.ramdisk /\ device.old THEN "panic" ELSE "write")
  /\ mounts' = IF device.ramdisk /\ ~device.old THEN [mounts EXCEPT !["cores"] = @ + 1] ELSE mounts
  /\ cores' = IF device.ramdisk \/ device.old THEN cores ELSE [cores EXCEPT !["dyld"] = "none"]
  /\ UNCHANGED <<device, root, held, kept, tasks, rc, screen, server, count>>

\* Mutant: the fakedyld on /cores stays.
WriteCores_Keeps ==
  /\ Step("write", "patch")
  /\ cores' = IF device.ramdisk
                THEN [f \in Files |-> IF f \in held \ {"dyld"} THEN "whole" ELSE cores[f]]
                ELSE cores
  /\ UNCHANGED <<device, root, held, kept, mounts, tasks, rc, screen, server, count>>

\* The payload is written; without a ramdisk it is there, and the fakedyld that
\* an old kernel still has on /cores goes, if unlink does not fail: its result is
\* ignored.
WriteCores ==
  /\ Step("write", "patch")
  /\ \/ /\ device.ramdisk
        /\ cores' = [f \in Files |-> IF f \in held \ {"dyld"} THEN "whole" ELSE cores[f]]
        /\ UNCHANGED kept
     \/ /\ ~device.ramdisk
        /\ cores' = [cores EXCEPT !["dyld"] = "none"]
        /\ UNCHANGED kept
     \/ /\ ~device.ramdisk /\ Faults /\ cores["dyld"] # "none"
        /\ kept' = TRUE
        /\ UNCHANGED cores
  /\ UNCHANGED <<device, root, held, mounts, tasks, rc, screen, server, count>>

\* patch_dyld, write_file, execve.  write_file does not truncate: a file that is
\* longer than the new one keeps its end.
WriteDyld ==
  /\ Step("patch", "hook")
  /\ \E d \in {"whole"} \cup (IF cores["dyld"] = "none" THEN {} ELSE {"mixed"}) :
       cores' = [cores EXCEPT !["dyld"] = d]
  /\ held' = {}
  /\ UNCHANGED <<device, root, kept, mounts, tasks, rc, screen, server, count>>
-------------------------------------------------------------------------------
(* payload.dylib's constructor and the loader's prelaunchd stage.          *)

\* get_pinfo; a userspace reboot finds the images mounted.
Hook ==
  /\ pc = "hook"
  /\ Goto(IF reboots = 0 THEN "binpack" ELSE "framework")
  /\ UNCHANGED <<device, root, held, cores, kept, mounts, tasks, rc, screen, server, count>>

\* mount_dmg attaches the image and mounts the first device with a name.
Mount(place) == mounts' = [mounts EXCEPT ![place] = @ + 1]

MountBinpack ==
  /\ Step("binpack", "apps")
  /\ Mount("binpack")
  /\ UNCHANGED <<device, root, held, cores, kept, tasks, rc, screen, server, count>>

MountLoader ==
  /\ Step("apps", "strap")
  /\ IF device.platform \in {"ios", "tvos"} THEN Mount("apps") ELSE UNCHANGED mounts
  /\ UNCHANGED <<device, root, held, cores, kept, tasks, rc, screen, server, count>>

\* The strap may be missing, and it may fail.
MountStrap ==
  /\ Step("strap", "framework")
  /\ \/ device.platform = "bridgeos" /\ Mount("strap")
     \/ UNCHANGED mounts
  /\ UNCHANGED <<device, root, held, cores, kept, tasks, rc, screen, server, count>>

\* Where ElleKit cannot be loaded its substitute is mounted in its place.
MountFramework ==
  /\ Step("framework", "screen")
  /\ IF device.ellekit THEN UNCHANGED mounts ELSE Mount("framework")
  /\ UNCHANGED <<device, root, held, cores, kept, tasks, rc, screen, server, count>>

\* The constructor goes on whether bootscreend can be started or not.
StartBootscreen ==
  /\ Step("screen", "hooks")
  /\ \/ /\ ~device.verbose /\ (device.platform = "tvos" => reboots > 0)
        /\ screen' = "started"
     \/ /\ Faults \/ device.verbose \/ (device.platform = "tvos" /\ reboots = 0)
        /\ UNCHANGED screen
  /\ UNCHANGED <<device, root, held, cores, kept, mounts, tasks, rc, server, count>>

\* systemhook and ElleKit are loaded, and launchd's functions hooked; a platform
\* that cannot be told ends in InitDaemonHooks' spin().
InitDaemonHooks ==
  /\ pc = "hooks"
  /\ Goto("task") \/ (Faults /\ Goto("spins"))
  /\ UNCHANGED <<device, root, held, cores, kept, mounts, tasks, rc, screen, server, count>>
-------------------------------------------------------------------------------
(* bootscreend.                                                            *)

\* Without a display it ends; an image or gradient that cannot be drawn is no
\* failure, as retval is 0 once there is a display.
Draw ==
  /\ screen = "started"
  /\ screen' \in {"shown"} \cup (IF Faults THEN {"none"} ELSE {})
  /\ UNCHANGED <<device, stage, mounts, tasks, rc, server, count>>

\* check_for_exit, every five seconds.
CheckForExit ==
  /\ screen = "shown" /\ server
  /\ Servers[device.platform] \in {"backboardd", "dfrd"}
  /\ screen' = "none"
  /\ UNCHANGED <<device, stage, mounts, tasks, rc, server, count>>
-------------------------------------------------------------------------------
(* The loader in place of sysstatuscheck.                                  *)

\* get_pinfo again.  Its CHECK_ERROR ends in the loader's _panic, whose signal
\* launchd no longer catches; _panic then sleeps for ever.
StartTask ==
  /\ pc = "task"
  /\ Goto("remount") \/ (Faults /\ Goto("sleeps"))
  /\ UNCHANGED <<device, root, held, cores, kept, mounts, tasks, rc, screen, server, count>>

\* remount: / only if a file there says so, and preboot not if that fails.
Remount ==
  /\ Step("remount", IF device.platform = "ios" THEN "prefs" ELSE "hostkey")
  /\ writable' \in
       LET all == {"preboot"} \cup (IF device.marker THEN {"root"} ELSE {}) IN
       {all} \cup (IF Faults THEN {all \ {"preboot"}, {}} ELSE {})
  /\ UNCHANGED <<device, root, held, cores, kept, mounts, prefs, accident, rc,
                 screen, server, count>>

\* Mutant: the file is opened for writing before it is known to be a dictionary.
OpenPrefs_Early ==
  /\ pc = "prefs"
  /\ prefs' = "damaged"
  /\ Goto(IF prefs \in {"plain", "shown"} THEN "write prefs" ELSE "hostkey")
  /\ UNCHANGED <<device, root, held, cores, kept, mounts, writable, accident, rc,
                 screen, server, count>>

\* Mutant: the boot does not go on without the preferences.
OpenPrefs_Needed ==
  /\ Step("prefs", "write prefs")
  /\ prefs \in {"plain", "shown"}
  /\ prefs' = "damaged"
  /\ UNCHANGED <<device, root, held, cores, kept, mounts, writable, accident, rc,
                 screen, server, count>>

\* enable_non_default_system_apps reads the dictionary, then opens, and thereby
\* empties, the file.
OpenPrefs ==
  /\ pc = "prefs"
  /\ \/ /\ prefs \in {"plain", "shown"}
        /\ prefs' = "damaged"
        /\ Goto("write prefs")
     \/ /\ prefs \notin {"plain", "shown"} \/ Faults
        /\ Goto("hostkey")
        /\ UNCHANGED prefs
  /\ UNCHANGED <<device, root, held, cores, kept, mounts, writable, accident, rc,
                 screen, server, count>>

WritePrefs ==
  /\ Step("write prefs", "hostkey")
  /\ \/ prefs' = "shown" /\ UNCHANGED accident
     \/ Faults /\ accident' = TRUE /\ UNCHANGED prefs
  /\ UNCHANGED <<device, root, held, cores, kept, mounts, writable, rc, screen, server, count>>

\* posix_spawn and waitpid; what cannot be started is not waited for.
Run(c) == \/ alive' = alive \cup {c} /\ waiting' = {c}
          \/ UNCHANGED <<alive, waiting>>

\* Without an ssh host key dropbearkey makes one.
HostKey ==
  /\ Step("hostkey", "revert")
  /\ Run("dropbearkey")
  /\ UNCHANGED <<device, root, held, cores, kept, mounts, tasks, todo, screen, server, count>>

\* revert_snapshot mounts the root it is to revert, if the root is a snapshot;
\* load_etc_rc_d then lists the scripts.
RevertSnapshot ==
  /\ Step("revert", "rc.d") /\ waiting = {}
  /\ \/ device.mode = "revert" /\ Run("mount_apfs")
     \/ UNCHANGED <<alive, waiting>>
  /\ todo' = IF device.mode = "normal" THEN Scripts ELSE {}
  /\ UNCHANGED <<device, root, held, cores, kept, mounts, tasks, screen, server, count>>

\* load_etc_rc_d: what cannot be started is waited for under a process id that
\* was never set; the loader has no child then, so that waitpid fails.
StartScript == \E s \in todo :
  /\ pc = "rc.d" /\ waiting = {}
  /\ todo' = todo \ {s}
  /\ Run(s)
  /\ UNCHANGED <<device, stage, mounts, tasks, screen, server, count>>

ChildEnds == \E c \in alive :
  /\ alive' = alive \ {c}
  /\ UNCHANGED <<todo, waiting, device, stage, mounts, tasks, screen, server, count>>

\* waitpid returns.
Reap ==
  /\ waiting # {} /\ waiting \cap alive = {}
  /\ waiting' = {}
  /\ UNCHANGED <<todo, alive, device, stage, mounts, tasks, screen, server, count>>

\* The loader becomes the real sysstatuscheck; launchd goes on with its jobs.
ExecSysstatuscheck ==
  /\ Step("rc.d", "jobs") /\ todo = {} /\ waiting = {}
  /\ UNCHANGED <<device, root, held, cores, kept, mounts, tasks, rc, screen, server, count>>
-------------------------------------------------------------------------------
(* The running system.                                                     *)

StartServer ==
  /\ pc = "jobs" /\ ~server
  /\ server' = TRUE
  /\ UNCHANGED <<device, stage, mounts, tasks, rc, screen, count>>

\* cfprefsd writes the preferences.
SavePrefs ==
  /\ pc = "jobs" /\ prefs \notin {"plain", "shown"}
  /\ prefs' = "plain"
  /\ accident' = FALSE
  /\ UNCHANGED <<device, stage, mounts, writable, rc, screen, server, count>>

\* All processes end and launchd is started again, with XPC_USERSPACE_REBOOTED.
UserspaceReboot ==
  /\ Step("jobs", "hook") /\ reboots < MaxReboots
  /\ reboots' = reboots + 1
  /\ screen' = "none" /\ server' = FALSE
  /\ UNCHANGED <<device, root, held, cores, kept, mounts, tasks, rc, boots>>

\* A panic, a reboot, or a power loss.
Restart ==
  /\ pc \in {"panic", "jobs"} \/ Faults
  /\ boots < MaxBoots
  /\ boots' = boots + 1 /\ reboots' = 0
  /\ pc' = Start(device).pc /\ root' = Start(device).root
  /\ cores' = Start(device).cores /\ mounts' = Start(device).mounts
  /\ held' = {} /\ kept' = FALSE /\ writable' = {}
  /\ todo' = {} /\ waiting' = {} /\ alive' = {}
  /\ screen' = "none" /\ server' = FALSE
  /\ accident' = (accident \/ pc = "write prefs")
  /\ UNCHANGED <<device, prefs>>

\* What fakedyld, payload.dylib and the loader do next.
Loader == \/ ReadPayload \/ MountRoot \/ ReadDyld \/ InitCores \/ WriteCores \/ WriteDyld
          \/ Hook \/ MountBinpack \/ MountLoader \/ MountStrap \/ MountFramework \/ StartBootscreen
          \/ InitDaemonHooks \/ StartTask \/ Remount \/ OpenPrefs \/ WritePrefs \/ HostKey
          \/ RevertSnapshot \/ StartScript \/ Reap \/ ExecSysstatuscheck
Bootscreend == Draw \/ CheckForExit

Next == Loader \/ Bootscreend \/ StepFails \/ ChildEnds \/ StartServer \/ SavePrefs
          \/ UserspaceReboot \/ Restart

\* The scheduler runs the loader and bootscreend; nothing makes a script or a
\* tool end.
Fairness == WF_vars(Loader) /\ WF_vars(Bootscreend)
Spec == Init /\ [][Next]_vars
FairSpec == Spec /\ Fairness
-------------------------------------------------------------------------------
(* Properties.                                                             *)

\* When launchd runs its jobs, on whatever path the boot came here and after any
\* number of userspace reboots, /cores has the payload and a dyld that is not
\* mixed with the one that was there (but after a failed unlink, which nobody
\* notices), the images are mounted exactly once, and ElleKit has its substitute
\* where it needs one.  (init_cores, write_file, prelaunchd, CHECK_ERROR)
JobsFindTheBinpack ==
  pc = "jobs" =>
    /\ \A f \in Files : cores[f] = "whole" \/ (f = "dyld" /\ kept)
    /\ \A p \in {"cores", "binpack"} : mounts[p] = 1
    /\ mounts["apps"] = IF device.platform \in {"ios", "tvos"} THEN 1 ELSE 0
    /\ (mounts["framework"] > 0) = ~device.ellekit

\* SpringBoard's preferences are lost, if ever, between the emptying of the file
\* and the end of its writing.  (enable_non_default_system_apps)
SettingsAreKept == prefs = "damaged" => accident \/ pc = "write prefs"

\* The boot task has one child at a time and none when the jobs start; the
\* owner's scripts are started after the tools, and not in safe mode or for a
\* revert.  (runCommand, load_etc_rc_d)
ScriptsRunOneByOne ==
  /\ Cardinality(alive) <= 1
  /\ alive # {} => pc \in {"revert", "rc.d"}
  /\ alive \cap Scripts # {} => device.mode = "normal" /\ pc = "rc.d"

\* The boot task keeps its order: SpringBoard's settings, the tools and the
\* owner's scripts are handled one at a time and are done before the jobs.
\* (sysstatuscheck)
BootTaskIsOrderly == SettingsAreKept /\ ScriptsRunOneByOne

\* What can hold up a launch: a script, dropbearkey or mount_apfs that runs, the
\* spin() of InitDaemonHooks, and the sleep of a loader that panics too late.
\* Nothing else does: neither what cannot be started nor unreadable preferences,
\* failed remounts or a missing boot screen.
\* (sysstatuscheck, runCommand and load_etc_rc_d, which wait without a limit; _panic)
WaitsAreKnown ==
  pc = "hook" ~> (pc \in {"jobs", "panic", "spins", "sleeps", Start(device).pc} \/ alive # {})

\* The boot screen leaves once the display has its server.  (check_for_exit)
BootscreenLeaves == server /\ screen # "none" ~> screen = "none"

\* The boot goes on but where it is known to wait, and its screen goes.
\* (sysstatuscheck, load_etc_rc_d, bootscreend's check_for_exit)
BootMovesOn == WaitsAreKnown /\ BootscreenLeaves

-------------------------------------------------------------------------------
(* The inductive invariant of both: what every stage finds done.           *)

FakedyldPc == {"payload", "mountroot", "dyld", "cores", "write", "patch"}
MountPc    == {"hook", "binpack", "apps", "strap", "framework"}
TaskPc     == {"screen", "hooks", "spins", "task", "sleeps", "remount", "prefs", "write prefs",
               "hostkey", "revert", "rc.d", "jobs"}

TypeOK ==
  /\ device \in Devices
  /\ pc \in FakedyldPc \cup MountPc \cup TaskPc \cup {"panic"}
  /\ root \in {"ramdisk", "system"}
  /\ held \subseteq Files
  /\ cores \in [Files -> {"none", "fakedyld", "whole", "mixed"}]
  /\ kept \in BOOLEAN
  /\ mounts \in [Places -> Nat]
  /\ writable \subseteq {"preboot", "root"}
  /\ prefs \in {"missing", "plain", "damaged", "shown"}
  /\ accident \in BOOLEAN
  /\ todo \subseteq Scripts
  /\ waiting \subseteq Scripts \cup Tools /\ alive \subseteq Scripts \cup Tools
  /\ screen \in {"none", "started", "shown"}
  /\ server \in BOOLEAN
  /\ boots \in Nat /\ reboots \in Nat

\* The payload is on /cores or still in memory, and only where unlink has failed
\* is a dyld in the way when the patched one is written.
CoresAreFilled ==
  /\ device.ramdisk /\ pc \in {"mountroot", "dyld", "cores", "write"} =>
       {"payload", "payload.dylib"} \subseteq held
  /\ device.ramdisk /\ pc \in {"payload", "mountroot", "dyld", "cores", "write"} =>
       cores["dyld"] = "none"
  /\ pc = "patch" => cores["dyld"] = "none" \/ kept
  /\ pc \in {"patch"} \cup MountPc \cup TaskPc \/ (~device.ramdisk /\ pc \in FakedyldPc) =>
       cores["payload"] = "whole" /\ cores["payload.dylib"] = "whole"
  /\ pc \in MountPc \cup TaskPc => cores["dyld"] = "whole" \/ kept

\* Between the start of the kernel and the first mount of the images.
FirstTime(places) ==
  pc \in FakedyldPc \cup places \/ (pc = "hook" /\ reboots = 0)

\* The images are mounted by the first of the boots that share a kernel.
ImagesAreMountedOnce ==
  /\ FirstTime({"binpack", "apps", "strap"}) => reboots = 0
  /\ pc # "panic" =>
       /\ mounts["cores"] =
            IF device.ramdisk /\ pc \in {"payload", "mountroot", "dyld", "cores"} THEN 0 ELSE 1
       /\ mounts["binpack"] = IF FirstTime({"binpack"}) THEN 0 ELSE 1
       /\ mounts["apps"] =
            IF FirstTime({"binpack", "apps"}) \/ device.platform = "bridgeos" THEN 0 ELSE 1
  /\ device.ellekit => mounts["framework"] = 0
  /\ ~device.ellekit /\ pc \in TaskPc => mounts["framework"] > 0

\* The boot task has one child, the tool or the script it waits for.
OneChildAtATime ==
  /\ alive \subseteq waiting
  /\ waiting # {} => \E c \in Scripts \cup Tools : waiting = {c}
  /\ waiting # {} => pc \in {"revert", "rc.d"}
  /\ waiting \cap Scripts # {} => device.mode = "normal" /\ pc = "rc.d"
  /\ todo # {} => device.mode = "normal" /\ pc = "rc.d"

IInv ==
  /\ TypeOK
  /\ CoresAreFilled
  /\ ImagesAreMountedOnce
  /\ SettingsAreKept
  /\ OneChildAtATime

===============================================================================
