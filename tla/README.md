# Specifications of palera1n's jbinit

This directory holds TLA+ models of jbinit, the early boot and jailbreak
environment of palera1n: what they model, what TLC checks of them and what TLAPS
proves. Paths below are relative to the repository; `payload/` stands for
`src/payload/`, and so on.

## 1. The system

A jailbroken boot runs a chain of programs of this repository:

1. `fakedyld` is started by the kernel instead of dyld. It checks the paleinfo
   flags the host left in the ramdisk, mounts the root file system, completes a
   fakefs with directories of the real system, patches dyld, fills /cores and
   starts launchd with `payload.dylib` inserted and with JB_ROOT_PATH,
   JB_PINFO_FLAGS and JB_TWEAKLOADER_PATH in its environment.
2. The constructor of `payload_dylib` in launchd first runs `/cores/payload` in
   its *prelaunchd* stage, then hooks launchd.
3. When launchd reaches its boot task, the hook runs `/cores/payload -s`
   (*sysstatuscheck*): force revert, repair of /var/jb, /etc/rc.d.
4. launchd loads its daemons; the hook adds palera1nd, the *launchdaemons* stage
   of the loader, and the jailbreak's own LaunchDaemons.
5. Every process launchd spawns, and every process those spawn, gets
   `systemhook.dylib`, which hooks posix_spawn and exec and, where there is one,
   loads `universalhooks`.
6. `palera1nd` serves requests (bootstrap, obliterate, safe mode, ...) from
   `p1ctl`, the loader and the hooks, on one serial dispatch queue.

A userspace reboot replaces launchd, keeps its environment and starts again
at 2.

### Inventory

| Component | State it keeps | Operations | What must be right |
|---|---|---|---|
| palera1nd: bootstrap, obliterate (`payload/jailbreakd/bootstrap.c`, `obliterate.c`) | jb- directory on the preboot volume, /var/jb, root snapshot, pipes and threads of the extraction | install, remove, clean up after a failure | one jb- directory at most; an acknowledged install survives everything; a failed one leaves a state the next request copes with |
| palera1nd: queue and requests (`payload/jailbreakd/main.c`, `handler.c`, `runcmd.c`, `overwrite_file.c`, `reboot3.c`) | main queue, one child, the registered pid | one handler per message | every sender gets an answer, and a true one |
| loader: prelaunchd and setup_fakefs (`payload/loader/`) | fakefs volume, its snapshot, p1-fakefs-rootdev, mounts under /cores | set up, delete, name, mount | at most one fakefs; reverting deletes it, whatever was cut short; the images are mounted once |
| loader: sysstatuscheck (`payload/loader/sysstatuscheck.c`, `create_var_jb.c`, `load_etc_rc_d.c`) | the same files, SpringBoard's preferences, the running script | force revert, repair of /var/jb, remount, preferences, rc.d scripts | /var/jb leads to the install on each rootless boot; rootful boots leave it alone; safe mode runs no script; what can hold up the boot is known |
| loader: launchdaemons stage, on tvOS with HeadBoard (`payload/loader/launchdaemons.c`, `universalhooks/headboard.c`) | registered pid, stopped process | register, stop, resume, alerts | the loader is resumed |
| paleinfo flags (`payload/pinfo.c`, `payload_dylib/xpc.c`, `payload/jailbreakd/handler.c`) | copies in the ramdisk, launchd's environment, two variables in launchd, palera1nd, every process | boot, intercept a panic, leave safe mode, userspace reboot | safe mode holds; the copies do not contradict what was asked for |
| payload_dylib (`payload_dylib/main.c`, `pspawn.c`, `xpc.c`, `daemon.c`) | JB_ROOT_PATH and flags in launchd, the list of daemons | constructor, hooks of launchd, messages from palera1nd | the environment follows the files; launchd finds this boot's daemons, whatever the order of its lookups |
| crash reporter (`payload_dylib/crashreporter.m`) | exception port, handler, state, the listening thread | start, pause, resume, catch, walk the stack | children do not inherit the port; a crash of launchd is reported |
| systemhook (`systemhook/`) | the environment of each image, attribute objects of callers | inject into, or strip, every spawned image; load hooks and tweaks; convert availability checks | injection reaches each image it should, nothing dies at start, callers keep what is theirs; checks keep their meaning |
| universalhooks (`universalhooks/`) | the hooks in each of a few system programs | one hook each | hooks are in the programs and at the functions they are meant for |
| bridgehook (`bridgehook/main.c`) | symbols, replaced methods | look up, replace | the original stays reachable |
| libjailbreak (`libjailbreak/`) | none | preboot path, messages to launchd and palera1nd | the answers name what is there |
| fakedyld (`fakedyld/main/`) | root mount, rollback, bind mounts, files in /cores | check flags, clean_fakefs, mountroot, prepare_rootfs, init_cores | a finished root shows the whole system, a cleaned one its snapshot; the version of the kernel is read right |
| dyld patcher (`fakedyld/patch_dyld/`) | dyld's text | search, patch | every site tells the platform of the device; nothing else changes |
| launchctl library (`payload/launchctl/`) | none | load, unload, bootstrap | the right files in the right domain; errors are reported |
| p1ctl (`payload/p1ctl/`) | none | parse, ask, send, print | what it prints and sends was read or typed |
| bootscreend (`payload/bootscreend.c`) | the picture | show, wait, leave | it leaves when the display has its server |
| fakedyld's C library (`fakedyld/lib/`) | none | search, compare, copy, read numbers, print | the first match, whichever loop finds it; copies survive overlap; nothing outside of the arguments is touched |
| mount_cores, passwd and group wrappers | - | - | section 7 |

### How the components interact

* *Shared files*: palera1nd, sysstatuscheck, payload_dylib, libjailbreak and
  cfprefsd's hook all read or write the jb- directories and /var/jb, with no lock.
* *Messages*: clients to palera1nd; palera1nd to launchd (payload_dylib's
  `xpc_handler`) with a synchronous reply. watchdogd's hook asks palera1nd
  to enter safe mode in place of a panic. The loader and HeadBoard meet through
  palera1nd's `payload_pid` and two signals.
* *Inheritance*: environments from launchd down the tree of processes, and
  exception ports with them.
* *Across boots*: ramdisk (until the device reboots), launchd's environment
  (across userspace reboots), volumes, snapshots and nvram (for good).

### Hard behaviours

* Crashes between two system calls of an install, of a removal, or of a
  fakefs setup; removals whose errors are ignored.
* A killed palera1nd whose message launchd handles after the next one started.
* A command run as root that asks the daemon that waits for it.
* A signal that continues a process before it has stopped itself.
* launchd's threads around posix_spawn, with no lock on the crash reporter.
* Copies of one fact (flags, root path) that are refreshed at different moments.
* Long chains of exec through programs that edit their environment, where only
  a *count* of entries says whether the environment is complete.
* Failures that the code prints or ignores, and what later steps make of them.
* Pairs of lists in two programs that have to agree (what a partial copy leaves
  out and what a boot binds; who loads universalhooks and what it has for them).
* Code found by patterns in programs that change with each release.

`PROJECT.json` lists these as hazards, each at its line, with the properties
that cover it.

## 2. Modules

| Module | Contents |
|---|---|
| `PrebootFs` | the state of jb- directories and /var/jb and the pure functions on them; no variables; used by `Bootstrap` |
| `Install` | the abstract specification: what an install promises to whoever uses /var/jb |
| `Bootstrap` | palera1nd's bootstrap and obliterate, the boot task's file handling, launchd's JB_ROOT_PATH, cfprefsd's interference; implements `Install` |
| `SafeMode` | the safe mode and failure bits in ramdisk, launchd, palera1nd and processes |
| `SpawnEnv` | systemhook's treatment of a spawned image's environment |
| `FakeFs` | setup, boot, rollback and deletion of the fakefs volume |
| `Jailbreakd` | palera1nd's queue and requests with their clients, and the handshake of loader and HeadBoard |
| `CrashReporter` | launchd's threads, the constructor of payload.dylib and the crash reporter |
| `BootStages` | a boot seen from /cores: files, mounts, stages, scripts, boot screen |
| `Availability`, `MachO`, `DyldPatch`, `Backtrace`, `Launchctl`, `ProcessStart`, `LsdSearch`, `Bridgehook`, `P1ctl`, `DaemonList`, `KernelVersion`, `CLibrary`, `Strtoul` | parts that work alone (below) |
| `MC...` | constants for TLC; `MCAlgorithms` runs all parts that work alone, `MCPrograms` holds the inputs of ten of them |
| `...Proofs` | theorems and proofs about one module each |

### PrebootFs and Bootstrap

`jb` maps each possible jb-XXXXXXXX name to *absent*, *made* (mkdtemp done),
*renamed* (the tree is at procursus), *installed* (.installed_palera1n written)
or *torn* (a recursive removal has begun). `varjb` is what /var/jb is, `root`,
`origfs` and `revertPending` stand for the rootful system and its snapshot.
`PrebootPath` is what jailbreak_get_prebootPath should answer, including the two errnos
the code tells apart, ENOENT (may install) and EEXIST (must not). `PrebootAnswers`
is what it may answer: it does not look at the result of jailbreak_get_bmhash, and takes
every failure of opendir for ENOENT (`prebootpath.c:19-24`). Each of its callers acts on
the answer, and three history variables say when that made a difference: `falseStart`
(a bootstrap began on an ENOENT that was not true), `lostLink` (this boot's
create_var_jb left out the link) and `lostEnv` (the last reload of JB_ROOT_PATH
forgot the directory).

Each system call of `bootstrap()` that changes the files is an action, in source
order: rename the snapshot, mkdtemp, remove bogus /var/jb, unlink /var/jb,
spawn tar and zstd, wait for them, rename the tree, symlink, configure, write
the marker, check LaunchDaemons, reload launchd's environment, answer. The exits
are told apart: a plain return (`Answer("error")`), REMOVE_TPATH (`rm_tpath`)
and RM_STRAP (`rm_strap`, then `rm_link`). `obliterate()` is modelled alike.
`StageRevert`, `StageRevertLink` and `StageVarJb` are sysstatuscheck;
`SpawnPayload` is the reload that posix_spawn_hook makes before it. revert_snapshot, which
a boot and `obliterate()` share, is two steps, `NameSnapshotBack` and `RevertToSnapshot`,
with its early returns and the two failures it only prints; `clean_fakefs` may fail as
well. `attempt` remembers how the last attempt at a revert went, and `acked` the directory
of the last install answered with Success that nobody has asked to remove.

Exactly one of rootless and rootful is set at each boot, as
`fakedyld/main/mountroot.c:16-20` requires. The extraction is one step with two
outcomes and a torn state; passwords, scripts and file modes are one
step, *configure*, with its failures. Once the root file system a boot runs on
has been removed (section 4), no further install is modelled on it (`RootIsGone`).

### Install and the refinement

`Install` knows none of these steps: a directory holds no, part of or a whole
tree, at most one request works, one directory may be promised, and `used` is what
a process finds behind /var/jb. A tree becomes whole only for the request
that began it, an abandoned one is only ever removed, and the promised one is
untouchable and visible until it is withdrawn. `Bootstrap!InstallIsPromised` maps `jb` to `tree` (*made*,
*renamed* and *torn* are all partial), `acked` to `promised`, and /var/jb to `used`
as long as rootless processes run that could follow it; a device that
is off, in its boot task or booted rootful, or whose boot task left out the link because
it could not read the directory, is `Down`. Every step is one of `Install` up to a
bootstrap begun on a false ENOENT, which makes a second tree.

### SafeMode

One variable for each copy of the flags: `rmd` (ramdisk), `env`
(JB_PINFO_FLAGS in launchd's environment), `pflags` and `hook` (the variables of
payload_dylib and systemhook in launchd), `daemon` (palera1nd), `procs`, `loader`.
Only the boot writes `env`: `LAUNCHD_CMD_SET_PINFO_FLAGS` (`SetPinfoFlags`)
changes the two variables, and a userspace reboot makes launchd read `env`
again, so a safe mode that a panic brought is over at once for launchd and its
children, while `alert` follows the ramdisk (`LaunchdFollowsTheHost`, a part of
`HandoverIsExact`; section 4). The stages of a boot follow launchd: constructor, boot task, jobs, up.
`wanted` remembers what the host and the requests since asked for, `failed` that
a write was lost or a request cut short. A request goes through *write* (set_pinfo), *send*, *wait* and
*reboot*; a message may outlive the palera1nd that sent it (`msg`).

### SpawnEnv

Each process has an environment with its path variables as sets and its own
variables present or absent; the six entries the code counts are `JbEntries`.
`GivenEnv` is what spawn_hook_common hands to the kernel: unchanged, completed
or stripped. `Launch` is a spawn or exec up to the start of the image,
`Initialize` dyld and systemhook's constructor in it. `born` remembers the call that
started an image until the image has initialised. A whole call of
spawn_hook_common is one step, as nobody else can touch the caller's environment
while its thread is in it. Left out: ENOMEM results and the entry count that
envbuf_free uses.

`JB_ROOT_PATH` and `JB_PINFO_FLAGS` travel with the values that `Bootstrap` and
`SafeMode` are about; `SpawnEnv` only says whether the variables arrive.

### FakeFs

`fakefs` and `other` are the devices that hold a volume of the Recovery role
and of others, `content` what was copied to each, `orig` and `dirty` the
snapshot orig-fs and changes since. The directories are five classes,
as far as a partial copy and the bind mounts treat them differently. `missed` holds
those that a copy left something of out: the status callback lets copyfile go on after
an error, so a class that fails to copy is there in part or not at all, and the setup
succeeds. A partial copy goes by what volume names begin with, the bind mounts by the Darwin
version; `device` has both, in each combination, and `ListsAgree` says where they mean the same.
`CheckAndClean` and `MountRoot` are fakedyld, `DeleteFakefs`, `DeleteVariable`
and `SetVariable` the prelaunchd stage, `FindFakefs` to `FinishSetup`
setup_fakefs. `Panics` is `_panic` in the loader, and a reboot: the volumes and nvram stay.
What PongoOS does with p1-fakefs-rootdev is external: it boots that device when
the variable is set, guesses otherwise, and a setup or a revert may be started
from the real system.

### Jailbreakd

`req` is each sender's message (or none), `pc` and `cur` what the main queue is
doing and for whom, `out` the fields of the reply being made. `Serve` takes one
sender's message off the queue; the handlers with several steps (run as root:
spawn suspended, SIGCONT, waitpid; overwrite: open with O_TRUNC, write) give the
others a chance to run in between. The messages about bootstrap and flags are one step
here, with the outcomes their own modules give them. `Children` are commands run as root;
a child may itself send. `loader` and `home` are the two ends of the tvOS handshake,
`payload_pid` what palera1nd remembers of it. `Kill` ends palera1nd:
senders get a broken connection, launchd starts it again, memory is gone. `lost`
is history: which of the known ways to lose a continuation has happened. What p1ctl makes
of a reply is `P1ctlSucceeds`.

### CrashReporter

The exception port of the task, the Objective-C handler and
gCrashReporterState are three variables that `Pause` and `Resume` change one at a time;
`Hook(t)` is a thread's way through posix_spawn_orig_wrapper, `kid` what each child
inherited, with the history of whether its spawn was `hooked` and `alone`.
`Constructor` runs launchd_hook_main with its panics, the
restart after the fakefs setup and the spin() of InitDaemonHooks. A report is `mach` (of the
thread that listens on the port) or `objc` (of the thread that threw), *writing*, *saved* or *stuck*;
`SaveReport` and `Abort` are the two handlers. While one writes, another thread of launchd may
crash (`LaunchdCrashes`, `Uncaught`), and so may the handler itself (`HandlerFaults`, for instance over a
frame pointer it follows before it looks at it). The listening thread cannot answer its own exception:
then launchd hangs. `cause` says what ended launchd.

### BootStages

`cores` says which files fakedyld has written and whether a dyld is mixed with
an older one, `mounts` counts each mount, `prefs` is SpringBoard's property list on
its way from plain to shown, `todo` the rc.d scripts left, `alive` and `waiting` the children of
the boot task, which are scripts and the two tools dropbearkey and mount_apfs, `screen`
bootscreend. `CHECK_ERROR` ends in a panic; in the boot task, whose
signal launchd no longer catches, only in the endless sleep of the loader's `_panic` (`StartTask`). `kept` says that fakedyld's unlink of
an old dyld on /cores failed, which it does not notice, so that the new one is written over it. `accident` is history: power loss or
a failed write between the emptying of the preferences and the end of their writing.

### The parts that work alone

Each has its input as a variable that does not change, a state for what the
code computes in steps, and properties that compare the result with what it is
for, not with another computation of the same kind.

* `Availability`: the hook of _availability_version_check. A version means a *year*
  on each platform; a converted check must be answered as for its year.
* `MachO`, `DyldPatch`: plooshfinder's arithmetic with the widths of the immediates
  as constants, and the patches of dyld on a dyld of a few functions. What a
  patched instruction *does* is evaluated (`EverySiteTellsPlatform`,
  `PatchedDyldStaysOnDisk`), so a wrong register or branch shows.
* `Backtrace`: the walk over saved frame pointers that may be anything, against the
  chain of records that are really there.
* `Launchctl`: one call, its message, launchd's answer and the result.
* `ProcessStart`: what the constructor loads, the answers of the hooked functions, and the
  sandbox extensions: entering a sandbox is taken to drop them, and the hook consumes them anew.
* `LsdSearch`: the masked search and the walk back to the prologue.
* `Bridgehook`: symbols of images, replacement of inherited and own methods.
* `P1ctl`: options, the password asked for twice, modes, and the description
  of the flags bit by bit.
* `DaemonList`: the lookups in launchd's dictionary, which change what later ones find.
* `KernelVersion`: the numbers read from the kernel's version string.
* `CLibrary`: the loops of memmem (byte by byte, or with a table of skips for long
  needles in long haystacks), strstr, strcmp, strncmp and memcpy, iteration by iteration,
  against the first occurrence, the first difference and the bytes that were there.
  The two lengths from which on memmem uses its table are constants.
* `Strtoul`: strtoul and strtoull, against the value of a numeral taken apart into
  blanks, sign, prefix and digits. isupper is modelled by what it tests (section 4).

## 3. Runs

A run's property is often a conjunction of named parts, each stated with its
comment where it is defined; the parts are named here when they say more.

| Run | Distinct states | Shows |
|---|---|---|
| `bootstrap_faults` | 396 064 | Failing steps, removals, reverts and lookups, kills of palera1nd, power loss and cfprefsd, on a device with a signed system volume booted with any flags. Until a bootstrap is begun on a false ENOENT: one jb- directory at most and a sound link (`JbDirsAreSound`); an acknowledged install stays complete, and reachable and in JB_ROOT_PATH except where the last lookup failed (`AcknowledgedInstallHolds`); `Bootstrap` implements `Install` (`InstallIsPromised`). Always: rootful boots leave the directories alone; requests and boot tasks end |
| `bootstrap_nossv` | 7 104 | Without a signed system volume, with failing steps and reverts and cfprefsd: the root stays revertible; a request leaves nothing dangling, Success from obliterate means gone (`EndedRequestsAreClean`) |
| `bootstrap_wiped` | violation | A failed rootful extraction removes the root file system |
| `safemode_faults` | 69 501 | With kills, power loss, panics and failed writes: safe mode asked for by the host holds; launchd's two copies of the flags are palera1nd's when it answers; unless something failed they are the host's at every other time, while ramdisk and palera1nd hold between requests what was asked for (`HandoverIsExact`); every request ends |
| `spawnenv_children` | 13 658 | Chains of spawns and execs: no constructor dies; the hook follows to every image it should and safe mode is for one image (`InjectionIsExact`); callers' libraries and directories stay |
| `spawnenv_crash` | violation | A caller dies when libroot's directory is removed from a longer search path |
| `fakefs_faults` | 2 283 072 | With power loss, failed nvram writes and files that cannot be copied: one fakefs at most, finished roots lack nothing but what could not be copied (where `ListsAgree`), a revert deletes, clean_fakefs starts from the snapshot |
| `jailbreakd_clients` | 34 876 | With palera1nd killed and writes failing: a client told "done" has a whole file, and the exit status is the command's (`RepliesAreTrue`); what is stopped is known to somebody who continues it, or one of the recorded accidents has happened (`StoppedAreContinued`); every sender gets an answer, a broken connection included, except one that palera1nd itself waits for |
| `jailbreakd_stop` | violation | HeadBoard resumes the loader before it has stopped itself |
| `crashreporter_threads` | 313 266 | Two threads of launchd spawn while launchd, its child and the reporter raise exceptions: a spawn that overlaps with no other restores the reporter and keeps the port from its child, every heir of the port is from before the hook or from a race (`RacesAreBounded`); a caught exception is reported before launchd ends but for a panic, a restart, a second Objective-C exception, or a second crash while a job is being spawned or after a race (`ReportBeforeAbort`); launchd hangs only in spin() and when the listening thread itself faults (`HangsAreKnown`) |
| `bootstages_faults` | 101 848 | All platforms, old and new systems, normal, safe and reverting boots, failing steps, power loss and userspace reboots: launchd's jobs find one whole set of files and mounts, a dyld that could not be unlinked excepted; preferences are kept, tools and scripts run one by one, scripts in normal boots only (`BootTaskIsOrderly`); only a script, dropbearkey, mount_apfs, spin() and the loader's sleep can hold the boot, and the boot screen leaves (`BootMovesOn`) |
| `algorithms_inputs` | 630 162 | The thirteen parts that work alone, each over all its inputs (`MCAlgorithms`, `MCPrograms`) |

`bootstrap_nossv` leaves kills, power loss, failing lookups and incomplete removals out
because `EndedRequestsAreClean` does not hold with them, nor does the code say it should
(remove_jailbreak_files returns 0 when opendir fails, `sysstatuscheck.c:118`, and obliterate then
answers Success with everything still there); it is proved for any set of faults without those
four, and the other property of that run, `RootCanBeReverted`, with every fault (section 6).

No run lists an inductive invariant `IInv`: each is proved, and a run of the
properties that follow from it says more.

Deadlock is checked except where the system may really stop: devices with the
old kind of system volume can lose their root for good (`bootstrap_nossv`,
section 4), launchd is gone after an abort (`crashreporter_threads`), the
number of boots is bounded (`bootstages_faults`) and an algorithm is
done with its input (`algorithms_inputs`).

### Bounds

* `Bootstrap`: two directory names. A third adds nothing, as two are enough to
  violate SingleJbDir and each request works on one; no counter bounds
  requests, boots or faults. Host flags: none, force_revert, rootful, and both.
* `SafeMode`: two process slots, so that a process can outlive a change of the
  flags and hand old ones to another. Requests and reboots are unbounded.
* `SpawnEnv`: launchd and one slot, which a chain of execs of any length
  passes through; one foreign library, one foreign directory; two candidates of a
  PATH search (`MaxAttempts`) and factors up to two (`MaxFactor`), the
  least with which "more than once" can happen.
* `FakeFs`: two devices, so that a second fakefs, or a volume of another role in
  the way, can exist; iOS and tvOS (bridgeOS takes tvOS's branches), Darwin 21
  and 22, the two sides of each comparison, with both kinds of volume names each. Devices are
  symmetric. `MaxMissed` is 1: one class of a copy may fail, any of them; more are independent of
  each other.
* `Jailbreakd`: one client with a command of each kind, one command run as root
  that itself sends a request, the loader and HeadBoard, on every platform. The queue
  serves one request at a time, so a second client would repeat what the command
  run as root already shows: waiting while another is served.
* `CrashReporter`: two threads, the least that race, and one slot for a child, which is
  any of those spawned, as no property compares two; flags that take each of the constructor's
  branches.
* `BootStages`: two scripts (one can hold up the other) besides the two tools, two boots (the second
  after power loss) and one userspace reboot in each, which is when mounts could
  be doubled.
* `algorithms_inputs`: `Page`, `AdrpBits`, `BranchBits`, `Bits` and `Max` shrink
  pages, immediates, flags and the stack buffer so that each limit, and the
  values on both of its sides, are among the inputs; `ModeBits` keeps its
  width of 16. `Lookups` is two, as the second lookup of launchd's
  dictionary finds what the first has changed. `LongNeedle` and `LongHaystack`
  are 2 and 5, so that memmem takes each of its loops with windows that move by one, by
  more, and past the end; `ULONG_MAX` is 63, which numerals of four characters
  overflow in each base.

### Fairness

* `Bootstrap!FairSpec`: weak fairness of `LoaderStep`, as launchd waits for the
  boot task, and of `JailbreakdStep`, as the main queue of
  palera1nd runs what it has taken. That the children of an extraction,
  and what the boot task runs, exit is part of it: waitpid has no timeout, and RequestsAndBootsEnd
  says only that nothing else can keep a request or a boot from ending. `BootStages` has the waits of
  the boot task.
* `SafeMode!FairSpec`: weak fairness of `LaunchdStep` and `RequestStep`, for the
  same reasons on the two ends of a synchronous message.
* `Jailbreakd!Spec`: weak fairness of `Launch` (launchd starts palera1nd on demand), `Work`, `Loader`, `Home`
  and of a command's exit; *strong* fairness of `Serve(r)` for each sender, because
  the main queue is first in, first out, while the model takes any message: with
  weak fairness one that waits could be passed over for ever.
* `CrashReporter!Spec`: weak fairness of the constructor and of the two handlers; none of
  exceptions, of new spawns, or of threads in the hook, as an exception may have stopped them.
* `BootStages!FairSpec`: weak fairness of `Loader` and `Bootscreend`; none of
  the scripts and tools, which may run as long as they like. A spin and the sleep of `_panic` have
  no step to take.

No fairness is assumed of boots, requests, faults or users.

## 4. Violations

* **bootstrap_wiped** (`payload/jailbreakd/bootstrap.c:250`): the if in
  REMOVE_TPATH ends in a semicolon. On rootful, tarPath is "/".
* **spawnenv_crash** (`systemhook/common.c:473`): the wrong list is enumerated.
* **jailbreakd_stop** (`payload/loader/launchdaemons.c:74`): HeadBoard's SIGCONT can
  come between the registration and the SIGSTOP. palera1nd has then forgotten
  the pid, and what the stage runs last, "so the user can still get the loader",
  is not run.

Disagreements that have no run of their own, because a property of a passing run states what the
code does instead, or the history variable up to which its promise holds:

* `payload_dylib/xpc.c:74`: the flags that an intercepted panic sets are not put into launchd's
  environment, which the userspace reboot that follows reads again. With no fault at all, launchd
  then loads LaunchDaemons and tweaks while `payload/loader/launchdaemons.c:80-84` tells the user
  "Entered Safe Mode" by the ramdisk, and `OVERVIEW.md:106-107` promises flags that "stay consistent
  system-wide" (`HandoverIsExact`: launchd runs by the host's flags).
* `libjailbreak/prebootpath.c:21-24`: "Already Bootstrappped" (`payload/jailbreakd/bootstrap.c:81`)
  is what a device with an install is told, unless opendir fails: that is taken for ENOENT, and the
  bootstrap goes on beside the install (`falseStart`, up to which `JbDirsAreSound`,
  `AcknowledgedInstallHolds` and `InstallIsPromised` hold).
* `payload/loader/setup_fakefs.c:160`: the callback answers an error with COPYFILE_CONTINUE, so the
  check of copyfile's result (line 263) never sees it and "FakeFS is finished!" (line 282) is
  reported (`missed`, which is all that `FinishedRootIsWhole` allows a finished root to lack).
* `systemhook/main.c:631`: "macOS 26 -> bridgeOS 10" (line 629) subtracts 10 and gives 16
  (`VersionsKeepTheirMeaning`: it counts as a version of 2031).
* `payload/p1ctl/bootstrap.c:57`: getpass returns one buffer, so what was typed last is compared
  with itself, and "Passwords does not match" (line 53) is only ever about an empty one
  (`P1ctlInventsNothing`: the second prompt alone decides).
* `payload/p1ctl/palera1n_flags.c:45`: the "string description of all the flags" of `-s`
  (`payload/p1ctl/main.c:31`) covers bits 0 to 62 (`P1ctlInventsNothing`).

Seen while modelling, where nothing in the repository says otherwise or a
module states the exception:

* `payload_dylib/crashreporter.m:56-57`: the comment relies on a caller with an
  empty frame, the walk starts at the crashed thread's frame pointer.
* `fakedyld/lib/isupper.c:2`: the test is `c >= 'A' && c >= 'Z'`. For strtoul and
  strtoull, lower-case digits are then 42 and more and end a number, and capitals up
  to Y count less than zero. `NumberIsRead` is about numerals whose digits no letter follows;
  the callers, `macho.c` and `pe.c` of plooshfinder, are outside of the dyld patcher's path.
* `payload/launchctl/load.c:128`: a reply is released that was never set when
  sending failed.
* `systemhook/common.c:391`: memory limits are multiplied in the caller's own
  attributes, so again at the next spawn with the same object (`SpawnEnv` has the
  factor).
* `systemhook/common.c:490`: stripping leaves JB_TWEAKLOADER_PATH in place.
* `fakedyld/main/fakedyld.c:73` and `fakedyld/main/rw_file.c:27-39`: an unlink that fails is not noticed, and a
  file is written over without being truncated, so the end of an old dyld may follow a new one
  (`kept` in `BootStages`).

## 5. Mutants

Operators named `X_Something` before a definition `X` are plausible mistakes
in the code `X` stands for (a skipped clean-up, a weaker test, an assignment
for a union). Each is never used by the specification; substituted for `X` it makes
the property it is listed with in `PROJECT.json` fail.

## 6. Proofs

Eight modules hold theorems. Each proves the inductive invariant `IInv` of its model
(theorem *Invariance*), for all values of the constants that satisfy the module's
ASSUME, and derives the others from it. `PROJECT.json` lists the theorems with the
properties they state.

| Module | Theorems (property) |
|---|---|
| `BootstrapProofs` | DirectoriesAreSound (JbDirsAreSound), AcknowledgedInstallsAreDurable (AcknowledgedInstallHolds), RootStaysRevertible (RootCanBeReverted), RootfulBootsKeepThem (RootfulLeavesPreboot), EndedRequestsLeaveNothing (EndedRequestsAreClean), BootstrapImplementsInstall (InstallIsPromised) |
| `SafeModeProofs` | SafeModeFromTheHostHolds (HostSafeModeHolds), RequestsAreHandedOver (HandoverIsExact) |
| `SpawnEnvProofs` | NoConstructorDies (ConstructorFindsItsVariables), InjectionHitsItsTargets (InjectionIsExact), PathsOfCallersAreKept (CallersPathsAreKept) |
| `FakeFsProofs` | OneFakefs (AtMostOneFakefs), FinishedRootsAreWhole (FinishedRootIsWhole), RevertsDelete (RevertDeletesFakefs), CleanBootsStartPristine (CleanBootStartsPristine) |
| `JailbreakdProofs` | NoReplyMisleads (RepliesAreTrue), NobodyStaysStopped (StoppedAreContinued) |
| `CrashReporterProofs` | RacesStayBounded (RacesAreBounded), ReportIsSaved (ReportBeforeAbort) |
| `BootStagesProofs` | JobsHaveTheirBinpack (JobsFindTheBinpack), BootTasksAreOrderly (BootTaskIsOrderly) |
| `CLibraryProofs` | LibraryKeepsItsPromises (LibraryIsExact) |

Two theorems have a hypothesis besides the ASSUMEs. EndedRequestsLeaveNothing has
`NobodyIsCutShort`: palera1nd is not killed, the power does not fail, lookups work and no
removal stops half way, while steps and reverts may fail and cfprefsd may interfere; these are
the faults of the run `bootstrap_nossv`. LibraryKeepsItsPromises has `CallsAreWellformed`:
the arguments are strings and buffers of the lengths given, and a copy stays inside of
its buffer. `MCAlgorithms` assumes it of the calls it makes, so TLC evaluates it.

Why the invariants are needed:

* *Bootstrap*. "One directory" is not inductive: a request makes a directory
  after it has looked. `BeforeMkdir` says none exists until mkdtemp, `DirInProgress` what
  the directory and /var/jb are at each step, `AckedUntouched` that no request
  or revert works on an acknowledged install and that /var/jb is a link to it or
  nothing. The last is why a rootful boot, which unlinks /var/jb, and cfprefsd,
  which may create it, do no harm: on the next rootless boot the link is remade before
  anything can occupy its place; where a failing lookup left it out (`lostLink`), cfprefsd
  may, but only with what the next boot task removes. All of this is part of `IInv` under
  `~falseStart`. `SnapshotRenamed` and `EnvInStep` carry the snapshot's name, through failed
  and repeated reverts, and JB_ROOT_PATH through a request.
* *Bootstrap without cuts*. That an ended request leaves nothing needs what
  holds while one is at work: the link leads to a directory unless the request
  that will unlink it has begun (`LinkIsSolid`), JB_ROOT_PATH does so
  unless its reload is ahead (`EnvIsSolid`), and a removal has emptied what it has
  passed (`RemovalGetsThere`). Together they are `CleanIInv`, inductive
  relative to `IInv`.
* *Bootstrap implements Install*. The initial states map to `Install!Init`. For each step
  before and after which `falseStart` is FALSE, from `IInv` and from `DirUnset` (a request has no directory before mkdtemp),
  the proof names the action of `Install` that the mapped variables take: mkdtemp
  is Begin, the marker Complete, the answer Acknowledge, a failing step or a kill
  Abandon, each removal of a directory Lose, a remade or removed link Relink, a request
  to remove or a boot that reverts Withdraw, the end of a boot GoDown; the
  others change nothing that `Install` sees.
  `IInv` is what makes Lose legal: only a removal that was asked for touches what
  was acknowledged, and by then `acked` is withdrawn.
* *SafeMode*. HostSafeModeHolds holds because *every* copy still has the bit
  (`EveryCopyIsSafe`): a panic only adds bits and only leaving removes
  them. `Messages` ties an unanswered message to the request that waits
  for it, also when an older one of a dead palera1nd was in the way, and says that only a request
  that was cut short leaves one, so that launchd's copies stay the host's (`LaunchdFollowsTheHost`);
  `WrittenBeforeSent` that palera1nd writes the ramdisk before it tells launchd.
* *SpawnEnv*. ConstructorFindsItsVariables needs that an image without
  systemhook never has the hook in its own DYLD_INSERT_LIBRARIES (`ChainIsSound`):
  else it could pass the hook on without the variables. InjectionIsExact and
  CallersPathsAreKept compare an image with the call that started it, `born`:
  between the start of an image and its constructor nothing changes what it was
  given (`ImagesAreExact`), and what it was given is the lemma GivenEnvIsExact.
* *FakeFs*. A finished copy is whole because each step knows what it did: the
  volume is created when there is none, is empty when it is named, holds nothing
  it should skip while it is filled (`SetupProgress`), and only such volumes
  get the snapshot (`VolumesAreSound`). `Whole` is where the list of
  skipped directories, chosen by volume name, and the list of bound ones,
  chosen by Darwin version, meet: up to `missed`, where `ListsAgree`. That a clean boot starts from the snapshot
  needs that only `CheckAndClean` leads to the mount, and refuses the setup flag
  (`CleanedBeforeMount`).
* *Jailbreakd*. A reply is true because the request in hand is still its
  sender's when it is answered (`RequestInHand`), which fails to be inductive as soon
  as two could be in hand (`OneAtATime`) or a restarted palera1nd could go on
  with the old one. `RegisteredIsKnown` bridges the steps between the
  registration of the loader and its stop.
* *CrashReporter*. A thread alone in the hook finds what it left, step by step
  (`LoneIsOrderly`), if being alone can be told: two threads in the hook are both
  in `shared` (`TwoAreShared`). After a race the state may be anything, so a
  lone thread's clean start needs that *Paused* always has somebody in the hook
  who will resume (`PausedIsResumed`); the last to leave a race can leave the port lost,
  never the state Paused. `Started` fixes what the constructor has done. That a caught exception is
  saved needs `PortIsKept`: while nobody is in the hook, and nobody has raced there since the last lone
  spawn, the port is on, so a second exception waits for the listening thread instead of ending launchd.
* *BootStages*. `CoresAreFilled` says what fakedyld holds in memory or has
  written at each stage, on a ramdisk boot and on one that finds /cores as an
  earlier boot left it, and that a dyld is in the way of the patched one only when `kept`; `ImagesAreMountedOnce` counts mounts
  over userspace reboots, which pass the same code again; `OneChildAtATime` ties
  the tool or script that runs to the one waited for.
* *CLibrary*. The search with the table is right because no skip is longer than the
  distance to the next place of the byte (`SkipsAreShort`, which the table loop
  establishes prefix by prefix), so a window never passes an occurrence;
  the naive search because a mismatch goes back to one past its start. A copy
  is right because the bytes still to be read have not been overwritten, in the
  direction the code chooses by comparing the two places (`Copied`, `Done`).

Only model-checked:

* liveness (RequestsAndBootsEnd, RequestEnds, EverySenderIsAnswered,
  HangsAreKnown, BootMovesOn): liveness under fairness is beyond the prover;
* the parts run by `MCAlgorithms`, except `CLibrary`. `Bridgehook` and `DyldPatch`
  use RECURSIVE operators, which keep a module from being proved about; the value
  of a numeral (`Strtoul`) and a stack walk (`Backtrace`) are defined by
  recursion over data, for which there is no induction here. The others are
  finite tables or single steps, which the runs cover input by input.

## 7. Not modelled

* printf and its relatives in fakedyld's C library: third-party formatting of console
  output. memset, bzero, strlen, strchr and atoi appear in the modules that use them as
  what they return.
* mount_cores: its main() begins with spin(1), so nothing else in it runs.
* passwd and group wrappers (`systemhook`) and the repair of users and groups
  (`payload/loader/fixup_user_groups.c`): compiled out, HAVE_SYSTEMWIDE_IOSEXEC is
  not defined by any makefile. Likewise the variant of mount_dmg with a thread and a
  time limit (DIRECT_MOUNT_DMG).
* plooshfinder's ELF, PE and kext formats, which the patcher does not use;
  `bootout_cmd` of the launchctl library, which nobody calls; `securityd.c`, which is
  empty; the libroot and preboot_path commands of p1ctl, which only print.
* Drawing of the boot screen, generation of ssh host keys, reading and writing of files
  by the test tool.
* Descriptors, the lifetime of strings in memory, and log output. Two hazards
  in `PROJECT.json` are about these and have no property for that reason.
* vendored headers (`apple-include-private/`, `include/`): declarations only.

`PROJECT.json` gives the state of every component.

## 8. Plan

Every safety and action property of the stateful models is proved. What is left:

1. Theorems about the parts that work alone: `DaemonList`, `LsdSearch`,
   `KernelVersion`, `Launchctl`, `P1ctl`, `ProcessStart`. Their properties are checked
   under names of `MCAlgorithms`, which reaches the RECURSIVE operators of `Bridgehook`
   and `DyldPatch`; those have to become recursive functions first.
2. `Availability`: monotonicity of the conversion, for any table of years.
3. Modules that compose two models where one's variable is the other's input: the flags
   of `SafeMode` in the children of `SpawnEnv`.
