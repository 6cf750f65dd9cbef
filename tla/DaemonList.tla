------------------------------- MODULE DaemonList -------------------------------
(***************************************************************************)
(* What launchd finds when it looks up its list of daemons, the paths it   *)
(* looks for more in, and the boot task sysstatuscheck.  The hook on the   *)
(* lookup changes the dictionary it found in place, so that every lookup   *)
(* of a key meets the changes of those before it.                          *)
(***************************************************************************)
EXTENDS Naturals, Sequences, SequencesExt

CONSTANTS
  Boots,    \* flags, userspace reboot or not, platform, Apple's entries and paths
  Lookups   \* bound on the lookups of one boot

VARIABLES
  boot,     \* this boot
  flags,    \* pflags; palera1nd may change them
  daemons,  \* the entries of LaunchDaemons, with the directory and arguments of each
  paths,    \* Paths
  task,     \* the arguments of sysstatuscheck_task
  read,     \* the plists of the lookups so far: was payload.plist read in each?
  at        \* "hooks", "up" or "crash"

vars == <<boot, flags, daemons, paths, task, read, at>>

NoTask == <<>>

Init ==
  /\ boot \in Boots
  /\ flags = boot.flags /\ daemons = boot.apple /\ paths = boot.paths
  /\ task = NoTask /\ read = <<>> /\ at = "hooks"

\* InitDaemonHooks; without a platform launchd spins there, and that is the end.
InitDaemonHooks ==
  /\ at = "hooks" /\ boot.platform # "unknown"
  /\ task' = <<"/cores/payload", "-s">> \o (IF boot.rebooted THEN <<"-u">> ELSE <<>>)
  /\ at' = "up"
  /\ UNCHANGED <<boot, flags, daemons, paths, read>>

\* LAUNCHD_CMD_SET_PINFO_FLAGS (see SafeMode), once.
SetPinfoFlags ==
  /\ at = "up" /\ flags = boot.flags
  /\ \E f \in {flags \cup {"safemode"}, flags \ {"safemode"}} : f # flags /\ flags' = f
  /\ UNCHANGED <<boot, daemons, paths, task, read, at>>
-------------------------------------------------------------------------------
(* hook_xpc_dictionary_get_value.                                          *)

Has(flag) == flag \in flags
Dropbear  == "dropbear-" \o boot.platform
Plist(dir, args) == [dir |-> dir, args |-> args]

\* append_daemon_from_plist: an entry of that name in Apple's directory is
\* replaced.
Binpack == {"payload", "palera1nd", Dropbear} \cup (IF Has("telnetd") THEN {"telnetd"} ELSE {})

Sshd == IF Has("rootful") THEN "" ELSE "/var/jb"

Wanted == Binpack \cup (IF Has("safemode") THEN {"sshd"} ELSE {})

Entry(name) ==
  IF name = "sshd" THEN Plist(Sshd, <<"sshd">>) ELSE Plist("/cores/binpack", <<name>>)

\* ok are the plists that can be read this time.
Merged(ok) ==
  [name \in DOMAIN daemons \cup (Wanted \cap ok) |-> IF name \in Wanted \cap ok THEN Entry(name) ELSE daemons[name]]

\* Mutant: the option is added before the plists are read.
Told_Before(ok) ==
  IF "payload" \in ok THEN Merged(ok) ELSE [Merged(ok) EXCEPT !["payload"].args = Append(@, "-u")]
\* After a userspace reboot the payload is told so, by a change of its entry.
Told(ok) ==
  IF boot.rebooted THEN [Merged(ok) EXCEPT !["payload"].args = Append(@, "-u")] ELSE Merged(ok)

\* Without an entry for the payload, launchd asks a missing array to append.
LookupLaunchDaemons(ok) ==
  /\ at = "up" /\ Len(read) < Lookups
  /\ read' = Append(read, "payload" \in ok)
  /\ IF boot.rebooted /\ "payload" \notin DOMAIN Merged(ok)
     THEN at' = "crash" /\ UNCHANGED daemons
     ELSE daemons' = Told(ok) /\ UNCHANGED at
  /\ UNCHANGED <<boot, flags, paths, task>>

StrapPaths ==
  CASE Has("safemode") -> <<>>
    [] Has("rootful")  -> <<"/Library">>
    [] OTHER           -> <<"/var/jb/Library", "/var/jb/System/Library">>

LookupPaths ==
  /\ at = "up" /\ Len(paths) < Len(boot.paths) + 2 * Lookups
  /\ paths' = paths \o StrapPaths
  /\ UNCHANGED <<boot, flags, daemons, task, read, at>>

Next ==
  \/ InitDaemonHooks
  \/ SetPinfoFlags
  \/ \E ok \in boot.readable : LookupLaunchDaemons(ok)
  \/ LookupPaths

Spec == Init /\ [][Next]_vars
-------------------------------------------------------------------------------
(* Properties.                                                             *)

Told_u(args) == "-u" \in Range(args)

\* The payload and the boot task know of a userspace reboot, both or neither:
\* however often launchd looks its daemons up, the payload is told once, since
\* each lookup reads its plist again, and twice only when it could not.
PayloadKnowsTheReboot ==
  /\ task # NoTask => (Told_u(task) <=> boot.rebooted)
  /\ read # <<>> /\ at = "up" /\ "payload" \in DOMAIN daemons =>
       LET args == daemons["payload"].args IN
       /\ Told_u(args) <=> boot.rebooted
       /\ read[Len(read)] => Len(SelectSeq(args, LAMBDA a : a = "-u")) <= 1

\* In a boot that is in safe mode throughout, nothing of an install is started
\* but its sshd.
OnlySshdInSafeMode ==
  "safemode" \in boot.flags /\ flags = boot.flags =>
    /\ paths = boot.paths
    /\ \A name \in DOMAIN daemons : daemons[name].dir \in {"", "/var/jb"} => name = "sshd"

\* What is started besides Apple's and the binpack's daemons is of the install
\* that the device was booted for, and Apple's paths come first.
DaemonsAreThisInstalls ==
  LET strap == IF "rootful" \in boot.flags THEN {"/Library"} ELSE {"/var/jb/Library", "/var/jb/System/Library"}
  IN /\ IsPrefix(boot.paths, paths)
     /\ Range(paths) \subseteq Range(boot.paths) \cup strap
     /\ "sshd" \in DOMAIN daemons => (daemons["sshd"].dir = "" <=> "rootful" \in boot.flags)

\* launchd gets the daemons of this boot, in any order of its lookups.
\* (hook_xpc_dictionary_get_value)
LaunchdGetsItsDaemons == PayloadKnowsTheReboot /\ OnlySshdInSafeMode /\ DaemonsAreThisInstalls
===============================================================================
