-------------------------------- MODULE SafeMode --------------------------------
(***************************************************************************)
(* Where the safe mode and failure bits of the paleinfo flags live and how *)
(* they travel.  The host writes them to the ramdisk; fakedyld copies them *)
(* to JB_PINFO_FLAGS in launchd's environment; the constructors of         *)
(* payload_dylib and of systemhook in launchd read that variable;          *)
(* systemhook hands its copy to every process launchd spawns, and each     *)
(* process hands its own to its children.  palera1nd and the stages of     *)
(* /cores/payload read the ramdisk instead.  watchdogd (through its hook)  *)
(* asks palera1nd to enter safe mode instead of panicking, p1ctl or the    *)
(* loader to leave it; palera1nd then rewrites the ramdisk, tells launchd  *)
(* and requests a userspace reboot, over which launchd's environment is    *)
(* kept.                                                                   *)
(***************************************************************************)

CONSTANTS
  Procs,      \* slots for the processes of a session that are neither launchd
              \* nor palera1nd
  HostFlags,  \* the flags the host may boot the device with
  Faults,     \* which of FaultKinds may happen
  NoFlags     \* the flags of a process that does not run

Bits == {"safemode", "failure"}

\* "kill"   palera1nd, or the whole device, goes down in the middle of a request
\* "write"  set_pinfo fails, which its callers do not notice
FaultKinds == {"kill", "write"}

ASSUME FlagsAssumption ==
  /\ HostFlags \subseteq SUBSET Bits
  /\ \A flags \in SUBSET Bits : flags # NoFlags
  /\ Faults \subseteq FaultKinds

VARIABLES
  stage,      \* how far launchd has come
  rmd,        \* the flags in the ramdisk
  env,        \* JB_PINFO_FLAGS in launchd's environment
  pflags,     \* payload_dylib's copy in launchd
  hook,       \* systemhook's copy in launchd (pflags and JB_PinfoFlags)
  msg,        \* the flags of a SET_PINFO_FLAGS message launchd has not handled
  daemon,     \* palera1nd's copy
  pc,         \* what palera1nd does next
  procs,      \* the copy of each process of this session
  rcd,        \* did the boot task run the scripts of /etc/rc.d?
  jbdaemons,  \* does launchd load the jailbreak's LaunchDaemons?
  loader,     \* the flags /cores/payload -j has read
  alert,      \* what it told the user
  wanted,     \* history: the flags asked for by the host and the requests since
  left,       \* history: was leaving safe mode requested since the host booted?
  failed      \* history: was a write lost or a request cut short since then?

launchd == <<env, pflags, hook>>
jbd     == <<daemon, pc>>
session == <<procs, rcd, jbdaemons, loader, alert>>
history == <<wanted, left, failed>>
vars    == <<stage, rmd, launchd, msg, jbd, session, history>>

Running(flags) == flags # NoFlags
MaybeFlags     == {NoFlags} \cup SUBSET Bits
NoProcs        == [p \in Procs |-> NoFlags]

Stages == {"off", "exec", "boottask", "daemons", "up"}
Pcs    == {"idle", "write", "send", "wait", "reboot"}
Alerts == {"none", "request", "failure"}

TypeOK ==
  /\ stage \in Stages
  /\ rmd \in SUBSET Bits
  /\ env \in SUBSET Bits
  /\ pflags \in SUBSET Bits
  /\ hook \in SUBSET Bits
  /\ msg \in MaybeFlags
  /\ daemon \in MaybeFlags
  /\ pc \in Pcs
  /\ procs \in [Procs -> MaybeFlags]
  /\ rcd \in BOOLEAN
  /\ jbdaemons \in BOOLEAN
  /\ loader \in MaybeFlags
  /\ alert \in Alerts
  /\ wanted \in SUBSET Bits
  /\ left \in BOOLEAN
  /\ failed \in BOOLEAN

Init ==
  /\ stage = "off"
  /\ rmd = {} /\ env = {} /\ pflags = {} /\ hook = {}
  /\ msg = NoFlags
  /\ daemon = NoFlags /\ pc = "idle"
  /\ procs = NoProcs
  /\ rcd = FALSE /\ jbdaemons = FALSE
  /\ loader = NoFlags /\ alert = "none"
  /\ wanted = {} /\ left = FALSE /\ failed = FALSE

\* Whether a request that ends now is cut short.
CutShort == failed' = (failed \/ pc # "idle")

\* Every process but launchd ends.
EndSession ==
  /\ procs' = NoProcs
  /\ rcd' = FALSE /\ jbdaemons' = FALSE
  /\ loader' = NoFlags /\ alert' = "none"
  /\ daemon' = NoFlags /\ pc' = "idle"
  /\ msg' = NoFlags

-----------------------------------------------------------------------------
(* Boot and userspace reboot.                                              *)

\* The host uploads the ramdisk; fakedyld builds launchd's environment.
Boot(f) ==
  /\ stage = "off"
  /\ stage' = "exec"
  /\ rmd' = f /\ env' = f
  /\ wanted' = f /\ left' = FALSE /\ failed' = FALSE
  /\ UNCHANGED <<pflags, hook, msg, jbd, session>>

\* The constructors of payload_dylib and systemhook.
LoadHooks ==
  /\ stage = "exec"
  /\ stage' = "boottask"
  /\ pflags' = env /\ hook' = env
  /\ UNCHANGED <<rmd, env, msg, jbd, session, history>>

\* /cores/payload -s reads the ramdisk and runs /etc/rc.d outside safe mode.
RunBootTask ==
  /\ stage = "boottask"
  /\ stage' = "daemons"
  /\ rcd' = ("safemode" \notin rmd)
  /\ UNCHANGED <<rmd, launchd, msg, jbd, procs, jbdaemons, loader, alert, history>>

\* hook_xpc_dictionary_get_value, key "Paths": launchd's own copy decides.
LoadDaemons ==
  /\ stage = "daemons"
  /\ stage' = "up"
  /\ jbdaemons' = ("safemode" \notin pflags)
  /\ UNCHANGED <<rmd, launchd, msg, jbd, procs, rcd, loader, alert, history>>

\* /cores/payload -j reads the ramdisk, then waits for SpringBoard.
StartLoader ==
  /\ stage = "up" /\ ~Running(loader)
  /\ loader' = rmd
  /\ UNCHANGED <<stage, rmd, launchd, msg, jbd, procs, rcd, jbdaemons, alert, history>>

ShowAlert ==
  /\ Running(loader) /\ "safemode" \in loader
  /\ alert = "none"
  /\ alert' = IF "failure" \in loader THEN "failure" ELSE "request"
  /\ UNCHANGED <<stage, rmd, launchd, msg, jbd, procs, rcd, jbdaemons, loader, history>>

\* A process other than palera1nd, through perform_reboot3, or launchd itself.
RebootUserspace ==
  /\ stage = "up"
  /\ pc = "idle" \/ "kill" \in Faults
  /\ stage' = "exec"
  /\ EndSession /\ CutShort
  /\ UNCHANGED <<rmd, launchd, wanted, left>>

PowerOff ==
  /\ stage # "off"
  /\ pc = "idle" \/ "kill" \in Faults
  /\ stage' = "off"
  /\ EndSession /\ CutShort
  /\ UNCHANGED <<rmd, launchd, wanted, left>>

-----------------------------------------------------------------------------
(* Processes.  systemhook sets the variable to its own copy, so a child    *)
(* starts with what its parent started with.                               *)

SpawnFromLaunchd(p) ==
  /\ stage = "up" /\ ~Running(procs[p])
  /\ procs' = [procs EXCEPT ![p] = hook]
  /\ UNCHANGED <<stage, rmd, launchd, msg, jbd, rcd, jbdaemons, loader, alert, history>>

SpawnFromProcess(p, q) ==
  /\ Running(procs[p]) /\ ~Running(procs[q])
  /\ procs' = [procs EXCEPT ![q] = procs[p]]
  /\ UNCHANGED <<stage, rmd, launchd, msg, jbd, rcd, jbdaemons, loader, alert, history>>

Exit(p) ==
  /\ Running(procs[p])
  /\ procs' = [procs EXCEPT ![p] = NoFlags]
  /\ UNCHANGED <<stage, rmd, launchd, msg, jbd, rcd, jbdaemons, loader, alert, history>>

-----------------------------------------------------------------------------
(* palera1nd.                                                              *)

\* launchd starts it for the first message; it reads the ramdisk once.
StartDaemon ==
  /\ stage = "up" /\ ~Running(daemon)
  /\ daemon' = rmd
  /\ UNCHANGED <<stage, rmd, launchd, msg, pc, session, history>>

\* What a request makes of the flags.
Intercepted_Assigned(flags) == {"failure"}
Intercepted(flags) == flags \cup {"safemode", "failure"}
Exited(flags)      == flags \ {"safemode", "failure"}

InterceptUserspacePanic ==
  /\ Running(daemon) /\ pc = "idle"
  /\ daemon' = Intercepted(daemon)
  /\ pc' = "write"
  /\ UNCHANGED <<stage, rmd, launchd, msg, session, history>>

ExitSafeMode ==
  /\ Running(daemon) /\ pc = "idle"
  /\ daemon' = Exited(daemon)
  /\ pc' = "write"
  /\ left' = TRUE
  /\ UNCHANGED <<stage, rmd, launchd, msg, session, wanted, failed>>

SetPinfo ==
  /\ pc = "write"
  /\ \/ rmd' = daemon /\ UNCHANGED failed
     \/ "write" \in Faults /\ failed' = TRUE /\ UNCHANGED rmd
  /\ pc' = "send"
  /\ UNCHANGED <<stage, launchd, msg, daemon, session, wanted, left>>

\* jailbreak_send_launchd_message waits for the reply.  launchd takes messages
\* in order, so one that a killed palera1nd left behind goes first.
SendToLaunchd ==
  /\ pc = "send" /\ ~Running(msg)
  /\ msg' = daemon
  /\ pc' = "wait"
  /\ UNCHANGED <<stage, rmd, launchd, daemon, session, history>>

\* xpc_handler in launchd, also for a sender that has been killed meanwhile.
SetPinfoFlags_DaemonOnly ==
  /\ Running(msg)
  /\ pflags' = msg
  /\ msg' = NoFlags
  /\ pc' = IF pc = "wait" THEN "reboot" ELSE pc
  /\ UNCHANGED <<stage, rmd, env, hook, daemon, session, history>>
SetPinfoFlags_NoReply ==
  /\ Running(msg)
  /\ pflags' = msg /\ hook' = msg
  /\ msg' = NoFlags
  /\ UNCHANGED <<stage, rmd, env, pc, daemon, session, history>>
SetPinfoFlags ==
  /\ Running(msg)
  /\ pflags' = msg /\ hook' = msg
  /\ msg' = NoFlags
  /\ pc' = IF pc = "wait" THEN "reboot" ELSE pc
  /\ UNCHANGED <<stage, rmd, env, daemon, session, history>>

\* unmount /Developer and reboot3(RB2_USERREBOOT).
RequestReboot ==
  /\ pc = "reboot"
  /\ wanted' = daemon
  /\ stage' = "exec"
  /\ EndSession
  /\ UNCHANGED <<rmd, launchd, left, failed>>

Kill ==
  /\ "kill" \in Faults
  /\ Running(daemon)
  /\ daemon' = NoFlags /\ pc' = "idle"
  /\ CutShort
  /\ UNCHANGED <<stage, rmd, launchd, msg, session, wanted, left>>

-----------------------------------------------------------------------------

LaunchdStep == LoadHooks \/ RunBootTask \/ LoadDaemons \/ StartLoader \/ ShowAlert
RequestStep == SetPinfo \/ SendToLaunchd \/ SetPinfoFlags \/ RequestReboot
Requests    == StartDaemon \/ InterceptUserspacePanic \/ ExitSafeMode
ProcessStep ==
  \E p \in Procs :
    \/ SpawnFromLaunchd(p) \/ Exit(p)
    \/ \E q \in Procs : SpawnFromProcess(p, q)

Next ==
  \/ \E f \in HostFlags : Boot(f)
  \/ LaunchdStep \/ RequestStep \/ Requests \/ ProcessStep
  \/ RebootUserspace \/ PowerOff \/ Kill

Spec == Init /\ [][Next]_vars

\* launchd handles the messages it gets and palera1nd's main queue runs.
FairSpec == Spec /\ WF_vars(LaunchdStep) /\ WF_vars(RequestStep)

RunsTweaks(p) == Running(procs[p]) /\ "safemode" \notin procs[p]

\* The parts of the jailbreak that safe mode is there to keep from running.
JailbreakCodeRuns == rcd \/ jbdaemons \/ \E p \in Procs : RunsTweaks(p)

-----------------------------------------------------------------------------
(* Properties.                                                             *)

\* A device the host booted into safe mode runs nothing of the jailbreak's
\* user code, neither /etc/rc.d, LaunchDaemons nor tweaks, until somebody asks
\* to leave safe mode: not after panics, userspace reboots, kills of palera1nd,
\* failed writes of the ramdisk or any number of spawns.
HostSafeModeHolds == "safemode" \in env /\ ~left => ~JailbreakCodeRuns

\* When launchd has answered, the two copies of the flags in it are the ones
\* palera1nd sent, also if earlier requests were cut short.
LaunchdFollows == pc = "reboot" => pflags = daemon /\ hook = daemon

\* Unless a write is lost or a request is cut short, ramdisk and palera1nd hold
\* between requests what the host and the requests since have asked for, over
\* userspace reboots and restarts of palera1nd.
DaemonHoldsFlags ==
  ~failed /\ pc = "idle" => rmd = wanted /\ (Running(daemon) => daemon = wanted)

\* launchd takes over what a request asks for only until the userspace reboot
\* the request ends in: its environment is not changed, the next launchd reads
\* that again, and its two copies are the flags of the host.  So where nothing
\* failed launchd and its children run by other flags than ramdisk, palera1nd
\* and the alert of /cores/payload -j as soon as a request changed any, although
\* OVERVIEW.md:106-107 has them "stay consistent system-wide" and
\* launchdaemons.c:80-84 tells the user "Entered Safe Mode".
LaunchdFollowsTheHost ==
  ~failed /\ pc # "reboot" /\ stage \notin {"off", "exec"} => pflags = env /\ hook = env

\* Every copy of the flags is exactly what one can say of it: launchd's two are
\* the request's when it answers and the host's at every other time, those in
\* ramdisk and palera1nd are between requests what was asked for, where nothing
\* failed.  (handler.c: set_pinfo, jailbreak_send_launchd_message; xpc.c:
\* SET_PINFO_FLAGS, which leaves JB_PINFO_FLAGS alone; main.c: load_pflags)
HandoverIsExact == LaunchdFollows /\ LaunchdFollowsTheHost /\ DaemonHoldsFlags

\* palera1nd does not wait for launchd for ever: every request ends, in a
\* userspace reboot unless palera1nd is killed.
RequestEnds == pc = "write" ~> pc = "idle"

-----------------------------------------------------------------------------
(* The inductive invariant behind the safety properties.                   *)

\* Nothing but launchd lives before the boot task, and no process and no
\* request before launchd is up.
Sessions ==
  /\ stage # "up" =>
       procs = NoProcs /\ daemon = NoFlags /\ msg = NoFlags /\ loader = NoFlags /\ ~jbdaemons
  /\ stage \in {"off", "exec", "boottask"} => ~rcd

\* A request belongs to a running palera1nd; the message it waits for carries
\* its flags; when launchd has answered no message is left, and only a request
\* that was cut short leaves one.
Messages ==
  /\ pc # "idle" => daemon # NoFlags
  /\ pc = "wait" => msg = daemon
  /\ pc = "reboot" => msg = NoFlags
  /\ ~failed /\ pc # "wait" => msg = NoFlags

\* palera1nd has its flags written before it sends them.
WrittenBeforeSent == ~failed /\ pc \in {"send", "wait", "reboot"} => rmd = daemon

\* Every copy of the flags a later step could use still has the bit.
EveryCopyIsSafe ==
  "safemode" \in env /\ ~left =>
    /\ "safemode" \in rmd
    /\ stage \notin {"off", "exec"} => "safemode" \in pflags /\ "safemode" \in hook
    /\ \A flags \in {msg, daemon, loader} : Running(flags) => "safemode" \in flags
    /\ \A p \in Procs : ~RunsTweaks(p)
    /\ ~rcd /\ ~jbdaemons

IInv ==
  /\ TypeOK
  /\ Sessions
  /\ Messages
  /\ LaunchdFollows
  /\ LaunchdFollowsTheHost
  /\ EveryCopyIsSafe
  /\ WrittenBeforeSent
  /\ DaemonHoldsFlags

=============================================================================
